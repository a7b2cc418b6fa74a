--------------------------- MODULE JSEventLoop_proof ---------------------------
(***************************************************************************)
(* Theorems about JSEventLoop, of a page that calls no async function, for *)
(* any number of callbacks, timers, reads and nested callbacks, any        *)
(* capacity of the channels, and whatever deadlines pass.                  *)
(*                                                                         *)
(* The order of the page's callbacks is decided by where each of them      *)
(* waits and by which functions are active on the Go stack, so the         *)
(* invariant `Page' is about these two: what may stand on what (Shape),    *)
(* that a guard is set exactly while its function is active (Guards), that *)
(* a callback waits in one place and, once started, in none (Data), what   *)
(* the queue holds when the page is about to end (EndOK), and where the    *)
(* ticks of the page stand in it (TicksOK).                                *)
(***************************************************************************)
EXTENDS JSEventLoop, FiniteSets, FiniteSetTheorems, WellFoundedInduction, SequenceTheorems, TLAPS

(***************************************************************************)
(* Induction over the natural numbers in a form the provers can use: over  *)
(* a set instead of a formula. It follows from the library's theorems that *)
(* proper inclusion of finite sets is well founded and that every nonempty *)
(* set has a minimal element for such an order.                            *)
(***************************************************************************)
\* Every nonempty set of natural numbers has a least element.
LEMMA LeastElement ==
    ASSUME NEW T \in SUBSET Nat, T # {}
    PROVE  \E n \in T : \A m \in T : n <= m
<1> DEFINE C == {1 .. n : n \in T}
           R == StrictSubsetOrdering(Nat)
<1>1. C \subseteq FiniteSubsetsOf(Nat)
  <2> SUFFICES ASSUME NEW n \in T PROVE (1 .. n) \in FiniteSubsetsOf(Nat) OBVIOUS
  <2>1. IsFiniteSet(1 .. n) BY FS_Interval
  <2> QED BY <2>1 DEF FiniteSubsetsOf
<1>2. C # {} OBVIOUS
<1>3. IsWellFoundedOn(R, FiniteSubsetsOf(Nat)) BY FS_StrictSubsetOrderingWellFounded
<1> HIDE DEF R
<1>4. PICK x \in C : \A y \in C : ~(<<y, x>> \in R)
  <2> HIDE DEF C
  <2> QED BY <1>1, <1>2, <1>3, WFMin
<1>5. PICK n \in T : x = 1 .. n OBVIOUS
<1>6. ASSUME NEW m \in T, ~(n <= m) PROVE FALSE
  <2>1. (1 .. m) \in C OBVIOUS
  <2>2. (1 .. m) \subseteq (1 .. n) /\ (1 .. m) # (1 .. n)
    <3>1. n \in 1 .. n /\ n \notin 1 .. m BY <1>6
    <3>2. (1 .. m) \subseteq (1 .. n) BY <1>6
    <3> QED BY <3>1, <3>2
  <2>3. <<1 .. m, 1 .. n>> \in R
    <3>1. (1 .. m) \in SUBSET Nat /\ (1 .. n) \in SUBSET Nat OBVIOUS
    <3> QED BY <2>2, <3>1 DEF R, StrictSubsetOrdering
  <2> QED BY <1>4, <1>5, <2>1, <2>3
<1> QED BY <1>6

\* Induction over a set: what contains 0 and each successor is Nat.
LEMMA SetInduction ==
    ASSUME NEW T \in SUBSET Nat, 0 \in T, \A n \in T : n + 1 \in T
    PROVE  T = Nat
<1> SUFFICES ASSUME Nat \ T # {} PROVE FALSE OBVIOUS
<1>1. PICK n \in Nat \ T : \A m \in Nat \ T : n <= m BY LeastElement
<1>2. n # 0 OBVIOUS
<1>3. n - 1 \in Nat /\ ~(n <= n - 1) BY <1>2
<1>4. n - 1 \in T BY <1>1, <1>3
<1>5. (n - 1) + 1 = n OBVIOUS
<1> QED BY <1>4, <1>5

\* g is the table of the loop that starts with a and makes step i by G.
LoopTable(g, n, S, a, G) ==
    /\ g \in [0 .. n -> S] /\ g[0] = a
    /\ \A i \in 1 .. n : g[i] = G[<<i, g[i - 1]>>]

\* Every such loop has its table, whatever its length.
LEMMA LoopsRun ==
    ASSUME NEW S, NEW a \in S, NEW G \in [Nat \X S -> S], NEW N \in Nat
    PROVE  \E g : LoopTable(g, N, S, a, G)
<1> DEFINE T == {n \in Nat : \E g : LoopTable(g, n, S, a, G)}
<1>1. 0 \in T
  <2> DEFINE g == [i \in 0 .. 0 |-> a]
  <2>1. LoopTable(g, 0, S, a, G) BY DEF LoopTable
  <2> QED BY <2>1
<1>2. ASSUME NEW n \in T PROVE n + 1 \in T
  <2>1. PICK g : LoopTable(g, n, S, a, G) OBVIOUS
  <2> DEFINE h == [i \in 0 .. n + 1 |-> IF i = n + 1 THEN G[<<n + 1, g[n]>>] ELSE g[i]]
  <2>2. g \in [0 .. n -> S] /\ g[n] \in S BY <2>1 DEF LoopTable
  <2>3. G[<<n + 1, g[n]>>] \in S BY <2>2
  <2>4. h \in [0 .. n + 1 -> S] BY <2>2, <2>3
  <2>5. h[0] = a BY <2>1 DEF LoopTable
  <2>6. h[n + 1] = G[<<n + 1, g[n]>>] /\ \A i \in 0 .. n : h[i] = g[i] OBVIOUS
  <2> HIDE DEF h
  <2>7. ASSUME NEW i \in 1 .. n + 1 PROVE h[i] = G[<<i, h[i - 1]>>]
    <3>1. i - 1 \in 0 .. n OBVIOUS
    <3>2. h[i - 1] = g[i - 1] BY <2>6, <3>1
    <3>3. CASE i = n + 1
      <4>1. i - 1 = n BY <3>3
      <4> QED BY <2>6, <3>2, <3>3, <4>1
    <3>4. CASE i # n + 1
      <4>1. i \in 1 .. n /\ i \in 0 .. n BY <3>4
      <4>2. g[i] = G[<<i, g[i - 1]>>] BY <2>1, <4>1 DEF LoopTable
      <4>3. h[i] = g[i] BY <2>6, <4>1
      <4> QED BY <3>2, <4>2, <4>3
    <3> QED BY <3>3, <3>4
  <2>8. LoopTable(h, n + 1, S, a, G) BY <2>4, <2>5, <2>7 DEF LoopTable
  <2> QED BY <2>8
<1>3. T = Nat
  <2> HIDE DEF T
  <2>1. T \in SUBSET Nat BY DEF T
  <2> QED BY <1>1, <1>2, <2>1, SetInduction
<1> QED BY <1>3

-----------------------------------------------------------------------------
(***************************************************************************)
(* The Go stack.                                                           *)
(***************************************************************************)

\* What the frames of TypeOK may be doing
Phases == {"code", "post", "done", "pump", "check", "micro", "imm", "loop"}

\* A page that calls no async function has one VM.
Frames ==
  [k : {"main", "sync", "job", "pump", "micro", "drain", "await"}, vm : {1}, id : 0..MaxIds,
   ph : Phases, late : BOOLEAN]

\* Frames that run code of the page
Code == {"main", "sync", "job"}

\* What b may stand on.
OnTop(a, b) ==
  \/ b.k = "sync"  /\ a.k \in Code /\ a.ph = "code"
  \/ b.k = "await" /\ a.k = "main" /\ a.ph = "code"
  \/ b.k = "pump"  /\ \/ a.k \in Code /\ a.ph = "code"
                      \/ a.k = "drain" /\ a.ph = "check"
  \/ b.k = "drain" /\ a.k \in Code /\ a.ph = "post"
  \/ b.k = "micro" /\ \/ a.k = "pump" /\ a.ph = "imm"
                      \/ a.k \in Code /\ a.ph = "done"
                      \/ a.k = "await"
  \/ b.k = "job"   /\ a.k = "micro"

\* The frames stand on what may call them.
Shape(s) ==
  /\ s \in Seq(Frames)
  /\ Len(s) > 0 => s[1].k = "main"
  /\ \A i \in 1..Len(s) - 1 : OnTop(s[i], s[i + 1])
  /\ \A i \in 1..Len(s) : s[i].k = "job" => s[i].id \in Ids

On(s, k) == \E i \in 1..Len(s) : s[i].k = k
AtMostOne(s, k) == \A i, j \in 1..Len(s) : s[i].k = k /\ s[j].k = k => i = j

\* Only flags of frames and the phase of the innermost one differ.
Similar(s, t) ==
  /\ Len(t) = Len(s)
  /\ \A i \in 1..Len(s) : t[i].k = s[i].k /\ t[i].id = s[i].id /\ (i < Len(s) => t[i].ph = s[i].ph)

\* The stack keeps its shape when only such things change.
LEMMA SimilarShape ==
  ASSUME NEW s, Shape(s), NEW t \in Seq(Frames), Similar(s, t)
  PROVE  /\ Shape(t)
         /\ \A k : (On(t, k) <=> On(s, k)) /\ (AtMostOne(s, k) => AtMostOne(t, k))
<1>1. PICK N \in Nat : N = Len(s) BY DEF Shape
<1>2. Len(t) = N BY <1>1 DEF Similar
<1>3. \A i \in 1..N : t[i].k = s[i].k /\ t[i].id = s[i].id /\ (i < N => t[i].ph = s[i].ph)
  BY <1>1 DEF Similar
<1>4. ASSUME NEW i \in 1..N - 1 PROVE OnTop(t[i], t[i + 1])
  <2>1. i \in 1..N /\ i + 1 \in 1..N /\ i < N OBVIOUS
  <2>2. OnTop(s[i], s[i + 1]) BY <1>1 DEF Shape
  <2> QED BY <1>3, <2>1, <2>2 DEF OnTop
<1>5. N > 0 => t[1].k = "main"
  <2> SUFFICES ASSUME N > 0 PROVE t[1].k = "main" OBVIOUS
  <2>1. 1 \in 1..N OBVIOUS
  <2> QED BY <1>1, <1>3, <2>1 DEF Shape
<1>6. \A i \in 1..N : t[i].k = "job" => t[i].id \in Ids BY <1>1, <1>3 DEF Shape
<1>7. Shape(t) BY <1>2, <1>4, <1>5, <1>6 DEF Shape
<1>8. ASSUME NEW k PROVE (On(t, k) <=> On(s, k)) /\ (AtMostOne(s, k) => AtMostOne(t, k))
  BY <1>1, <1>2, <1>3 DEF On, AtMostOne
<1> QED BY <1>7, <1>8

\* A new innermost frame.
LEMMA PushShape ==
  ASSUME NEW s, Shape(s), NEW f \in Frames,
         IF Len(s) = 0 THEN f.k = "main" ELSE OnTop(s[Len(s)], f),
         f.k = "job" => f.id \in Ids
  PROVE  /\ Shape(Append(s, f))
         /\ \A k : On(Append(s, f), k) <=> On(s, k) \/ f.k = k
         /\ \A k : AtMostOne(s, k) /\ (f.k = k => ~On(s, k)) => AtMostOne(Append(s, f), k)
<1>1. PICK N \in Nat : N = Len(s) BY DEF Shape
<1>2. PICK t : t = Append(s, f) OBVIOUS
<1>3. t \in Seq(Frames) /\ Len(t) = N + 1 /\ t[N + 1] = f BY <1>1, <1>2 DEF Shape
<1>4. \A i \in 1..N : t[i] = s[i] BY <1>1, <1>2 DEF Shape
<1>5. ASSUME NEW i \in 1..N PROVE OnTop(t[i], t[i + 1])
  <2>1. CASE i = N BY <1>1, <1>3, <1>4, <2>1
  <2>2. CASE i # N
    <3>1. i \in 1..N - 1 /\ i + 1 \in 1..N BY <2>2
    <3>2. OnTop(s[i], s[i + 1]) BY <1>1, <3>1 DEF Shape
    <3> QED BY <1>4, <3>1, <3>2
  <2> QED BY <2>1, <2>2
<1>6. t[1].k = "main"
  <2>1. CASE N = 0 BY <1>1, <1>3, <2>1
  <2>2. CASE N # 0
    <3>1. 1 \in 1..N BY <2>2
    <3> QED BY <1>1, <1>4, <3>1 DEF Shape
  <2> QED BY <2>1, <2>2
<1>7. \A i \in 1..N + 1 : i = N + 1 \/ i \in 1..N OBVIOUS
<1>8. \A i \in 1..N + 1 : t[i].k = "job" => t[i].id \in Ids BY <1>1, <1>3, <1>4, <1>7 DEF Shape
<1>9. Shape(t)
  <2>1. (N + 1) - 1 = N OBVIOUS
  <2> QED BY <1>3, <1>5, <1>6, <1>8, <2>1 DEF Shape
<1>10. ASSUME NEW k PROVE On(t, k) <=> On(s, k) \/ f.k = k
  <2>1. N + 1 \in 1..N + 1 /\ \A i \in 1..N : i \in 1..N + 1 OBVIOUS
  <2> QED BY <1>1, <1>3, <1>4, <1>7, <2>1 DEF On
<1>11. ASSUME NEW k, AtMostOne(s, k), f.k = k => ~On(s, k) PROVE AtMostOne(t, k)
  BY <1>1, <1>3, <1>4, <1>7, <1>11 DEF On, AtMostOne
<1> QED BY <1>2, <1>9, <1>10, <1>11

\* The innermost frame goes.
LEMMA PopShape ==
  ASSUME NEW s, Shape(s), Len(s) > 0
  PROVE  /\ Shape(Front(s)) /\ Len(Front(s)) = Len(s) - 1
         /\ \A i \in 1..Len(s) - 1 : Front(s)[i] = s[i]
         /\ \A k : On(s, k) <=> On(Front(s), k) \/ s[Len(s)].k = k
         /\ \A k : AtMostOne(s, k) => /\ AtMostOne(Front(s), k)
                                      /\ s[Len(s)].k = k => ~On(Front(s), k)
<1>1. PICK N \in Nat : N + 1 = Len(s)
  <2>1. Len(s) \in Nat BY DEF Shape
  <2>2. Len(s) - 1 \in Nat /\ (Len(s) - 1) + 1 = Len(s) BY <2>1
  <2> QED BY <2>2
<1>2. PICK t : t = Front(s) OBVIOUS
<1>3. t \in Seq(Frames) /\ Len(t) = N /\ \A i \in 1..N : t[i] = s[i]
  BY <1>1, <1>2 DEF Front, Shape
<1>4. \A i \in 1..N + 1 : i = N + 1 \/ i \in 1..N OBVIOUS
<1>5. Shape(t)
  <2>1. \A i \in 1..N - 1 : i \in 1..N /\ i + 1 \in 1..N /\ OnTop(s[i], s[i + 1]) BY <1>1 DEF Shape
  <2>2. N > 0 => 1 \in 1..N OBVIOUS
  <2>3. \A i \in 1..N : i \in 1..N + 1 OBVIOUS
  <2> QED BY <1>1, <1>3, <2>1, <2>2, <2>3 DEF Shape
<1>6. ASSUME NEW k PROVE On(s, k) <=> On(t, k) \/ s[N + 1].k = k
  <2>1. N + 1 \in 1..N + 1 /\ \A i \in 1..N : i \in 1..N + 1 OBVIOUS
  <2> QED BY <1>1, <1>3, <1>4, <2>1 DEF On
<1>7. ASSUME NEW k, AtMostOne(s, k) PROVE AtMostOne(t, k) /\ (s[N + 1].k = k => ~On(t, k))
  <2>1. N + 1 \in 1..N + 1 /\ \A i \in 1..N : i \in 1..N + 1 /\ i # N + 1 OBVIOUS
  <2> QED BY <1>1, <1>3, <1>7, <2>1 DEF On, AtMostOne
<1> QED BY SMTT(30), <1>1, <1>2, <1>3, <1>5, <1>6, <1>7

-----------------------------------------------------------------------------
(***************************************************************************)
(* The queues.                                                             *)
(***************************************************************************)
Jobs1 == [vm : {1}, id : Ids]
\* c is among the jobs, or in a list.
InM(m, c) == \E i \in 1..Len(m) : m[i].id = c
InL(l, c) == \E i \in 1..Len(l) : l[i] = c

Kinds == Callbacks \cup Promises \cup {"none"}

\* c has not been queued as a job.
Waits(m, rn, c) == rn[c] = 0 /\ ~InM(m, c)

\* The jobs: no callback twice, except that of an interval.
MicroOK(m, kd, rn) ==
  /\ m \in Seq(Jobs1)
  /\ \A i \in 1..Len(m) :
       /\ kd[m[i].id] \in Callbacks
       /\ kd[m[i].id] # "interval" =>
            /\ rn[m[i].id] = 0
            /\ \A j \in 1..Len(m) : m[i].id = m[j].id => i = j

\* Ticks or immediates
ListOK(l, k, m, kd, rn) ==
  /\ l \in Seq(Ids)
  /\ \A i \in 1..Len(l) :
       /\ kd[l[i]] = k /\ Waits(m, rn, l[i])
       /\ \A j \in 1..Len(l) : l[i] = l[j] => i = j

\* A settled promise has no reactions.
ReactionsOK(re, p, m, kd, rn) ==
  /\ re \in [Ids -> Seq(Ids)]
  /\ \A o \in Ids : \A i \in 1..Len(re[o]) :
       /\ kd[re[o][i]] = "reaction" /\ Waits(m, rn, re[o][i]) /\ p[o] = "pending"
       /\ \A u \in Ids : \A j \in 1..Len(re[u]) : re[o][i] = re[u][j] => o = u /\ i = j

\* Only intervals and timeouts that have not been handled are items.
ItemsOK(it, m, kd, rn) ==
  /\ it \in [Ids -> {"none", "ref", "unref"}]
  /\ \A c \in Ids : it[c] # "none" =>
       \/ kd[c] = "interval"
       \/ kd[c] = "timeout" /\ Waits(m, rn, c)

\* A read is under way or its result in the channel.
ReadsOK(rs, rd, m, kd, rn) ==
  /\ rs \subseteq {1} \X Ids /\ rd \in Seq({1} \X Ids)
  /\ \A r \in rs : kd[r[2]] = "read" /\ Waits(m, rn, r[2])
  /\ \A i \in 1..Len(rd) :
       /\ kd[rd[i][2]] = "read" /\ Waits(m, rn, rd[i][2]) /\ rd[i] \notin rs
       /\ \A j \in 1..Len(rd) : rd[i] = rd[j] => i = j

\* A job is a callback of the one VM.
LEMMA JobIds ==
  ASSUME NEW m \in Seq(Jobs1)
  PROVE  \A i \in 1..Len(m) : m[i] \in Jobs1 /\ m[i].id \in Ids /\ m[i].vm = 1
<1>1. \A i \in 1..Len(m) : m[i] \in Jobs1 OBVIOUS
<1> QED BY <1>1 DEF Jobs1

\* The jobs of a list.
LEMMA JobsIs ==
  ASSUME NEW l \in Seq(Ids)
  PROVE  /\ Jobs(1, l) \in Seq(Jobs1) /\ Len(Jobs(1, l)) = Len(l)
         /\ \A i \in 1..Len(l) : Jobs(1, l)[i].id = l[i]
         /\ \A c : InM(Jobs(1, l), c) <=> InL(l, c)
<1>1. PICK N \in Nat : N = Len(l) OBVIOUS
<1>2. DOMAIN l = 1..N /\ \A i \in 1..N : l[i] \in Ids BY <1>1
<1>3. PICK t : t = Jobs(1, l) OBVIOUS
<1>4. t = [i \in 1..N |-> [vm |-> 1, id |-> l[i]]] BY <1>2, <1>3 DEF Jobs, Job
<1>5. t \in [1..N -> Jobs1] BY <1>2, <1>4 DEF Jobs1
<1>6. t \in Seq(Jobs1) /\ Len(t) = N BY <1>5
<1>7. \A i \in 1..N : t[i].id = l[i] BY <1>4
<1> QED BY <1>1, <1>3, <1>6, <1>7 DEF InM, InL

\* Callbacks that have not run, as a queue of jobs
LEMMA JobsMicro ==
  ASSUME NEW kd, NEW rn, NEW l \in Seq(Ids),
         \A i \in 1..Len(l) :
           /\ kd[l[i]] \in Callbacks
           /\ kd[l[i]] # "interval" =>
                /\ rn[l[i]] = 0
                /\ \A j \in 1..Len(l) : l[i] = l[j] => i = j
  PROVE  MicroOK(Jobs(1, l), kd, rn)
<1>1. PICK N \in Nat : N = Len(l) OBVIOUS
<1>2. PICK t : t = Jobs(1, l) OBVIOUS
<1>3. t \in Seq(Jobs1) /\ Len(t) = N /\ \A i \in 1..N : t[i].id = l[i] BY <1>1, <1>2, JobsIs
<1>4. MicroOK(t, kd, rn) BY <1>1, <1>3 DEF MicroOK
<1> QED BY <1>2, <1>4

\* Positions in a concatenation.
LEMMA ConcatIs ==
  ASSUME NEW S, NEW a \in Seq(S), NEW b \in Seq(S)
  PROVE  /\ a \o b \in Seq(S) /\ Len(a \o b) = Len(a) + Len(b)
         /\ \A i \in 1..Len(a) : i \in 1..Len(a \o b) /\ (a \o b)[i] = a[i]
         /\ \A i \in 1..Len(b) : Len(a) + i \in 1..Len(a \o b) /\ (a \o b)[Len(a) + i] = b[i]
         /\ \A i \in 1..Len(a \o b) : i \in 1..Len(a) \/ i - Len(a) \in 1..Len(b)
OBVIOUS

\* What is in a queue made of two
LEMMA InConcat ==
  ASSUME NEW a \in Seq(Jobs1), NEW b \in Seq(Jobs1)
  PROVE  \A c : InM(a \o b, c) <=> InM(a, c) \/ InM(b, c)
<1>1. PICK M \in Nat, N \in Nat : M = Len(a) /\ N = Len(b) OBVIOUS
<1>2. PICK t : t = a \o b OBVIOUS
<1>3. /\ Len(t) = M + N
      /\ \A i \in 1..M : i \in 1..M + N /\ t[i] = a[i]
      /\ \A i \in 1..N : M + i \in 1..M + N /\ t[M + i] = b[i]
      /\ \A i \in 1..M + N : i \in 1..M \/ i - M \in 1..N
  BY <1>1, <1>2, ConcatIs
<1> SUFFICES ASSUME NEW c PROVE InM(t, c) <=> InM(a, c) \/ InM(b, c) BY <1>2
<1>4. ASSUME NEW i \in 1..M + N, t[i].id = c PROVE InM(a, c) \/ InM(b, c)
  <2>1. CASE i \in 1..M BY <1>1, <1>3, <1>4, <2>1 DEF InM
  <2>2. CASE i - M \in 1..N
    <3>1. PICK j \in 1..N : j = i - M BY <2>2
    <3>2. i = M + j BY <3>1
    <3> QED BY ZenonT(60), <1>1, <1>3, <1>4, <3>1, <3>2 DEF InM
  <2> QED BY <1>3, <2>1, <2>2
<1>5. InM(a, c) => InM(t, c) BY <1>1, <1>3 DEF InM
<1>6. InM(b, c) => InM(t, c) BY <1>1, <1>3 DEF InM
<1> QED BY <1>3, <1>4, <1>5, <1>6 DEF InM

\* Two queues of jobs without a callback in common.
LEMMA ConcatMicro ==
  ASSUME NEW kd, NEW rn, NEW a, NEW b, MicroOK(a, kd, rn), MicroOK(b, kd, rn),
         \A c \in Ids : InM(a, c) /\ InM(b, c) => kd[c] = "interval"
  PROVE  MicroOK(a \o b, kd, rn)
<1>1. a \in Seq(Jobs1) /\ b \in Seq(Jobs1) BY DEF MicroOK
<1>2. PICK M \in Nat, N \in Nat : M = Len(a) /\ N = Len(b) BY <1>1
<1>3. PICK t : t = a \o b OBVIOUS
<1>4. /\ t \in Seq(Jobs1) /\ Len(t) = M + N
      /\ \A i \in 1..M : i \in 1..M + N /\ t[i] = a[i]
      /\ \A i \in 1..N : M + i \in 1..M + N /\ t[M + i] = b[i]
      /\ \A i \in 1..M + N : i \in 1..M \/ i - M \in 1..N
  BY <1>1, <1>2, <1>3, ConcatIs
<1>5. ASSUME NEW i \in 1..M + N
      PROVE  \/ i \in 1..M /\ t[i] = a[i]
             \/ \E j \in 1..N : i = M + j /\ t[i] = b[j]
  <2>1. CASE i \in 1..M BY <1>4, <2>1
  <2>2. CASE i - M \in 1..N
    <3>1. PICK j \in 1..N : j = i - M BY <2>2
    <3>2. i = M + j BY <3>1
    <3> QED BY <1>4, <3>1, <3>2
  <2> QED BY <1>4, <2>1, <2>2
<1>6. \A i \in 1..M : a[i].id \in Ids BY <1>1, <1>2, JobIds
<1>7. \A i \in 1..N : b[i].id \in Ids BY <1>1, <1>2, JobIds
<1>8. \A i \in 1..M, j \in 1..N : a[i].id = b[j].id => kd[a[i].id] = "interval"
  BY <1>2, <1>6 DEF InM
<1>9. ASSUME NEW i \in 1..M + N
      PROVE  /\ kd[t[i].id] \in Callbacks
             /\ kd[t[i].id] # "interval" => rn[t[i].id] = 0
  <2>1. CASE i \in 1..M /\ t[i] = a[i] BY <1>2, <2>1 DEF MicroOK
  <2>2. CASE \E j \in 1..N : i = M + j /\ t[i] = b[j]
    <3>1. PICK j \in 1..N : i = M + j /\ t[i] = b[j] BY <2>2
    <3> QED BY <1>2, <3>1 DEF MicroOK
  <2> QED BY <1>5, <2>1, <2>2
<1>10. ASSUME NEW i \in 1..M + N, NEW j \in 1..M + N, kd[t[i].id] # "interval", t[i].id = t[j].id
       PROVE  i = j
  <2>1. CASE i \in 1..M /\ t[i] = a[i]
    <3>1. CASE j \in 1..M /\ t[j] = a[j] BY <1>2, <1>10, <2>1, <3>1 DEF MicroOK
    <3>2. CASE \E u \in 1..N : j = M + u /\ t[j] = b[u] BY <1>8, <1>10, <2>1, <3>2
    <3> QED BY <1>5, <3>1, <3>2
  <2>2. CASE \E v \in 1..N : i = M + v /\ t[i] = b[v]
    <3>1. CASE j \in 1..M /\ t[j] = a[j] BY <1>8, <1>10, <2>2, <3>1
    <3>2. CASE \E u \in 1..N : j = M + u /\ t[j] = b[u]
      BY <1>2, <1>10, <2>2, <3>2 DEF MicroOK
    <3> QED BY <1>5, <3>1, <3>2
  <2> QED BY <1>5, <2>1, <2>2
<1>11. MicroOK(t, kd, rn) BY <1>4, <1>9, <1>10 DEF MicroOK
<1> QED BY <1>3, <1>11

\* A step that gives out numbers, and queues or starts callbacks of the kinds K only.
Spares(K, m, kd, rn, m2, kd2, rn2) ==
  /\ \A c \in Ids : kd[c] # "none" => kd2[c] = kd[c]
  /\ \A c \in Ids : kd[c] \notin K /\ Waits(m, rn, c) => Waits(m2, rn2, c)

\* What waits as a tick or an immediate goes on waiting.
LEMMA ListStays ==
  ASSUME NEW m, NEW kd, NEW rn, NEW m2, NEW kd2, NEW rn2, NEW K,
         Spares(K, m, kd, rn, m2, kd2, rn2),
         NEW l, NEW k, k # "none", k \notin K, ListOK(l, k, m, kd, rn)
  PROVE  ListOK(l, k, m2, kd2, rn2)
<1>1. \A i \in 1..Len(l) : l[i] \in Ids
  <2>1. l \in Seq(Ids) BY DEF ListOK
  <2> QED BY <2>1
<1> QED BY <1>1 DEF ListOK, Spares

\* So does what waits for a promise,
LEMMA ReactionsStay ==
  ASSUME NEW m, NEW kd, NEW rn, NEW m2, NEW kd2, NEW rn2, NEW K,
         Spares(K, m, kd, rn, m2, kd2, rn2),
         NEW re, NEW p, NEW p2, "reaction" \notin K, ReactionsOK(re, p, m, kd, rn),
         \A o \in Ids : p[o] = "pending" => p2[o] = "pending"
  PROVE  ReactionsOK(re, p2, m2, kd2, rn2)
<1>1. \A o \in Ids : \A i \in 1..Len(re[o]) : re[o][i] \in Ids
  <2> SUFFICES ASSUME NEW o \in Ids PROVE \A i \in 1..Len(re[o]) : re[o][i] \in Ids OBVIOUS
  <2>1. re[o] \in Seq(Ids) BY DEF ReactionsOK
  <2> QED BY <2>1
<1>2. ASSUME NEW o \in Ids, NEW i \in 1..Len(re[o])
      PROVE  kd2[re[o][i]] = "reaction" /\ Waits(m2, rn2, re[o][i]) /\ p2[o] = "pending"
  <2>1. PICK c \in Ids : c = re[o][i] BY <1>1
  <2>2. kd[c] = "reaction" /\ Waits(m, rn, c) /\ p[o] = "pending" BY <2>1 DEF ReactionsOK
  <2> QED BY <2>1, <2>2 DEF Spares
<1>3. ASSUME NEW o \in Ids, NEW i \in 1..Len(re[o]), NEW u \in Ids, NEW j \in 1..Len(re[u]),
             re[o][i] = re[u][j]
      PROVE  o = u /\ i = j
  BY <1>3 DEF ReactionsOK
<1> QED BY <1>2, <1>3 DEF ReactionsOK

\* what waits for a timer,
LEMMA ItemsStay ==
  ASSUME NEW m, NEW kd, NEW rn, NEW m2, NEW kd2, NEW rn2, NEW K,
         Spares(K, m, kd, rn, m2, kd2, rn2),
         NEW it, "timeout" \notin K, ItemsOK(it, m, kd, rn)
  PROVE  ItemsOK(it, m2, kd2, rn2)
BY DEF ItemsOK, Spares

\* and what waits for a read.
LEMMA ReadsStay ==
  ASSUME NEW m, NEW kd, NEW rn, NEW m2, NEW kd2, NEW rn2, NEW K,
         Spares(K, m, kd, rn, m2, kd2, rn2),
         NEW rs, NEW rd, "read" \notin K, ReadsOK(rs, rd, m, kd, rn)
  PROVE  ReadsOK(rs, rd, m2, kd2, rn2)
<1>1. rs \subseteq {1} \X Ids /\ rd \in Seq({1} \X Ids) BY DEF ReadsOK
<1>2. ASSUME NEW r \in rs PROVE kd2[r[2]] = "read" /\ Waits(m2, rn2, r[2])
  <2>1. r[2] \in Ids BY <1>1
  <2>2. kd[r[2]] = "read" /\ Waits(m, rn, r[2]) BY DEF ReadsOK
  <2> QED BY <2>1, <2>2 DEF Spares
<1>3. ASSUME NEW i \in 1..Len(rd) PROVE kd2[rd[i][2]] = "read" /\ Waits(m2, rn2, rd[i][2])
  <2>1. rd[i] \in {1} \X Ids BY <1>1
  <2>2. rd[i][2] \in Ids BY <2>1
  <2>3. kd[rd[i][2]] = "read" /\ Waits(m, rn, rd[i][2]) BY DEF ReadsOK
  <2> QED BY <2>2, <2>3 DEF Spares
<1>4. ASSUME NEW i \in 1..Len(rd)
      PROVE  rd[i] \notin rs /\ \A j \in 1..Len(rd) : rd[i] = rd[j] => i = j
  BY DEF ReadsOK
<1> QED BY <1>1, <1>2, <1>3, <1>4 DEF ReadsOK

\* The jobs stay what they are when a number is given out.
LEMMA MicroStays ==
  ASSUME NEW m, NEW kd, NEW rn, NEW kd2,
         \A c \in Ids : kd[c] # "none" => kd2[c] = kd[c], MicroOK(m, kd, rn)
  PROVE  MicroOK(m, kd2, rn)
<1>1. m \in Seq(Jobs1) BY DEF MicroOK
<1>2. \A i \in 1..Len(m) : m[i].id \in Ids BY <1>1, JobIds
<1>3. \A i \in 1..Len(m) : kd2[m[i].id] = kd[m[i].id] BY <1>2 DEF MicroOK, Callbacks
<1> QED BY <1>3 DEF MicroOK

\* No callback is started twice, except that of an interval.
Once(kd, rn) == \A c \in Ids : kd[c] # "interval" => rn[c] <= 1

\* Numbers are given out in order; a callback without one has not run.
Numbered(kd, rn) ==
  /\ \E n \in 0..MaxIds : \A c \in Ids : kd[c] # "none" <=> c <= n
  /\ \A c \in Ids : kd[c] = "none" => rn[c] = 0

\* A promise callback that has not run waits for its promise or is a job.
Kept(kd, rn, p, re, m) ==
  \A c \in Ids : kd[c] = "reaction" /\ rn[c] = 0 =>
    (\E o \in Ids : p[o] = "pending" /\ InL(re[o], c)) \/ InM(m, c)

States == {"none", "pending", "fulfilled", "rejected"}

\* Every callback given out waits in one place at most, and in none once it has run.
Data(kd, rn, m, tk, im, p, re, it, rs, rd) ==
  /\ kd \in [Ids -> Kinds] /\ rn \in [Ids -> 0..2] /\ p \in [Ids -> States]
  /\ Numbered(kd, rn) /\ Once(kd, rn)
  /\ MicroOK(m, kd, rn)
  /\ ListOK(tk, "tick", m, kd, rn) /\ ListOK(im, "immediate", m, kd, rn)
  /\ ReactionsOK(re, p, m, kd, rn)
  /\ ItemsOK(it, m, kd, rn)
  /\ ReadsOK(rs, rd, m, kd, rn)
  /\ Kept(kd, rn, p, re, m)

\* Callbacks of the kinds K that wait
Batch(l, K, m, kd, rn) ==
  \A i \in 1..Len(l) :
    /\ kd[l[i]] \in K
    /\ kd[l[i]] # "interval" =>
         /\ Waits(m, rn, l[i])
         /\ \A j \in 1..Len(l) : l[i] = l[j] => i = j

\* They are queued.
LEMMA Grow ==
  ASSUME NEW m, NEW kd, NEW rn, MicroOK(m, kd, rn), NEW l \in Seq(Ids),
         NEW K, K \subseteq Callbacks,
         Batch(l, K, m, kd, rn),
         NEW m2, m2 = Jobs(1, l) \o m \/ m2 = m \o Jobs(1, l)
  PROVE  /\ MicroOK(m2, kd, rn)
         /\ \A c : InM(m2, c) <=> InM(m, c) \/ InL(l, c)
         /\ Spares(K, m, kd, rn, m2, kd, rn)
<1>1. PICK t \in Seq(Jobs1) : t = Jobs(1, l) BY JobsIs
<1>2. MicroOK(t, kd, rn) BY <1>1, JobsMicro DEF Waits, Batch
<1>3. \A c : InM(t, c) <=> InL(l, c) BY <1>1, JobsIs
<1>4. \A c \in Ids : InM(t, c) /\ InM(m, c) => kd[c] = "interval"
  BY <1>3 DEF InL, Waits, Batch
<1>5. m \in Seq(Jobs1) BY DEF MicroOK
<1>6. MicroOK(t \o m, kd, rn) /\ MicroOK(m \o t, kd, rn)
  <2>1. MicroOK(t \o m, kd, rn)
    <3> HIDE DEF MicroOK
    <3> QED BY ONLY MicroOK(m, kd, rn), <1>2, <1>4, ConcatMicro
  <2>2. \A c \in Ids : InM(m, c) /\ InM(t, c) => kd[c] = "interval" BY <1>4
  <2> QED BY ONLY MicroOK(m, kd, rn), <1>2, <2>1, <2>2, ConcatMicro
<1>7. \A c : /\ InM(t \o m, c) <=> InM(m, c) \/ InL(l, c)
             /\ InM(m \o t, c) <=> InM(m, c) \/ InL(l, c)
  <2>1. \A c : InM(t \o m, c) <=> InM(t, c) \/ InM(m, c)
    BY ONLY <1>1, <1>5, InConcat
  <2>2. \A c : InM(m \o t, c) <=> InM(m, c) \/ InM(t, c)
    BY ONLY <1>1, <1>5, InConcat
  <2> QED BY <1>3, <2>1, <2>2
<1>8. \A c \in Ids : kd[c] \notin K => ~InL(l, c) BY DEF InL, Batch
<1>9. m2 = t \o m \/ m2 = m \o t BY <1>1
<1>10. MicroOK(m2, kd, rn) /\ \A c : InM(m2, c) <=> InM(m, c) \/ InL(l, c)
  BY <1>6, <1>7, <1>9
<1> QED BY <1>8, <1>10 DEF Spares, Waits

\* Nothing is lost by queueing more.
LEMMA KeptMore ==
  ASSUME NEW kd, NEW rn, NEW p, NEW re, NEW m, NEW m2,
         Kept(kd, rn, p, re, m), \A c : InM(m, c) => InM(m2, c)
  PROVE  Kept(kd, rn, p, re, m2)
BY DEF Kept

\* Nothing waits in an empty queue.
LEMMA EmptyList ==
  ASSUME NEW k, NEW m, NEW kd, NEW rn PROVE ListOK(<<>>, k, m, kd, rn)
BY DEF ListOK

\* jsProcessNextTickQueue: the ticks become jobs, in front of all others.
LEMMA TicksMove ==
  ASSUME NEW kd, NEW rn, NEW m, NEW tk, NEW im, NEW p, NEW re, NEW it, NEW rs, NEW rd,
         Data(kd, rn, m, tk, im, p, re, it, rs, rd)
  PROVE  Data(kd, rn, Jobs(1, tk) \o m, <<>>, im, p, re, it, rs, rd)
<1>1. PICK n : n = Jobs(1, tk) \o m OBVIOUS
<1>2. tk \in Seq(Ids) /\ MicroOK(m, kd, rn) BY DEF Data, ListOK
<1>3. /\ MicroOK(n, kd, rn) /\ \A c : InM(m, c) => InM(n, c)
      /\ Spares({"tick"}, m, kd, rn, n, kd, rn)
  <2>1. {"tick"} \subseteq Callbacks BY DEF Callbacks
  <2>2. Batch(tk, {"tick"}, m, kd, rn) BY DEF Data, ListOK, Batch
  <2>3. PICK K : K = {"tick"} OBVIOUS
  <2>4. K \subseteq Callbacks /\ Batch(tk, K, m, kd, rn) BY <2>1, <2>2, <2>3
  <2>5. n = Jobs(1, tk) \o m \/ n = m \o Jobs(1, tk) BY <1>1
  <2>6. /\ MicroOK(n, kd, rn) /\ Spares(K, m, kd, rn, n, kd, rn)
        /\ \A c : InM(n, c) <=> InM(m, c) \/ InL(tk, c)
    BY ONLY <1>2, <2>4, <2>5, Grow
  <2> QED BY <2>3, <2>6
<1>4. ListOK(im, "immediate", n, kd, rn) BY <1>3, ListStays DEF Data
<1>5. ReactionsOK(re, p, n, kd, rn) BY <1>3, ReactionsStay DEF Data
<1>6. ItemsOK(it, n, kd, rn) BY <1>3, ItemsStay DEF Data
<1>7. ReadsOK(rs, rd, n, kd, rn) BY <1>3, ReadsStay DEF Data
<1>8. Kept(kd, rn, p, re, n) BY <1>3, KeptMore DEF Data
<1> QED BY <1>1, <1>3, <1>4, <1>5, <1>6, <1>7, <1>8, EmptyList DEF Data

\* jsProcessImmediateQueue: the immediates become jobs.
LEMMA ImmediatesMove ==
  ASSUME NEW kd, NEW rn, NEW m, NEW tk, NEW im, NEW p, NEW re, NEW it, NEW rs, NEW rd,
         Data(kd, rn, m, tk, im, p, re, it, rs, rd)
  PROVE  Data(kd, rn, m \o Jobs(1, im), tk, <<>>, p, re, it, rs, rd)
<1>1. PICK n : n = m \o Jobs(1, im) OBVIOUS
<1>2. im \in Seq(Ids) /\ MicroOK(m, kd, rn) BY DEF Data, ListOK
<1>3. /\ MicroOK(n, kd, rn) /\ \A c : InM(m, c) => InM(n, c)
      /\ Spares({"immediate"}, m, kd, rn, n, kd, rn)
  <2>1. {"immediate"} \subseteq Callbacks BY DEF Callbacks
  <2>2. Batch(im, {"immediate"}, m, kd, rn) BY DEF Data, ListOK, Batch
  <2>3. PICK K : K = {"immediate"} OBVIOUS
  <2>4. K \subseteq Callbacks /\ Batch(im, K, m, kd, rn) BY <2>1, <2>2, <2>3
  <2>5. n = Jobs(1, im) \o m \/ n = m \o Jobs(1, im) BY <1>1
  <2>6. /\ MicroOK(n, kd, rn) /\ Spares(K, m, kd, rn, n, kd, rn)
        /\ \A c : InM(n, c) <=> InM(m, c) \/ InL(im, c)
    BY ONLY <1>2, <2>4, <2>5, Grow
  <2> QED BY <2>3, <2>6
<1>4. ListOK(tk, "tick", n, kd, rn) BY <1>3, ListStays DEF Data
<1>5. ReactionsOK(re, p, n, kd, rn) BY <1>3, ReactionsStay DEF Data
<1>6. ItemsOK(it, n, kd, rn) BY <1>3, ItemsStay DEF Data
<1>7. ReadsOK(rs, rd, n, kd, rn) BY <1>3, ReadsStay DEF Data
<1>8. Kept(kd, rn, p, re, n) BY <1>3, KeptMore DEF Data
<1> QED BY <1>1, <1>3, <1>4, <1>5, <1>6, <1>7, <1>8, EmptyList DEF Data

\* jsPumpAsyncFSReadResults: the reads that have ended become jobs.
LEMMA ReadsMove ==
  ASSUME NEW kd, NEW rn, NEW m, NEW tk, NEW im, NEW p, NEW re, NEW it, NEW rs, NEW rd,
         Data(kd, rn, m, tk, im, p, re, it, rs, rd), NEW l \in Seq(Ids),
         Len(l) = Len(rd), \A i \in 1..Len(l) : l[i] = rd[i][2]
  PROVE  Data(kd, rn, m \o Jobs(1, l), tk, im, p, re, it, rs, <<>>)
<1>1. PICK n : n = m \o Jobs(1, l) OBVIOUS
<1>2. MicroOK(m, kd, rn) BY DEF Data
<1>3. PICK N \in Nat : N = Len(l) OBVIOUS
<1>4. \A i \in 1..N : rd[i] \in {1} \X Ids BY <1>3 DEF Data, ReadsOK
<1>5. \A i \in 1..N : /\ kd[l[i]] = "read" /\ Waits(m, rn, l[i])
                      /\ \A j \in 1..N : l[i] = l[j] => i = j
  <2>1. \A i \in 1..N : rd[i] = <<1, l[i]>> BY <1>3, <1>4
  <2>2. ASSUME NEW i \in 1..N
        PROVE  /\ kd[rd[i][2]] = "read" /\ Waits(m, rn, rd[i][2])
               /\ \A j \in 1..N : rd[i] = rd[j] => i = j
    BY <1>3 DEF Data, ReadsOK
  <2>3. \A i \in 1..N : rd[i][2] = l[i] BY <1>3
  <2>4. ASSUME NEW i \in 1..N, NEW j \in 1..N, l[i] = l[j] PROVE i = j
    <3>1. rd[i] = rd[j] BY <2>1, <2>4
    <3> QED BY <2>2, <3>1
  <2>5. ASSUME NEW i \in 1..N PROVE kd[l[i]] = "read" /\ Waits(m, rn, l[i])
    BY <2>2, <2>3
  <2> QED BY <2>4, <2>5
<1>6. /\ MicroOK(n, kd, rn) /\ \A c : InM(m, c) => InM(n, c)
      /\ \A c : InM(n, c) <=> InM(m, c) \/ InL(l, c)
      /\ Spares({"read"}, m, kd, rn, n, kd, rn)
  <2>1. {"read"} \subseteq Callbacks BY DEF Callbacks
  <2>2. Batch(l, {"read"}, m, kd, rn) BY <1>3, <1>5 DEF Batch
  <2>3. PICK K : K = {"read"} OBVIOUS
  <2>4. K \subseteq Callbacks /\ Batch(l, K, m, kd, rn) BY <2>1, <2>2, <2>3
  <2>5. n = Jobs(1, l) \o m \/ n = m \o Jobs(1, l) BY <1>1
  <2>6. /\ MicroOK(n, kd, rn) /\ Spares(K, m, kd, rn, n, kd, rn)
        /\ \A c : InM(n, c) <=> InM(m, c) \/ InL(l, c)
    BY ONLY <1>2, l \in Seq(Ids), <2>4, <2>5, Grow
  <2> QED BY <2>3, <2>6
<1>7. ListOK(tk, "tick", n, kd, rn) /\ ListOK(im, "immediate", n, kd, rn)
  BY <1>6, ListStays DEF Data
<1>8. ReactionsOK(re, p, n, kd, rn) BY <1>6, ReactionsStay DEF Data
<1>9. ItemsOK(it, n, kd, rn) BY <1>6, ItemsStay DEF Data
<1>10. ReadsOK(rs, <<>>, n, kd, rn)
  <2>1. rs \subseteq {1} \X Ids BY DEF Data, ReadsOK
  <2>2. ASSUME NEW r \in rs PROVE kd[r[2]] = "read" /\ Waits(n, rn, r[2])
    <3>1. kd[r[2]] = "read" /\ Waits(m, rn, r[2]) BY DEF Data, ReadsOK
    <3>2. ASSUME NEW i \in 1..N, l[i] = r[2] PROVE FALSE
      <4>1. r = <<1, r[2]>> /\ rd[i] = <<1, rd[i][2]>> BY <1>4, <2>1
      <4>2. rd[i] = r BY <1>3, <3>2, <4>1
      <4> QED BY <1>3, <4>2 DEF Data, ReadsOK
    <3>3. ~InL(l, r[2]) BY <1>3, <3>2 DEF InL
    <3> QED BY <1>6, <3>1, <3>3 DEF Waits
  <2> QED BY <2>1, <2>2 DEF ReadsOK
<1>11. Kept(kd, rn, p, re, n) BY <1>6, KeptMore DEF Data
<1> QED BY <1>1, <1>6, <1>7, <1>8, <1>9, <1>10, <1>11 DEF Data

\* The loop over the results of the timers.
LEMMA HandledTable ==
  ASSUME fired \in Seq(Ids)
  PROVE  \E h : /\ Handled = h[Len(fired)] /\ h[0] = <<>>
                /\ \A i \in 1..Len(fired) :
                     h[i] = IF \/ items[fired[i]] = "none"
                               \/ kind[fired[i]] = "timeout" /\ fired[i] \in ToSet(h[i - 1])
                            THEN h[i - 1] ELSE Append(h[i - 1], fired[i])
<1> DEFINE Skip(i, a) == \/ items[fired[i]] = "none"
                         \/ kind[fired[i]] = "timeout" /\ fired[i] \in ToSet(a)
           Eq(h) == h = [i \in 0..Len(fired) |->
                           IF i = 0 THEN <<>>
                           ELSE IF Skip(i, h[i - 1]) THEN h[i - 1] ELSE Append(h[i - 1], fired[i])]
           h1 == CHOOSE h : Eq(h)
           G == [p \in Nat \X Seq(Ids) |->
                   IF p[1] \in 1..Len(fired)
                   THEN IF Skip(p[1], p[2]) THEN p[2] ELSE Append(p[2], fired[p[1]])
                   ELSE p[2]]
<1>1. Len(fired) \in Nat /\ \A i \in 1..Len(fired) : fired[i] \in Ids OBVIOUS
<1>2. G \in [Nat \X Seq(Ids) -> Seq(Ids)]
  <2> HIDE DEF Skip
  <2> QED BY <1>1
<1>3. <<>> \in Seq(Ids) OBVIOUS
<1>4. PICK g : LoopTable(g, Len(fired), Seq(Ids), <<>>, G)
  <2> HIDE DEF G
  <2> QED BY <1>1, <1>2, <1>3, LoopsRun
<1>5. g \in [0..Len(fired) -> Seq(Ids)] /\ g[0] = <<>> BY <1>4 DEF LoopTable
<1>6. ASSUME NEW i \in 1..Len(fired)
      PROVE  g[i] = IF Skip(i, g[i - 1]) THEN g[i - 1] ELSE Append(g[i - 1], fired[i])
  <2>1. i \in Nat /\ i - 1 \in 0..Len(fired) BY <1>1
  <2>2. g[i - 1] \in Seq(Ids) BY <1>5, <2>1
  <2>3. g[i] = G[<<i, g[i - 1]>>] BY <1>4 DEF LoopTable
  <2> HIDE DEF Skip
  <2> QED BY <2>1, <2>2, <2>3
<1>7. Eq(g)
  <2>1. ASSUME NEW i \in 0..Len(fired)
        PROVE  g[i] = IF i = 0 THEN <<>>
                      ELSE IF Skip(i, g[i - 1]) THEN g[i - 1] ELSE Append(g[i - 1], fired[i])
    <3> HIDE DEF Skip
    <3>1. CASE i = 0 BY <1>5, <3>1
    <3>2. CASE i \in 1..Len(fired) BY SMTT(30), <1>6, <3>2
    <3> QED BY <1>1, <3>1, <3>2
  <2> HIDE DEF Skip
  <2> QED BY <1>5, <2>1
<1>8. Eq(h1) BY <1>7
<1>9. Handled = h1[Len(fired)] BY DEF Handled
<1> HIDE DEF h1, Skip
<1>10. h1[0] = <<>> BY <1>1, <1>8
<1>11. ASSUME NEW i \in 1..Len(fired)
       PROVE  h1[i] = IF Skip(i, h1[i - 1]) THEN h1[i - 1] ELSE Append(h1[i - 1], fired[i])
  <2>1. i \in 0..Len(fired) /\ i # 0 BY <1>1
  <2> QED BY <1>8, <2>1
<1> QED BY <1>9, <1>10, <1>11 DEF Skip

\* jsHandleTimerFired takes results of live timers only, a timeout's once.
LEMMA HandledIs ==
  ASSUME fired \in Seq(Ids)
  PROVE  /\ Handled \in Seq(Ids)
         /\ \A i \in 1..Len(Handled) :
              /\ items[Handled[i]] # "none"
              /\ InL(fired, Handled[i])
              /\ kind[Handled[i]] = "timeout" =>
                   \A j \in 1..Len(Handled) : Handled[i] = Handled[j] => i = j
<1>1. PICK N \in Nat : N = Len(fired) OBVIOUS
<1>2. \A i \in 1..N : fired[i] \in Ids BY <1>1
<1>3. PICK h : /\ Handled = h[N] /\ h[0] = <<>>
               /\ \A i \in 1..N :
                     h[i] = IF \/ items[fired[i]] = "none"
                               \/ kind[fired[i]] = "timeout" /\ fired[i] \in ToSet(h[i - 1])
                            THEN h[i - 1] ELSE Append(h[i - 1], fired[i])
  BY ONLY <1>1, fired \in Seq(Ids), HandledTable
<1> DEFINE Good(a) == /\ a \in Seq(Ids)
                      /\ \A i \in 1..Len(a) :
                           /\ items[a[i]] # "none" /\ InL(fired, a[i])
                           /\ kind[a[i]] = "timeout" =>
                                \A j \in 1..Len(a) : a[i] = a[j] => i = j
           A == {i \in Nat : i <= N => Good(h[i])}
<1>4. 0 \in A
  <2>1. Len(h[0]) = 0 /\ h[0] \in Seq(Ids) BY <1>3
  <2>2. 1..0 = {} OBVIOUS
  <2> QED BY <2>1, <2>2
<1>5. ASSUME NEW i \in A PROVE i + 1 \in A
  <2> HIDE DEF Good
  <2> SUFFICES ASSUME i + 1 <= N PROVE Good(h[i + 1]) OBVIOUS
  <2> USE DEF Good
  <2>1. PICK n \in 1..N : n = i + 1 OBVIOUS
  <2>2. n - 1 = i /\ Good(h[i]) BY <2>1
  <2>3. PICK a : a = h[i] OBVIOUS
  <2>4. Good(a) BY <2>2, <2>3
  <2>5. PICK x \in Ids : x = fired[n] BY <1>2
  <2>6. h[n] = IF items[x] = "none" \/ (kind[x] = "timeout" /\ x \in ToSet(a))
               THEN a ELSE Append(a, x)
    <3> HIDE DEF Good, A
    <3>1. h[n - 1] = a BY <2>2, <2>3
    <3> QED BY <1>3, <2>5, <3>1
  <2>7. CASE h[n] = a BY <2>1, <2>4, <2>7
  <2>8. CASE ~(items[x] = "none" \/ (kind[x] = "timeout" /\ x \in ToSet(a)))
    <3>1. PICK M \in Nat : M = Len(a) BY <2>4
    <3>2. PICK b : b = Append(a, x) OBVIOUS
    <3>3. b \in Seq(Ids) /\ Len(b) = M + 1 /\ b[M + 1] = x /\ \A j \in 1..M : b[j] = a[j]
      BY <2>4, <3>1, <3>2
    <3>4. \A j \in 1..M + 1 : j = M + 1 \/ j \in 1..M OBVIOUS
    <3>5. InL(fired, x) BY <1>1, <2>5 DEF InL
    <3>6. kind[x] = "timeout" => \A j \in 1..M : a[j] # x
      BY <2>4, <2>8, <3>1 DEF ToSet
    <3>7. ASSUME NEW j \in 1..M + 1
          PROVE  items[b[j]] # "none" /\ InL(fired, b[j])
      <4>1. CASE j = M + 1 BY <2>8, <3>3, <3>5, <4>1
      <4>2. CASE j \in 1..M
        <5>1. items[a[j]] # "none" /\ InL(fired, a[j]) BY <2>4, <3>1, <4>2
        <5> QED BY <3>3, <4>2, <5>1
      <4> QED BY <3>4, <4>1, <4>2
    <3>8. ASSUME NEW j \in 1..M + 1, kind[b[j]] = "timeout", NEW u \in 1..M + 1, b[j] = b[u]
          PROVE  j = u
      BY SMTT(30), <2>4, <3>1, <3>3, <3>4, <3>6, <3>8
    <3>9. Good(b) BY <3>3, <3>7, <3>8
    <3> QED BY ZenonT(60), <2>1, <2>6, <2>8, <3>2, <3>9
  <2> QED BY <2>6, <2>7, <2>8
<1>6. A = Nat
  <2>1. A \in SUBSET Nat OBVIOUS
  <2> HIDE DEF A
  <2> QED BY <1>4, <1>5, <2>1, SetInduction
<1>7. N \in A
  <2> HIDE DEF A
  <2> QED BY <1>6
<1> QED BY <1>3, <1>7

\* jsPumpTimerResults: what the timers ask for becomes jobs.
LEMMA TimersMove ==
  ASSUME NEW kd, NEW rn, NEW m, NEW tk, NEW im, NEW p, NEW re, NEW it, NEW rs, NEW rd,
         Data(kd, rn, m, tk, im, p, re, it, rs, rd), NEW l \in Seq(Ids), NEW it2,
         \A i \in 1..Len(l) :
           /\ it[l[i]] # "none"
           /\ kd[l[i]] = "timeout" =>
                it2[l[i]] = "none" /\ \A j \in 1..Len(l) : l[i] = l[j] => i = j,
         it2 \in [Ids -> {"none", "ref", "unref"}],
         \A c \in Ids : it2[c] # "none" => it[c] # "none"
  PROVE  Data(kd, rn, m \o Jobs(1, l), tk, im, p, re, it2, rs, rd)
<1>1. PICK n : n = m \o Jobs(1, l) OBVIOUS
<1>2. MicroOK(m, kd, rn) BY DEF Data
<1>3. PICK K : K = {"timeout", "interval"} OBVIOUS
<1>4. /\ MicroOK(n, kd, rn) /\ Spares(K, m, kd, rn, n, kd, rn)
      /\ \A c : InM(n, c) <=> InM(m, c) \/ InL(l, c)
  <2>1. K \subseteq Callbacks BY <1>3 DEF Callbacks
  <2>2. \A i \in 1..Len(l) : l[i] \in Ids OBVIOUS
  <2>3. Batch(l, K, m, kd, rn) BY <1>3, <2>2 DEF Data, ItemsOK, Batch
  <2>4. n = Jobs(1, l) \o m \/ n = m \o Jobs(1, l) BY <1>1
  <2> QED BY ONLY <1>2, l \in Seq(Ids), <2>1, <2>3, <2>4, Grow
<1>5. \A c : InM(m, c) => InM(n, c) BY <1>4
<1>6. ListOK(tk, "tick", n, kd, rn) /\ ListOK(im, "immediate", n, kd, rn)
  BY <1>3, <1>4, ListStays DEF Data
<1>7. ReactionsOK(re, p, n, kd, rn) BY <1>3, <1>4, ReactionsStay DEF Data
<1>8. ReadsOK(rs, rd, n, kd, rn) BY <1>3, <1>4, ReadsStay DEF Data
<1>9. ItemsOK(it2, n, kd, rn)
  <2> SUFFICES ASSUME NEW c \in Ids, it2[c] # "none"
               PROVE  kd[c] = "interval" \/ (kd[c] = "timeout" /\ Waits(n, rn, c))
    BY DEF ItemsOK
  <2>1. it[c] # "none" OBVIOUS
  <2>2. ItemsOK(it, m, kd, rn) BY DEF Data
  <2>3. kd[c] = "interval" \/ (kd[c] = "timeout" /\ Waits(m, rn, c)) BY <2>1, <2>2 DEF ItemsOK
  <2>4. kd[c] = "timeout" => ~InL(l, c) BY DEF InL
  <2>5. kd[c] = "timeout" => ~InM(n, c) BY <1>4, <2>3, <2>4 DEF Waits
  <2> QED BY <2>3, <2>5 DEF Waits
<1>10. Kept(kd, rn, p, re, n) BY <1>5, KeptMore DEF Data
<1> QED BY <1>1, <1>4, <1>6, <1>7, <1>8, <1>9, <1>10 DEF Data

\* jsTriggerPromiseReactions: the reactions of a promise become jobs.
LEMMA ReactionsMove ==
  ASSUME NEW kd, NEW rn, NEW m, NEW tk, NEW im, NEW p, NEW re, NEW it, NEW rs, NEW rd,
         Data(kd, rn, m, tk, im, p, re, it, rs, rd), NEW o \in Ids,
         NEW outcome \in {"fulfilled", "rejected"}
  PROVE  Data(kd, rn, m \o Jobs(1, re[o]), tk, im, [p EXCEPT ![o] = outcome],
              [re EXCEPT ![o] = <<>>], it, rs, rd)
<1>1. re \in [Ids -> Seq(Ids)] /\ p \in [Ids -> States] BY DEF Data, ReactionsOK
<1>2. PICK l \in Seq(Ids) : l = re[o] BY <1>1
<1>3. PICK n : n = m \o Jobs(1, l) OBVIOUS
<1>4. PICK p2 \in [Ids -> States] : p2 = [p EXCEPT ![o] = outcome] BY <1>1 DEF States
<1>5. PICK re2 \in [Ids -> Seq(Ids)] : re2 = [re EXCEPT ![o] = <<>>]
  <2>1. <<>> \in Seq(Ids) OBVIOUS
  <2> QED BY <1>1, <2>1
<1>6. re2[o] = <<>> /\ \A u \in Ids : u # o => re2[u] = re[u] /\ p2[u] = p[u]
  BY <1>1, <1>4, <1>5
<1>7. MicroOK(m, kd, rn) BY DEF Data
<1>8. PICK K : K = {"reaction"} OBVIOUS
<1>9. /\ MicroOK(n, kd, rn) /\ Spares(K, m, kd, rn, n, kd, rn)
      /\ \A c : InM(n, c) <=> InM(m, c) \/ InL(l, c)
  <2>1. K \subseteq Callbacks BY <1>8 DEF Callbacks
  <2>2. Batch(l, K, m, kd, rn) BY <1>2, <1>8 DEF Data, ReactionsOK, Batch
  <2>3. n = Jobs(1, l) \o m \/ n = m \o Jobs(1, l) BY <1>3
  <2> QED BY ONLY <1>7, l \in Seq(Ids), <2>1, <2>2, <2>3, Grow
<1>10. ListOK(tk, "tick", n, kd, rn) /\ ListOK(im, "immediate", n, kd, rn)
  <2>1. ListOK(tk, "tick", m, kd, rn) /\ ListOK(im, "immediate", m, kd, rn) BY DEF Data
  <2>2. "tick" \notin K /\ "immediate" \notin K BY <1>8
  <2>3. ListOK(tk, "tick", n, kd, rn) BY ONLY <1>9, <2>1, <2>2, ListStays
  <2>4. ListOK(im, "immediate", n, kd, rn) BY ONLY <1>9, <2>1, <2>2, ListStays
  <2> QED BY <2>3, <2>4
<1>11. ItemsOK(it, n, kd, rn) BY <1>8, <1>9, ItemsStay DEF Data
<1>12. ReadsOK(rs, rd, n, kd, rn) BY <1>8, <1>9, ReadsStay DEF Data
<1>13. ReactionsOK(re2, p2, n, kd, rn)
  <2>0. ReactionsOK(re, p, m, kd, rn) BY DEF Data
  <2>1. ASSUME NEW u \in Ids, NEW i \in 1..Len(re2[u])
        PROVE  /\ kd[re2[u][i]] = "reaction" /\ Waits(n, rn, re2[u][i]) /\ p2[u] = "pending"
               /\ \A w \in Ids : \A j \in 1..Len(re2[w]) :
                    re2[u][i] = re2[w][j] => u = w /\ i = j
    <3>1. u # o BY <1>6, <2>1
    <3>2. re2[u] = re[u] /\ p2[u] = p[u] BY <1>6, <3>1
    <3>3. i \in 1..Len(re[u]) BY <2>1, <3>2
    <3>4. PICK c : c = re[u][i] OBVIOUS
    <3>5. kd[c] = "reaction" /\ Waits(m, rn, c) /\ p[u] = "pending"
      BY <2>0, <3>3, <3>4 DEF ReactionsOK
    <3>6. ASSUME NEW w \in Ids, NEW j \in 1..Len(re[w]), c = re[w][j] PROVE u = w /\ i = j
      <4>1. re[u][i] = re[w][j] BY <3>4, <3>6
      <4> QED BY ONLY <2>0, <3>3, <3>6, <4>1 DEF ReactionsOK
    <3>7. ~InL(l, c) BY <1>2, <3>1, <3>6 DEF InL
    <3>8. Waits(n, rn, c) BY <1>9, <3>5, <3>7 DEF Waits
    <3>9. ASSUME NEW w \in Ids, NEW j \in 1..Len(re2[w]), c = re2[w][j] PROVE u = w /\ i = j
      <4>1. w # o BY <1>6, <3>9
      <4>2. re2[w] = re[w] BY <1>6, <4>1
      <4> QED BY <3>6, <3>9, <4>2
    <3> QED BY <3>2, <3>4, <3>5, <3>8, <3>9
  <2> QED BY <1>5, <2>1 DEF ReactionsOK
<1>14. Kept(kd, rn, p2, re2, n)
  <2> SUFFICES ASSUME NEW c \in Ids, kd[c] = "reaction", rn[c] = 0
               PROVE  (\E u \in Ids : p2[u] = "pending" /\ InL(re2[u], c)) \/ InM(n, c)
    BY DEF Kept
  <2>1. CASE InM(m, c) BY <1>9, <2>1
  <2>2. ASSUME NEW u \in Ids, p[u] = "pending", InL(re[u], c)
        PROVE  (\E w \in Ids : p2[w] = "pending" /\ InL(re2[w], c)) \/ InM(n, c)
    <3>1. CASE u = o BY <1>2, <1>9, <2>2, <3>1
    <3>2. CASE u # o BY <1>6, <2>2, <3>2
    <3> QED BY <3>1, <3>2
  <2> QED BY <2>1, <2>2 DEF Data, Kept
<1>15. Data(kd, rn, n, tk, im, p2, re2, it, rs, rd)
  BY <1>9, <1>10, <1>11, <1>12, <1>13, <1>14 DEF Data
<1> QED BY <1>2, <1>3, <1>4, <1>5, <1>15

\* jsProcessMicrotasks takes the first job.
LEMMA JobStarts ==
  ASSUME NEW kd, NEW rn, NEW m, NEW tk, NEW im, NEW p, NEW re, NEW it, NEW rs, NEW rd,
         Data(kd, rn, m, tk, im, p, re, it, rs, rd), m # <<>>,
         NEW c, c = m[1].id,
         NEW rn2, rn2 = [rn EXCEPT ![c] = IF @ = 2 THEN 2 ELSE @ + 1]
  PROVE  /\ c \in Ids /\ kd[c] \in Callbacks
         /\ Data(kd, rn2, Tail(m), tk, im, p, re, it, rs, rd)
<1>1. MicroOK(m, kd, rn) /\ m \in Seq(Jobs1) BY SMTT(30) DEF Data, MicroOK
<1>2. PICK N \in Nat : N + 1 = Len(m)
  <2>1. Len(m) \in Nat \ {0} BY <1>1
  <2>2. Len(m) - 1 \in Nat /\ (Len(m) - 1) + 1 = Len(m) BY <2>1
  <2> QED BY <2>2
<1>3. PICK n : n = Tail(m) OBVIOUS
<1>4. n \in Seq(Jobs1) /\ Len(n) = N /\ \A i \in 1..N : n[i] = m[i + 1] /\ i + 1 \in 1..N + 1
  BY <1>1, <1>2, <1>3
<1>5. 1 \in 1..N + 1 /\ \A i \in 1..N + 1 : i = 1 \/ (i - 1 \in 1..N /\ (i - 1) + 1 = i)
  OBVIOUS
<1>6. c \in Ids BY <1>1, <1>2, <1>5, JobIds
<1>7. /\ kd[c] \in Callbacks
      /\ kd[c] # "interval" => rn[c] = 0 /\ \A i \in 1..N : n[i].id # c
  <2>1. /\ kd[c] \in Callbacks
        /\ kd[c] # "interval" =>
             rn[c] = 0 /\ \A j \in 1..N + 1 : c = m[j].id => 1 = j
    BY <1>1, <1>2, <1>5 DEF MicroOK
  <2>2. \A i \in 1..N : i + 1 # 1 OBVIOUS
  <2> QED BY <1>4, <2>1, <2>2
<1>8. rn \in [Ids -> 0..2] BY DEF Data
<1>9. rn2 \in [Ids -> 0..2]
  <2>1. PICK z \in 0..2 : z = rn[c] BY <1>6, <1>8
  <2>2. (IF z = 2 THEN 2 ELSE z + 1) \in 0..2 BY <2>1
  <2> QED BY <1>6, <1>8, <2>1, <2>2
<1>10. \A x \in Ids : x # c => rn2[x] = rn[x] BY <1>8
<1>11. rn2[c] # 0 /\ (rn[c] = 0 => rn2[c] = 1)
  <2>1. PICK z \in 0..2 : z = rn[c] BY <1>6, <1>8
  <2>2. rn2[c] = IF z = 2 THEN 2 ELSE z + 1 BY <1>6, <1>8, <2>1
  <2> QED BY <2>1, <2>2
<1>12. Numbered(kd, rn2) BY <1>7, <1>10 DEF Data, Numbered, Callbacks
<1>13. Once(kd, rn2)
  <2>1. Once(kd, rn) BY DEF Data
  <2>2. ASSUME NEW x \in Ids, kd[x] # "interval" PROVE rn2[x] <= 1
    <3>1. CASE x = c BY <1>7, <1>11, <2>2, <3>1
    <3>2. CASE x # c BY <1>10, <2>1, <2>2, <3>2 DEF Once
    <3> QED BY <3>1, <3>2
  <2> QED BY <2>2 DEF Once
<1>14. MicroOK(n, kd, rn2)
  <2>1. ASSUME NEW i \in 1..N PROVE kd[n[i].id] \in Callbacks
    BY <1>1, <1>2, <1>4 DEF MicroOK
  <2>2. ASSUME NEW i \in 1..N, kd[n[i].id] # "interval" PROVE rn2[n[i].id] = 0
    <3>1. PICK x \in Ids : x = n[i].id BY <1>4, JobIds
    <3>2. x # c BY <1>7, <2>2, <3>1
    <3>3. rn[x] = 0 BY <1>1, <1>2, <1>4, <2>2, <3>1 DEF MicroOK
    <3> QED BY <1>10, <3>1, <3>2, <3>3
  <2>3. ASSUME NEW i \in 1..N, NEW j \in 1..N, kd[n[i].id] # "interval", n[i].id = n[j].id
        PROVE  i = j
    <3>1. i + 1 = j + 1 BY SMTT(30), <1>1, <1>2, <1>4, <2>3 DEF MicroOK
    <3> QED BY <3>1
  <2> QED BY <1>4, <2>1, <2>2, <2>3 DEF MicroOK
<1>15. PICK K : K = {} OBVIOUS
<1>16. Spares(K, m, kd, rn, n, kd, rn2)
  <2>1. ASSUME NEW x \in Ids, Waits(m, rn, x) PROVE Waits(n, rn2, x)
    <3>1. \A i \in 1..N + 1 : m[i].id # x BY <1>2, <2>1 DEF Waits, InM
    <3>2. x # c /\ ~InM(n, x) BY <1>4, <1>5, <3>1 DEF InM
    <3> QED BY <1>10, <2>1, <3>2 DEF Waits
  <2> QED BY <2>1 DEF Spares
<1>17. ListOK(tk, "tick", n, kd, rn2) /\ ListOK(im, "immediate", n, kd, rn2)
  <2>1. ListOK(tk, "tick", m, kd, rn) /\ ListOK(im, "immediate", m, kd, rn) BY DEF Data
  <2>2. "tick" \notin K /\ "immediate" \notin K BY <1>15
  <2>3. ListOK(tk, "tick", n, kd, rn2) BY ONLY <1>16, <2>1, <2>2, ListStays
  <2>4. ListOK(im, "immediate", n, kd, rn2) BY ONLY <1>16, <2>1, <2>2, ListStays
  <2> QED BY <2>3, <2>4
<1>18. ReactionsOK(re, p, n, kd, rn2) BY <1>15, <1>16, ReactionsStay DEF Data
<1>19. ItemsOK(it, n, kd, rn2) BY <1>15, <1>16, ItemsStay DEF Data
<1>20. ReadsOK(rs, rd, n, kd, rn2) BY <1>15, <1>16, ReadsStay DEF Data
<1>21. Kept(kd, rn2, p, re, n)
  <2> SUFFICES ASSUME NEW x \in Ids, kd[x] = "reaction", rn2[x] = 0, InM(m, x)
               PROVE  InM(n, x)
    <3>1. \A x \in Ids : rn2[x] = 0 => rn[x] = 0 BY <1>10, <1>11
    <3> QED BY <3>1 DEF Data, Kept
  <2>1. x # c BY <1>11
  <2>2. PICK i \in 1..N + 1 : m[i].id = x BY <1>2 DEF InM
  <2>3. i # 1 BY <2>1, <2>2
  <2>4. i - 1 \in 1..N /\ n[i - 1] = m[i] BY <1>4, <1>5, <2>3
  <2> QED BY <1>4, <2>2, <2>4 DEF InM
<1>22. Data(kd, rn2, n, tk, im, p, re, it, rs, rd)
  BY <1>9, <1>12, <1>13, <1>14, <1>17, <1>18, <1>19, <1>20, <1>21 DEF Data
<1> QED BY <1>3, <1>6, <1>7, <1>22

\* A timer is cancelled, or its ref changed.
LEMMA ItemsChange ==
  ASSUME NEW kd, NEW rn, NEW m, NEW tk, NEW im, NEW p, NEW re, NEW it, NEW rs, NEW rd,
         Data(kd, rn, m, tk, im, p, re, it, rs, rd),
         NEW it2 \in [Ids -> {"none", "ref", "unref"}],
         \A c \in Ids : it2[c] # "none" => it[c] # "none"
  PROVE  Data(kd, rn, m, tk, im, p, re, it2, rs, rd)
BY DEF Data, ItemsOK

\* jsClearImmediate: the last one takes the place of the one that goes.
LEMMA ImmediateCleared ==
  ASSUME NEW kd, NEW rn, NEW m, NEW tk, NEW im, NEW p, NEW re, NEW it, NEW rs, NEW rd,
         Data(kd, rn, m, tk, im, p, re, it, rs, rd), NEW i \in 1..Len(im),
         NEW im2, im2 = Front([im EXCEPT ![i] = Last(im)])
  PROVE  Data(kd, rn, m, tk, im2, p, re, it, rs, rd)
<1>1. ListOK(im, "immediate", m, kd, rn) /\ im \in Seq(Ids) BY SMTT(30) DEF Data, ListOK
<1>2. PICK N \in Nat : N + 1 = Len(im)
  <2>1. Len(im) \in Nat \ {0} BY <1>1
  <2>2. Len(im) - 1 \in Nat /\ (Len(im) - 1) + 1 = Len(im) BY <2>1
  <2> QED BY <2>2
<1>3. PICK t \in Seq(Ids) : t = [im EXCEPT ![i] = im[N + 1]]
  <2>1. im[N + 1] \in Ids BY <1>1, <1>2
  <2> QED BY <1>1, <2>1, ExceptSeq
<1>4. Len(t) = N + 1 /\ \A j \in 1..N + 1 : t[j] = IF j = i THEN im[N + 1] ELSE im[j]
  BY <1>1, <1>2, <1>3
<1>5. im2 = Front(t) BY <1>2, <1>3 DEF Last
<1>6. im2 \in Seq(Ids) /\ Len(im2) = N /\ \A j \in 1..N : im2[j] = t[j]
  BY <1>3, <1>4, <1>5 DEF Front
<1>7. \A j \in 1..N : j \in 1..N + 1 /\ j # N + 1 /\ N + 1 \in 1..N + 1 OBVIOUS
<1>8. \A j \in 1..N : im2[j] = IF j = i THEN im[N + 1] ELSE im[j]
  BY <1>4, <1>6, <1>7
<1>9. \A j \in 1..N + 1 :
        /\ kd[im[j]] = "immediate" /\ Waits(m, rn, im[j])
        /\ \A u \in 1..N + 1 : im[j] = im[u] => j = u
  BY <1>1, <1>2 DEF ListOK
<1>10. \A j \in 1..N : kd[im2[j]] = "immediate" /\ Waits(m, rn, im2[j])
  BY ZenonT(60), <1>7, <1>8, <1>9
<1>11. ASSUME NEW j \in 1..N, NEW u \in 1..N, im2[j] = im2[u] PROVE j = u
  BY ZenonT(60), <1>7, <1>8, <1>9, <1>11
<1>12. ListOK(im2, "immediate", m, kd, rn) BY <1>6, <1>10, <1>11 DEF ListOK
<1> QED BY <1>12 DEF Data

\* All but what Kept says of a new promise callback.
DataButNew(kd, rn, m, tk, im, p, re, it, rs, rd, new) ==
  /\ kd \in [Ids -> Kinds] /\ rn \in [Ids -> 0..2] /\ p \in [Ids -> States]
  /\ Numbered(kd, rn) /\ Once(kd, rn)
  /\ MicroOK(m, kd, rn)
  /\ ListOK(tk, "tick", m, kd, rn) /\ ListOK(im, "immediate", m, kd, rn)
  /\ ReactionsOK(re, p, m, kd, rn)
  /\ ItemsOK(it, m, kd, rn)
  /\ ReadsOK(rs, rd, m, kd, rn)
  /\ \A c \in Ids : c # new /\ kd[c] = "reaction" /\ rn[c] = 0 =>
       (\E o \in Ids : p[o] = "pending" /\ InL(re[o], c)) \/ InM(m, c)
  /\ new \in Ids /\ Waits(m, rn, new)
  /\ ~InL(tk, new) /\ ~InL(im, new) /\ it[new] = "none"
  /\ \A o \in Ids : ~InL(re[o], new)
  /\ <<1, new>> \notin rs /\ ~InL(rd, <<1, new>>)

\* How many numbers stand for something
GivenOut(kd) == Cardinality({c \in Ids : kd[c] # "none"})

\* The numbers given out are the first ones.
LEMMA KindsFinite ==
  ASSUME NEW n \in 0..MaxIds, NEW kd, \A c \in Ids : kd[c] # "none" <=> c <= n
  PROVE  GivenOut(kd) = n
<1>1. {c \in Ids : kd[c] # "none"} = 1..n BY JSAssumption DEF Ids
<1>2. n \in Nat /\ n \in Int /\ 1 \in Int BY JSAssumption
<1>3. Cardinality(1..n) = IF 1 > n THEN 0 ELSE n - 1 + 1 BY <1>2, FS_Interval
<1>4. Cardinality(1..n) = n BY <1>2, <1>3
<1> QED BY <1>1, <1>4 DEF GivenOut

\* The next number goes to a callback or a promise of kind k.
Gives(kd, new, k, kd2) ==
  /\ k \in Kinds \ {"none"} /\ GivenOut(kd) < MaxIds
  /\ new = GivenOut(kd) + 1 /\ kd2 = [kd EXCEPT ![new] = k]

\* New is the next one: it stands for nothing yet, and everything else keeps its place.
LEMMA NumberGiven ==
  ASSUME NEW kd, NEW rn, NEW m, NEW tk, NEW im, NEW p, NEW re, NEW it, NEW rs, NEW rd,
         Data(kd, rn, m, tk, im, p, re, it, rs, rd), NEW new, NEW k, NEW kd2, Gives(kd, new, k, kd2)
  PROVE  /\ DataButNew(kd2, rn, m, tk, im, p, re, it, rs, rd, new)
         /\ kd2[new] = k /\ kd[new] = "none"
         /\ \A c \in Ids : c # new => kd2[c] = kd[c]
         /\ \A c \in Ids : kd[c] # "none" => c < new
<1>a. PICK used : used = GivenOut(kd) OBVIOUS
<1>0. /\ k \in Kinds \ {"none"} /\ used < MaxIds /\ new = used + 1
      /\ kd2 = [kd EXCEPT ![new] = k]
  BY <1>a DEF Gives
<1>1. PICK n \in 0..MaxIds : \A c \in Ids : kd[c] # "none" <=> c <= n
  BY DEF Data, Numbered
<1>2. used = n BY <1>a, <1>1, KindsFinite
<1>3. MaxIds \in Nat BY JSAssumption
<1>4. new \in Ids /\ new = n + 1 BY <1>0, <1>2, <1>3 DEF Ids
<1>5. \A c \in Ids : c \in Nat BY <1>3 DEF Ids
<1>6. kd[new] = "none" BY <1>1, <1>3, <1>4
<1>7. kd \in [Ids -> Kinds] BY DEF Data
<1>8. /\ kd2 \in [Ids -> Kinds] /\ kd2[new] = k
      /\ \A c \in Ids : c # new => kd2[c] = kd[c]
  BY <1>0, <1>4, <1>7
<1>9. \A c \in Ids : kd[c] # "none" => c < new BY <1>1, <1>3, <1>4, <1>5
<1>10. \A c \in Ids : kd[c] # "none" => kd2[c] = kd[c] BY <1>6, <1>8
<1>11. rn[new] = 0 /\ Numbered(kd2, rn)
  <2>1. \A c \in Ids : kd2[c] # "none" <=> c <= n + 1
    <3> SUFFICES ASSUME NEW c \in Ids PROVE kd2[c] # "none" <=> c <= n + 1 OBVIOUS
    <3>1. CASE c = new BY <1>0, <1>3, <1>4, <1>8, <3>1
    <3>2. CASE c # new
      <4>1. c <= n + 1 <=> c <= n BY <1>3, <1>4, <1>5, <3>2
      <4> QED BY <1>1, <1>8, <3>2, <4>1
    <3> QED BY <3>1, <3>2
  <2>2. n + 1 \in 0..MaxIds BY <1>0, <1>2, <1>3
  <2>3. \A c \in Ids : kd[c] = "none" => rn[c] = 0 BY DEF Data, Numbered
  <2>4. \A c \in Ids : kd2[c] = "none" => rn[c] = 0 BY <1>0, <1>8, <2>3
  <2> QED BY <1>4, <1>6, <2>1, <2>2, <2>3, <2>4 DEF Numbered
<1>12. Once(kd2, rn)
  <2>1. Once(kd, rn) BY DEF Data
  <2>2. ASSUME NEW c \in Ids, kd2[c] # "interval" PROVE rn[c] <= 1
    <3>1. CASE c = new BY <1>11, <3>1
    <3>2. CASE c # new BY <1>8, <2>1, <2>2, <3>2 DEF Once
    <3> QED BY <3>1, <3>2
  <2> QED BY <2>2 DEF Once
<1>13. MicroOK(m, kd, rn) BY DEF Data
<1>14. MicroOK(m, kd2, rn) BY <1>10, <1>13, MicroStays
<1>15. Waits(m, rn, new)
  <2>1. \A i \in 1..Len(m) : kd[m[i].id] # "none" BY <1>13 DEF MicroOK, Callbacks
  <2> QED BY <1>6, <1>11, <2>1 DEF Waits, InM
<1>16. PICK K : K = {} OBVIOUS
<1>17. Spares(K, m, kd, rn, m, kd2, rn) BY <1>10 DEF Spares
<1>18. ListOK(tk, "tick", m, kd, rn) /\ ListOK(im, "immediate", m, kd, rn) BY DEF Data
<1>19. ListOK(tk, "tick", m, kd2, rn) /\ ListOK(im, "immediate", m, kd2, rn)
  <2>1. "tick" \notin K /\ "immediate" \notin K BY <1>16
  <2>2. ListOK(tk, "tick", m, kd2, rn) BY ONLY <1>17, <1>18, <2>1, ListStays
  <2>3. ListOK(im, "immediate", m, kd2, rn) BY ONLY <1>17, <1>18, <2>1, ListStays
  <2> QED BY <2>2, <2>3
<1>20. ~InL(tk, new) /\ ~InL(im, new) BY <1>6, <1>18 DEF ListOK, InL
<1>21. ReactionsOK(re, p, m, kd, rn) BY DEF Data
<1>22. ReactionsOK(re, p, m, kd2, rn) BY <1>16, <1>17, <1>21, ReactionsStay
<1>23. \A o \in Ids : ~InL(re[o], new) BY <1>6, <1>21 DEF ReactionsOK, InL
<1>24. ItemsOK(it, m, kd, rn) BY DEF Data
<1>25. ItemsOK(it, m, kd2, rn) BY <1>16, <1>17, <1>24, ItemsStay
<1>26. it[new] = "none" BY <1>4, <1>6, <1>24 DEF ItemsOK
<1>27. ReadsOK(rs, rd, m, kd, rn) BY DEF Data
<1>28. ReadsOK(rs, rd, m, kd2, rn) BY <1>16, <1>17, <1>27, ReadsStay
<1>29. <<1, new>> \notin rs /\ ~InL(rd, <<1, new>>)
  <2>1. \A r \in rs : kd[r[2]] = "read" BY <1>27 DEF ReadsOK
  <2>2. \A i \in 1..Len(rd) : kd[rd[i][2]] = "read" BY <1>27 DEF ReadsOK
  <2>3. <<1, new>>[2] = new OBVIOUS
  <2> QED BY <1>6, <2>1, <2>2, <2>3 DEF InL
<1>30. \A c \in Ids : c # new /\ kd2[c] = "reaction" /\ rn[c] = 0 =>
         (\E o \in Ids : p[o] = "pending" /\ InL(re[o], c)) \/ InM(m, c)
  BY <1>8 DEF Data, Kept
<1>31. rn \in [Ids -> 0..2] /\ p \in [Ids -> States] BY DEF Data
<1>32. DataButNew(kd2, rn, m, tk, im, p, re, it, rs, rd, new)
  BY <1>4, <1>8, <1>11, <1>12, <1>14, <1>15, <1>19, <1>20, <1>22, <1>23, <1>25, <1>26,
     <1>28, <1>29, <1>30, <1>31 DEF DataButNew
<1> QED BY <1>2, <1>4, <1>6, <1>8, <1>9, <1>32

\* Append(l, x) by positions.
LEMMA AppendIs ==
  ASSUME NEW S, NEW l \in Seq(S), NEW x \in S
  PROVE  /\ Append(l, x) \in Seq(S) /\ Len(Append(l, x)) = Len(l) + 1
         /\ Append(l, x)[Len(l) + 1] = x
         /\ \A i \in 1..Len(l) : Append(l, x)[i] = l[i]
         /\ \A i \in 1..Len(l) + 1 : i = Len(l) + 1 \/ i \in 1..Len(l)
OBVIOUS

\* setTimeout, setInterval
LEMMA TimerGiven ==
  ASSUME NEW kd, NEW rn, NEW m, NEW tk, NEW im, NEW p, NEW re, NEW it, NEW rs, NEW rd, NEW new,
         DataButNew(kd, rn, m, tk, im, p, re, it, rs, rd, new),
         kd[new] \in {"timeout", "interval"}
  PROVE  Data(kd, rn, m, tk, im, p, re, [it EXCEPT ![new] = "ref"], rs, rd)
<1>1. ItemsOK(it, m, kd, rn) /\ new \in Ids /\ Waits(m, rn, new) BY DEF DataButNew
<1>2. PICK t : t = [it EXCEPT ![new] = "ref"] OBVIOUS
<1>3. t \in [Ids -> {"none", "ref", "unref"}] /\ \A c \in Ids : c # new => t[c] = it[c]
  BY <1>1, <1>2 DEF ItemsOK
<1>4. ItemsOK(t, m, kd, rn) BY <1>1, <1>3 DEF ItemsOK
<1>5. Kept(kd, rn, p, re, m) BY DEF DataButNew, Kept
<1> QED BY <1>2, <1>4, <1>5 DEF DataButNew, Data

\* An immediate or a tick at the end of its queue
LEMMA ListLonger ==
  ASSUME NEW m, NEW kd, NEW rn, NEW l, NEW k, ListOK(l, k, m, kd, rn), NEW new \in Ids,
         Waits(m, rn, new), ~InL(l, new), kd[new] = k
  PROVE  ListOK(Append(l, new), k, m, kd, rn)
<1>1. l \in Seq(Ids) BY DEF ListOK
<1>2. PICK t : t = Append(l, new) OBVIOUS
<1>3. PICK N \in Nat : N = Len(l) BY <1>1
<1>4. /\ t \in Seq(Ids) /\ Len(t) = N + 1 /\ t[N + 1] = new
      /\ \A i \in 1..N : t[i] = l[i]
      /\ \A i \in 1..N + 1 : i = N + 1 \/ i \in 1..N
  BY <1>1, <1>2, <1>3, AppendIs
<1>5. \A i \in 1..N : l[i] # new BY <1>3 DEF InL
<1>6. \A i \in 1..N : kd[l[i]] = k /\ Waits(m, rn, l[i]) /\ \A j \in 1..N : l[i] = l[j] => i = j
  BY <1>3 DEF ListOK
<1>7. ASSUME NEW i \in 1..N + 1 PROVE kd[t[i]] = k /\ Waits(m, rn, t[i])
  BY <1>4, <1>6
<1>8. ASSUME NEW i \in 1..N + 1, NEW j \in 1..N + 1, t[i] = t[j] PROVE i = j
  BY <1>4, <1>5, <1>6, <1>8
<1>9. ListOK(t, k, m, kd, rn) BY <1>4, <1>7, <1>8 DEF ListOK
<1> QED BY <1>2, <1>9

\* setImmediate
LEMMA ImmediateGiven ==
  ASSUME NEW kd, NEW rn, NEW m, NEW tk, NEW im, NEW p, NEW re, NEW it, NEW rs, NEW rd, NEW new,
         DataButNew(kd, rn, m, tk, im, p, re, it, rs, rd, new), kd[new] = "immediate"
  PROVE  Data(kd, rn, m, tk, Append(im, new), p, re, it, rs, rd)
<1>1. ListOK(Append(im, new), "immediate", m, kd, rn) BY ListLonger DEF DataButNew
<1>2. Kept(kd, rn, p, re, m) BY DEF DataButNew, Kept
<1> QED BY <1>1, <1>2 DEF DataButNew, Data

\* process.nextTick
LEMMA TickGiven ==
  ASSUME NEW kd, NEW rn, NEW m, NEW tk, NEW im, NEW p, NEW re, NEW it, NEW rs, NEW rd, NEW new,
         DataButNew(kd, rn, m, tk, im, p, re, it, rs, rd, new), kd[new] = "tick"
  PROVE  Data(kd, rn, m, Append(tk, new), im, p, re, it, rs, rd)
<1>1. ListOK(Append(tk, new), "tick", m, kd, rn) BY ListLonger DEF DataButNew
<1>2. Kept(kd, rn, p, re, m) BY DEF DataButNew, Kept
<1> QED BY <1>1, <1>2 DEF DataButNew, Data

\* A promise of the page
LEMMA PromiseGiven ==
  ASSUME NEW kd, NEW rn, NEW m, NEW tk, NEW im, NEW p, NEW re, NEW it, NEW rs, NEW rd, NEW new,
         DataButNew(kd, rn, m, tk, im, p, re, it, rs, rd, new)
  PROVE  DataButNew(kd, rn, m, tk, im, [p EXCEPT ![new] = "pending"], re, it, rs, rd, new)
<1>1. p \in [Ids -> States] /\ new \in Ids BY DEF DataButNew
<1>2. PICK t : t = [p EXCEPT ![new] = "pending"] OBVIOUS
<1>3. t \in [Ids -> States] BY <1>1, <1>2 DEF States
<1>4. \A o \in Ids : p[o] = "pending" => t[o] = "pending" BY <1>1, <1>2
<1>5. ReactionsOK(re, t, m, kd, rn) BY <1>4 DEF DataButNew, ReactionsOK
<1>6. \A c \in Ids : c # new /\ kd[c] = "reaction" /\ rn[c] = 0 =>
        (\E o \in Ids : t[o] = "pending" /\ InL(re[o], c)) \/ InM(m, c)
  BY <1>4 DEF DataButNew
<1> QED BY <1>2, <1>3, <1>5, <1>6 DEF DataButNew

\* What waits as it did, but for the new number, is complete.
LEMMA DataNew ==
  ASSUME NEW kd, NEW rn, NEW m, NEW tk, NEW im, NEW p, NEW re, NEW it, NEW rs, NEW rd, NEW new,
         DataButNew(kd, rn, m, tk, im, p, re, it, rs, rd, new), kd[new] # "reaction"
  PROVE  Data(kd, rn, m, tk, im, p, re, it, rs, rd)
<1>1. Kept(kd, rn, p, re, m) BY DEF DataButNew, Kept
<1> QED BY <1>1 DEF DataButNew, Data

\* then on a pending promise
LEMMA ReactionWaits ==
  ASSUME NEW kd, NEW rn, NEW m, NEW tk, NEW im, NEW p, NEW re, NEW it, NEW rs, NEW rd, NEW new,
         DataButNew(kd, rn, m, tk, im, p, re, it, rs, rd, new), kd[new] = "reaction",
         NEW o \in Ids, p[o] = "pending"
  PROVE  Data(kd, rn, m, tk, im, p, [re EXCEPT ![o] = Append(@, new)], it, rs, rd)
<1>1. /\ ReactionsOK(re, p, m, kd, rn) /\ re \in [Ids -> Seq(Ids)]
      /\ new \in Ids /\ Waits(m, rn, new) /\ \A u \in Ids : ~InL(re[u], new)
  BY DEF DataButNew, ReactionsOK
<1>2. PICK l \in Seq(Ids) : l = re[o] BY <1>1
<1>3. PICK t : t = Append(l, new) OBVIOUS
<1>4. PICK N \in Nat : N = Len(l) OBVIOUS
<1>5. /\ t \in Seq(Ids) /\ Len(t) = N + 1 /\ t[N + 1] = new
      /\ \A i \in 1..N : t[i] = l[i]
      /\ \A i \in 1..N + 1 : i = N + 1 \/ i \in 1..N
  BY <1>1, <1>3, <1>4, AppendIs
<1>6. PICK re2 : re2 = [re EXCEPT ![o] = t] OBVIOUS
<1>7. /\ re2 \in [Ids -> Seq(Ids)] /\ re2[o] = t
      /\ \A u \in Ids : u # o => re2[u] = re[u]
  BY <1>1, <1>5, <1>6
<1>8. ASSUME NEW u \in Ids, NEW i \in 1..Len(re2[u])
      PROVE  \/ u = o /\ i = N + 1 /\ re2[u][i] = new
             \/ i \in 1..Len(re[u]) /\ re2[u][i] = re[u][i] /\ re[u][i] # new
  <2>1. CASE u # o
    <3>1. re2[u] = re[u] BY <1>7, <2>1
    <3> QED BY <1>1, <1>8, <3>1 DEF InL
  <2>2. CASE u = o
    <3>1. re2[u] = t /\ i \in 1..N + 1 BY <1>5, <1>7, <1>8, <2>2
    <3>2. CASE i = N + 1 BY <1>5, <2>2, <3>1, <3>2
    <3>3. CASE i \in 1..N
      <4>1. re2[u][i] = re[u][i] /\ i \in 1..Len(re[u]) BY <1>2, <1>4, <1>5, <2>2, <3>1, <3>3
      <4> QED BY <1>1, <4>1 DEF InL
    <3> QED BY <1>5, <3>1, <3>2, <3>3
  <2> QED BY <2>1, <2>2
<1>9. ASSUME NEW u \in Ids, NEW i \in 1..Len(re2[u])
      PROVE  /\ kd[re2[u][i]] = "reaction" /\ Waits(m, rn, re2[u][i]) /\ p[u] = "pending"
  <2>1. CASE u = o /\ i = N + 1 /\ re2[u][i] = new BY <1>1, <2>1
  <2>2. CASE i \in 1..Len(re[u]) /\ re2[u][i] = re[u][i] BY <1>1, <2>2 DEF ReactionsOK
  <2> QED BY <1>8, <2>1, <2>2
<1>10. ASSUME NEW u \in Ids, NEW i \in 1..Len(re2[u]), NEW w \in Ids, NEW j \in 1..Len(re2[w]),
              re2[u][i] = re2[w][j]
       PROVE  u = w /\ i = j
  <2>1. CASE u = o /\ i = N + 1 /\ re2[u][i] = new
    <3>1. w = o /\ j = N + 1 BY SMTT(30), <1>8, <1>10, <2>1
    <3> QED BY <2>1, <3>1
  <2>2. CASE i \in 1..Len(re[u]) /\ re2[u][i] = re[u][i] /\ re[u][i] # new
    <3>1. j \in 1..Len(re[w]) /\ re2[w][j] = re[w][j] BY <1>8, <1>10, <2>2
    <3>2. re[u][i] = re[w][j] BY <1>10, <2>2, <3>1
    <3> QED BY ONLY SMTT(30), <1>1, <2>2, <3>1, <3>2 DEF ReactionsOK
  <2> QED BY <1>8, <2>1, <2>2
<1>11. ReactionsOK(re2, p, m, kd, rn) BY <1>7, <1>9, <1>10 DEF ReactionsOK
<1>12. \A c : \A u \in Ids : InL(re[u], c) => InL(re2[u], c)
  <2> SUFFICES ASSUME NEW u \in Ids, NEW c, InL(re[u], c) PROVE InL(re2[u], c) OBVIOUS
  <2>1. CASE u # o BY <1>7, <2>1
  <2>2. CASE u = o
    <3>1. PICK i \in 1..N : l[i] = c BY <1>2, <1>4, <2>2 DEF InL
    <3>2. i \in 1..N + 1 /\ t[i] = c BY <1>5, <3>1
    <3> QED BY <1>5, <1>7, <2>2, <3>2 DEF InL
  <2> QED BY <2>1, <2>2
<1>13. InL(re2[o], new)
  <2>1. N + 1 \in 1..N + 1 OBVIOUS
  <2> QED BY <1>5, <1>7, <2>1 DEF InL
<1>14. Kept(kd, rn, p, re2, m)
  <2> SUFFICES ASSUME NEW c \in Ids, kd[c] = "reaction", rn[c] = 0
               PROVE  (\E u \in Ids : p[u] = "pending" /\ InL(re2[u], c)) \/ InM(m, c)
    BY DEF Kept
  <2>1. CASE c = new BY <1>13, <2>1
  <2>2. CASE c # new BY <1>12, <2>2 DEF DataButNew
  <2> QED BY <2>1, <2>2
<1>15. Data(kd, rn, m, tk, im, p, re2, it, rs, rd) BY <1>11, <1>14 DEF DataButNew, Data
<1> QED BY <1>2, <1>3, <1>6, <1>15

\* then on a settled promise, fs.readFile with a full channel
LEMMA JobGiven ==
  ASSUME NEW kd, NEW rn, NEW m, NEW tk, NEW im, NEW p, NEW re, NEW it, NEW rs, NEW rd, NEW new,
         DataButNew(kd, rn, m, tk, im, p, re, it, rs, rd, new), kd[new] \in Callbacks
  PROVE  /\ Append(m, Job(1, new)) = m \o Jobs(1, <<new>>)
         /\ Data(kd, rn, Append(m, Job(1, new)), tk, im, p, re, it, rs, rd)
<1>1. MicroOK(m, kd, rn) /\ m \in Seq(Jobs1) /\ new \in Ids /\ Waits(m, rn, new)
  BY DEF DataButNew, MicroOK
<1>2. PICK l \in Seq(Ids) : l = <<new>>
  <2>1. <<new>> \in Seq(Ids) BY <1>1
  <2> QED BY <2>1
<1>3. Len(l) = 1 /\ l[1] = new /\ \A i \in 1..1 : i = 1 BY <1>2
<1>4. \A c : InL(l, c) <=> c = new BY <1>3 DEF InL
<1>5. PICK n : n = m \o Jobs(1, l) OBVIOUS
<1>6. n = Append(m, Job(1, new))
  <2>1. Job(1, new) \in Jobs1 BY <1>1 DEF Job, Jobs1
  <2>2. Jobs(1, l) = <<Job(1, new)>> BY <1>2 DEF Jobs
  <2>3. m \in Seq(Jobs1) BY <1>1
  <2> QED BY ONLY <1>5, <2>1, <2>2, <2>3, AppendIsConcat
<1>7. PICK K : K = {kd[new]} OBVIOUS
<1>8. /\ MicroOK(n, kd, rn)
      /\ \A c : InM(n, c) <=> InM(m, c) \/ InL(l, c)
  <2>1. K \subseteq Callbacks BY <1>7
  <2>2. Batch(l, K, m, kd, rn) BY <1>1, <1>3, <1>7 DEF Batch
  <2>3. n = Jobs(1, l) \o m \/ n = m \o Jobs(1, l) BY <1>5
  <2> QED BY ONLY <1>1, l \in Seq(Ids), <2>1, <2>2, <2>3, Grow
<1>9. \A c : Waits(m, rn, c) /\ c # new => Waits(n, rn, c) BY <1>4, <1>8 DEF Waits
<1>10. ListOK(tk, "tick", n, kd, rn) /\ ListOK(im, "immediate", n, kd, rn)
  BY <1>9 DEF DataButNew, ListOK, InL
<1>11. ReactionsOK(re, p, n, kd, rn)
  <2>1. ReactionsOK(re, p, m, kd, rn) /\ \A o \in Ids : ~InL(re[o], new) BY DEF DataButNew
  <2> QED BY <1>9, <2>1 DEF ReactionsOK, InL
<1>12. ItemsOK(it, n, kd, rn)
  <2>1. ItemsOK(it, m, kd, rn) /\ it[new] = "none" BY DEF DataButNew
  <2> QED BY <1>9, <2>1 DEF ItemsOK
<1>13. ReadsOK(rs, rd, n, kd, rn)
  <2>1. ReadsOK(rs, rd, m, kd, rn) /\ <<1, new>> \notin rs /\ ~InL(rd, <<1, new>>)
    BY DEF DataButNew
  <2>2. rs \subseteq {1} \X Ids /\ rd \in Seq({1} \X Ids) BY <2>1 DEF ReadsOK
  <2>3. ASSUME NEW r \in rs PROVE r[2] # new
    <3>1. r = <<1, r[2]>> BY <2>2
    <3> QED BY <2>1, <3>1
  <2>4. ASSUME NEW i \in 1..Len(rd) PROVE rd[i][2] # new
    <3>1. rd[i] \in {1} \X Ids BY <2>2
    <3>2. rd[i] = <<1, rd[i][2]>> BY <3>1
    <3> QED BY <2>1, <3>2 DEF InL
  <2> QED BY <1>9, <2>1, <2>3, <2>4 DEF ReadsOK
<1>14. Kept(kd, rn, p, re, n)
  <2> SUFFICES ASSUME NEW c \in Ids, kd[c] = "reaction", rn[c] = 0
               PROVE  (\E u \in Ids : p[u] = "pending" /\ InL(re[u], c)) \/ InM(n, c)
    BY DEF Kept
  <2>1. CASE c = new BY <1>4, <1>8, <2>1
  <2>2. CASE c # new BY <1>8, <2>2 DEF DataButNew
  <2> QED BY <2>1, <2>2
<1>15. Data(kd, rn, n, tk, im, p, re, it, rs, rd)
  BY <1>8, <1>10, <1>11, <1>12, <1>13, <1>14 DEF DataButNew, Data
<1> QED BY <1>2, <1>5, <1>6, <1>15

\* fs.readFile
LEMMA ReadGiven ==
  ASSUME NEW kd, NEW rn, NEW m, NEW tk, NEW im, NEW p, NEW re, NEW it, NEW rs, NEW rd, NEW new,
         DataButNew(kd, rn, m, tk, im, p, re, it, rs, rd, new), kd[new] = "read"
  PROVE  Data(kd, rn, m, tk, im, p, re, it, rs \cup {<<1, new>>}, rd)
<1>1. /\ ReadsOK(rs, rd, m, kd, rn) /\ new \in Ids /\ Waits(m, rn, new)
      /\ <<1, new>> \notin rs /\ ~InL(rd, <<1, new>>)
  BY DEF DataButNew
<1>2. PICK t : t = rs \cup {<<1, new>>} OBVIOUS
<1>3. t \subseteq {1} \X Ids BY <1>1, <1>2 DEF ReadsOK
<1>4. \A r \in t : kd[r[2]] = "read" /\ Waits(m, rn, r[2]) BY <1>1, <1>2 DEF ReadsOK
<1>5. \A i \in 1..Len(rd) : rd[i] \notin t BY <1>1, <1>2 DEF ReadsOK, InL
<1>6. ReadsOK(t, rd, m, kd, rn) BY <1>1, <1>3, <1>4, <1>5 DEF ReadsOK
<1>7. Kept(kd, rn, p, re, m) BY DEF DataButNew, Kept
<1> QED BY <1>2, <1>6, <1>7 DEF DataButNew, Data

\* The goroutine of a read ends.
LEMMA ReadDone ==
  ASSUME NEW kd, NEW rn, NEW m, NEW tk, NEW im, NEW p, NEW re, NEW it, NEW rs, NEW rd,
         Data(kd, rn, m, tk, im, p, re, it, rs, rd), NEW r \in rs
  PROVE  Data(kd, rn, m, tk, im, p, re, it, rs \ {r}, Append(rd, r))
<1>1. ReadsOK(rs, rd, m, kd, rn) BY DEF Data
<1>2. rs \subseteq {1} \X Ids /\ rd \in Seq({1} \X Ids) /\ r \in {1} \X Ids BY <1>1 DEF ReadsOK
<1>3. PICK t : t = Append(rd, r) OBVIOUS
<1>4. PICK N \in Nat : N = Len(rd) BY <1>2
<1>5. /\ t \in Seq({1} \X Ids) /\ Len(t) = N + 1 /\ t[N + 1] = r
      /\ \A i \in 1..N : t[i] = rd[i]
      /\ \A i \in 1..N + 1 : i = N + 1 \/ i \in 1..N
  BY <1>2, <1>3, <1>4, AppendIs
<1>6. \A i \in 1..N : /\ kd[rd[i][2]] = "read" /\ Waits(m, rn, rd[i][2])
                      /\ rd[i] \notin rs /\ rd[i] # r
                      /\ \A j \in 1..N : rd[i] = rd[j] => i = j
  BY <1>1, <1>4 DEF ReadsOK
<1>7. \A u \in rs : kd[u[2]] = "read" /\ Waits(m, rn, u[2]) BY <1>1 DEF ReadsOK
<1>8. ASSUME NEW i \in 1..N + 1
      PROVE  kd[t[i][2]] = "read" /\ Waits(m, rn, t[i][2]) /\ t[i] \notin rs \ {r}
  <2>1. CASE i = N + 1 BY <1>5, <1>7, <2>1
  <2>2. CASE i \in 1..N BY <1>5, <1>6, <2>2
  <2> QED BY <1>5, <2>1, <2>2
<1>9. ASSUME NEW i \in 1..N + 1, NEW j \in 1..N + 1, t[i] = t[j] PROVE i = j
  BY <1>5, <1>6, <1>9
<1>10. ReadsOK(rs \ {r}, t, m, kd, rn) BY <1>2, <1>5, <1>7, <1>8, <1>9 DEF ReadsOK
<1> QED BY <1>3, <1>10 DEF Data

-----------------------------------------------------------------------------
(***************************************************************************)
(* The stack and the guards of the loop.                                   *)
(***************************************************************************)
Queues ==
  [micro : Seq(Jobs1), tick : Seq(Ids), imm : Seq(Ids),
   pumping : BOOLEAN, processing : BOOLEAN, leftover : BOOLEAN]

\* A guard is set while its frame is on the stack, and there is one at most.
Guards(s, r) ==
  /\ r.pumping <=> On(s, "pump")
  /\ r.processing <=> On(s, "micro")
  /\ AtMostOne(s, "pump") /\ AtMostOne(s, "micro")

\* The innermost frame goes on with another phase.
InPhase(s, ph) == [s EXCEPT ![Len(s)].ph = ph]

\* The stack keeps its shape.
LEMMA PhaseShape ==
  ASSUME NEW s, Shape(s), Len(s) > 0,
         NEW ph \in Phases
  PROVE  /\ Shape(InPhase(s, ph)) /\ Len(InPhase(s, ph)) = Len(s)
         /\ \A i \in 1..Len(s) - 1 : InPhase(s, ph)[i] = s[i]
         /\ InPhase(s, ph)[Len(s)].k = s[Len(s)].k /\ InPhase(s, ph)[Len(s)].ph = ph
         /\ \A k : On(InPhase(s, ph), k) <=> On(s, k)
         /\ \A k : AtMostOne(s, k) => AtMostOne(InPhase(s, ph), k)
<1>0. PICK t : t = InPhase(s, ph) OBVIOUS
<1>1. s \in Seq(Frames) /\ Len(s) \in Nat \ {0} BY DEF Shape
<1>2. PICK N \in Nat \ {0} : N = Len(s) BY <1>1
<1>3. N \in 1..N /\ \A i \in 1..N : s[i] \in Frames BY <1>1, <1>2
<1>4. PICK f : f = [s[N] EXCEPT !.ph = ph] OBVIOUS
<1>5. f \in Frames /\ f.ph = ph /\ f.k = s[N].k /\ f.id = s[N].id BY <1>3, <1>4 DEF Frames
<1>6. t = [s EXCEPT ![N] = f] BY <1>0, <1>2, <1>4 DEF InPhase
<1>7. t \in Seq(Frames) /\ Len(t) = N /\ \A i \in 1..N : t[i] = IF i = N THEN f ELSE s[i]
  BY <1>1, <1>2, <1>3, <1>5, <1>6, ExceptSeq
<1>8. Similar(s, t)
  <2>1. \A i \in 1..N : t[i].k = s[i].k /\ t[i].id = s[i].id /\ (i < N => t[i].ph = s[i].ph)
    BY <1>3, <1>5, <1>7
  <2> QED BY <1>2, <1>7, <2>1 DEF Similar
<1>9. Shape(t) /\ \A k : (On(t, k) <=> On(s, k)) /\ (AtMostOne(s, k) => AtMostOne(t, k))
  BY <1>7, <1>8, SimilarShape
<1>10. \A i \in 1..N - 1 : i \in 1..N /\ i # N OBVIOUS
<1> QED BY <1>0, <1>2, <1>3, <1>5, <1>7, <1>9, <1>10

\* A flag of one frame
WithLate(s, i) == [s EXCEPT ![i].late = TRUE]

\* It does not change the shape of the stack.
LEMMA LateShape ==
  ASSUME NEW s, Shape(s), NEW i \in 1..Len(s)
  PROVE  /\ Shape(WithLate(s, i)) /\ Len(WithLate(s, i)) = Len(s)
         /\ \A j \in 1..Len(s) : WithLate(s, i)[j].k = s[j].k /\ WithLate(s, i)[j].ph = s[j].ph
         /\ \A k : On(WithLate(s, i), k) <=> On(s, k)
         /\ \A k : AtMostOne(s, k) => AtMostOne(WithLate(s, i), k)
<1>0. PICK t : t = WithLate(s, i) OBVIOUS
<1>1. s \in Seq(Frames) BY DEF Shape
<1>2. PICK N \in Nat : N = Len(s) BY <1>1
<1>3. \A j \in 1..N : s[j] \in Frames BY <1>1, <1>2
<1>4. PICK f : f = [s[i] EXCEPT !.late = TRUE] OBVIOUS
<1>5. f \in Frames /\ f.ph = s[i].ph /\ f.k = s[i].k /\ f.id = s[i].id
  BY <1>2, <1>3, <1>4 DEF Frames
<1>6. t = [s EXCEPT ![i] = f] BY <1>0, <1>4 DEF WithLate
<1>7. t \in Seq(Frames) /\ Len(t) = N /\ \A j \in 1..N : t[j] = IF j = i THEN f ELSE s[j]
  <2>1. i \in 1..Len(s) OBVIOUS
  <2> QED BY ONLY <1>1, <1>2, <1>5, <1>6, <2>1, ExceptSeq
<1>8. \A j \in 1..N : t[j].k = s[j].k /\ t[j].id = s[j].id /\ t[j].ph = s[j].ph
  BY <1>5, <1>7
<1>9. Similar(s, t) BY <1>2, <1>7, <1>8 DEF Similar
<1>10. Shape(t) /\ \A k : (On(t, k) <=> On(s, k)) /\ (AtMostOne(s, k) => AtMostOne(t, k))
  BY <1>7, <1>9, SimilarShape
<1> QED BY <1>0, <1>2, <1>7, <1>8, <1>10

\* Nothing but a job loop stands on a pump, and nothing but one on a job loop's job.
LEMMA PumpBelow ==
  ASSUME NEW s, Shape(s), On(s, "pump"), Len(s) > 0, s[Len(s)].k # "pump"
  PROVE  On(s, "micro")
<1>1. PICK N \in Nat : N = Len(s) BY DEF Shape
<1>2. PICK i \in 1..N : s[i].k = "pump" BY <1>1 DEF On
<1>3. i \in 1..N - 1 /\ i + 1 \in 1..N BY <1>1, <1>2
<1>4. OnTop(s[i], s[i + 1]) BY <1>1, <1>3 DEF Shape
<1>5. s[i + 1].k = "micro" BY <1>2, <1>4 DEF OnTop, Code
<1> QED BY <1>1, <1>3, <1>5 DEF On

\* A job is called by the loop that runs the jobs.
LEMMA JobBelow ==
  ASSUME NEW s, Shape(s), NEW i \in 1..Len(s), s[i].k = "job"
  PROVE  i - 1 \in 1..Len(s) /\ s[i - 1].k = "micro"
<1>1. PICK N \in Nat : N = Len(s) BY DEF Shape
<1>2. i # 1 BY <1>1 DEF Shape
<1>3. PICK j \in 1..N - 1 : j = i - 1 BY <1>1, <1>2
<1>4. j \in 1..N /\ j + 1 = i BY <1>3
<1>5. OnTop(s[j], s[i]) BY <1>1, <1>3, <1>4 DEF Shape
<1>6. s[j].k = "micro" BY <1>5 DEF OnTop
<1> QED BY <1>1, <1>3, <1>4, <1>6

\* What the innermost frame stands on
LEMMA CallerOf ==
  ASSUME NEW s, Shape(s), Len(s) > 0, s[Len(s)].k # "main"
  PROVE  Len(s) - 1 \in 1..Len(s) /\ OnTop(s[Len(s) - 1], s[Len(s)])
<1>1. PICK N \in Nat : N = Len(s) BY DEF Shape
<1>2. N # 1 BY <1>1 DEF Shape
<1>3. PICK j \in 1..N - 1 : j = N - 1 BY <1>1, <1>2
<1>4. j + 1 = N /\ j \in 1..N BY <1>3
<1>5. OnTop(s[j], s[j + 1]) BY <1>1, <1>3 DEF Shape
<1> QED BY <1>1, <1>3, <1>4, <1>5

\* The page's own code is the outermost frame.
LEMMA MainIsFirst ==
  ASSUME NEW s, Shape(s), Len(s) > 0, s[Len(s)].k = "main"
  PROVE  Len(s) = 1
<1>1. PICK N \in Nat : N = Len(s) BY DEF Shape
<1>2. ASSUME N # 1 PROVE FALSE
  <2>1. PICK j \in 1..N - 1 : j = N - 1 BY <1>1, <1>2
  <2>2. j + 1 = N BY <2>1
  <2>3. OnTop(s[j], s[N]) BY <1>1, <2>1, <2>2 DEF Shape
  <2> QED BY <1>1, <2>3 DEF OnTop
<1> QED BY <1>1, <1>2

-----------------------------------------------------------------------------
(***************************************************************************)
(* What is left of the page's promise callbacks when it ends.              *)
(***************************************************************************)
NoReactions(m, kd) == \A i \in 1..Len(m) : kd[m[i].id] # "reaction"

\* No promise callback is left when the page has ended or is about to: at its end, after its
\* last pump, and behind the immediates of that pump.
EndOK(s, ab, m, kd) ==
  /\ Len(s) = 0 /\ ~ab => NoReactions(m, kd)
  /\ Len(s) = 1 /\ s[1].ph # "code" => NoReactions(m, kd)
  /\ Len(s) = 2 /\ s[2].k = "drain" /\ s[2].ph # "pump" => NoReactions(m, kd)
  /\ Len(s) = 3 /\ s[3].k = "pump" /\ s[3].ph = "imm" => m = <<>>

\* An empty queue holds no promise callback.
LEMMA EmptyEnds ==
  ASSUME NEW s, NEW ab, NEW m, NEW kd, m = <<>>
  PROVE  EndOK(s, ab, m, kd)
BY DEF EndOK, NoReactions

\* Nothing is claimed while code runs, or a job loop is innermost.
LEMMA CodeEnds ==
  ASSUME NEW s, NEW ab, NEW m, NEW kd, Len(s) \in Nat, Len(s) > 0,
         \/ s[Len(s)].k \in Code /\ s[Len(s)].ph = "code"
         \/ s[Len(s)].k \in {"sync", "job", "micro", "await"}
         \/ s[Len(s)].k = "drain" /\ s[Len(s)].ph = "pump"
         \/ s[Len(s)].k = "pump" /\ s[Len(s)].ph = "micro",
         Len(s) = 1 => s[1].k = "main"
  PROVE  EndOK(s, ab, m, kd)
<1>1. CASE Len(s) = 1 BY <1>1 DEF EndOK
<1>2. CASE Len(s) = 2 BY <1>2 DEF EndOK, Code
<1>3. CASE Len(s) = 3 BY <1>3 DEF EndOK, Code
<1> QED BY <1>1, <1>2, <1>3 DEF EndOK

-----------------------------------------------------------------------------
(***************************************************************************)
(* Ticks and the promise callbacks that were given later.                  *)
(***************************************************************************)
\* The page's own code runs, or a drain is about to pump.
PageCode(s) ==
  \/ Len(s) = 0
  \/ Len(s) > 0 /\ s[Len(s)].k \in {"main", "sync"} /\ s[Len(s)].ph = "code"
  \/ Len(s) > 0 /\ s[Len(s)].k = "drain" /\ s[Len(s)].ph = "pump"

\* No job is active either: a tick given now is given outside of the jobs.
OnPage(s) == PageCode(s) /\ ~On(s, "micro")

\* c is a promise callback given after t.
Later(kd, t, c) == c > t /\ kd[c] = "reaction"

\* t is a job, and no promise callback given later stands before it.
Ahead(m, kd, t) ==
  \E i \in 1..Len(m) : m[i].id = t /\ \A j \in 1..i : ~Later(kd, t, m[j].id)

\* A tick that waits is still in the tick queue or ahead of all later promise callbacks,
\* none of which has run.
TicksOK(s, aw, out, kd, rn, tk, m) ==
  ~aw => \A t \in out : kd[t] = "tick" /\ rn[t] = 0 =>
    /\ \A c \in Ids : Later(kd, t, c) => rn[c] = 0
    /\ (OnPage(s) /\ InL(tk, t)) \/ Ahead(m, kd, t)

\* The loop goes on, jobs are queued behind the others.
LEMMA TicksStay ==
  ASSUME NEW s, NEW aw, NEW out, NEW kd, NEW rn, NEW tk, NEW m,
         TicksOK(s, aw, out, kd, rn, tk, m), NEW s2, NEW m2,
         \A t \in out : OnPage(s) /\ InL(tk, t) => OnPage(s2),
         \A t \in out : Ahead(m, kd, t) => Ahead(m2, kd, t)
  PROVE  TicksOK(s2, aw, out, kd, rn, tk, m2)
BY DEF TicksOK

\* A tick stays ahead when jobs are queued behind the others.
LEMMA AheadMore ==
  ASSUME NEW m \in Seq(Jobs1), NEW x \in Seq(Jobs1), NEW kd, NEW t, Ahead(m, kd, t)
  PROVE  Ahead(m \o x, kd, t)
<1>1. PICK M \in Nat : M = Len(m) OBVIOUS
<1>2. PICK n : n = m \o x OBVIOUS
<1>3. \A i \in 1..M : i \in 1..Len(n) /\ n[i] = m[i] BY <1>1, <1>2, ConcatIs
<1>4. PICK i \in 1..M : m[i].id = t /\ \A j \in 1..i : ~Later(kd, t, m[j].id)
  BY <1>1 DEF Ahead
<1>5. \A j \in 1..i : j \in 1..M BY <1>1, <1>4
<1>6. n[i].id = t /\ \A j \in 1..i : ~Later(kd, t, n[j].id) BY <1>3, <1>4, <1>5
<1> QED BY <1>2, <1>3, <1>6 DEF Ahead

\* Jobs that are no promise callbacks are put in front.
LEMMA AheadBehind ==
  ASSUME NEW m \in Seq(Jobs1), NEW x \in Seq(Jobs1), NEW kd,
         \A i \in 1..Len(x) : kd[x[i].id] # "reaction",
         NEW t, Ahead(m, kd, t) \/ InM(x, t)
  PROVE  Ahead(x \o m, kd, t)
<1>1. PICK M \in Nat, N \in Nat : M = Len(m) /\ N = Len(x) OBVIOUS
<1>2. PICK n : n = x \o m OBVIOUS
<1>3. /\ \A i \in 1..N : i \in 1..Len(n) /\ n[i] = x[i]
      /\ \A i \in 1..M : N + i \in 1..Len(n) /\ n[N + i] = m[i]
  BY <1>1, <1>2, ConcatIs
<1>4. \A i \in 1..N : ~Later(kd, t, n[i].id) BY <1>1, <1>3 DEF Later
<1>5. CASE InM(x, t)
  <2>1. PICK i \in 1..N : x[i].id = t BY <1>1, <1>5 DEF InM
  <2>2. \A j \in 1..i : j \in 1..N BY <1>1, <2>1
  <2> QED BY <1>2, <1>3, <1>4, <2>1, <2>2 DEF Ahead
<1>6. CASE Ahead(m, kd, t)
  <2>1. PICK i \in 1..M : m[i].id = t /\ \A j \in 1..i : ~Later(kd, t, m[j].id)
    BY <1>1, <1>6 DEF Ahead
  <2>2. \A j \in 1..N + i : j \in 1..N \/ (j - N \in 1..i /\ j - N \in 1..M /\ N + (j - N) = j)
    BY <1>1, <2>1
  <2>3. ASSUME NEW j \in 1..N + i PROVE ~Later(kd, t, n[j].id)
    <3>1. CASE j \in 1..N BY <1>4, <3>1
    <3>2. CASE j \notin 1..N
      <4>1. PICK u \in 1..i : u = j - N /\ u \in 1..M /\ N + u = j BY <2>2, <3>2
      <4>2. n[j] = m[u] BY <1>3, <4>1
      <4> QED BY <2>1, <4>1, <4>2
    <3> QED BY <3>1, <3>2
  <2> QED BY <1>2, <1>3, <2>1, <2>3 DEF Ahead
<1> QED BY <1>5, <1>6

\* The pump: what waits in the tick queue is now ahead of all other jobs.
LEMMA TicksPump ==
  ASSUME NEW s, NEW aw, NEW out, NEW kd, NEW rn, NEW tk, NEW m, NEW s2, NEW x,
         TicksOK(s, aw, out, kd, rn, tk, m),
         MicroOK(m, kd, rn), ListOK(tk, "tick", m, kd, rn), x \in Seq(Jobs1)
  PROVE  TicksOK(s2, aw, out, kd, rn, <<>>, (Jobs(1, tk) \o m) \o x)
<1>1. m \in Seq(Jobs1) /\ tk \in Seq(Ids) BY DEF MicroOK, ListOK
<1>2. PICK j \in Seq(Jobs1) : j = Jobs(1, tk) BY <1>1, JobsIs
<1>3. Len(j) = Len(tk) /\ \A i \in 1..Len(tk) : j[i].id = tk[i] BY <1>1, <1>2, JobsIs
<1>4. \A i \in 1..Len(j) : kd[j[i].id] # "reaction" BY <1>3 DEF ListOK
<1>5. \A t : InL(tk, t) => InM(j, t) BY <1>1, <1>2, JobsIs
<1>6. j \o m \in Seq(Jobs1) BY <1>1, <1>2
<1>7. \A t : Ahead(m, kd, t) \/ InL(tk, t) => Ahead((j \o m) \o x, kd, t)
  <2> SUFFICES ASSUME NEW t, Ahead(m, kd, t) \/ InL(tk, t) PROVE Ahead((j \o m) \o x, kd, t)
    OBVIOUS
  <2>1. Ahead(m, kd, t) \/ InM(j, t) BY <1>5
  <2>2. Ahead(j \o m, kd, t) BY ONLY SMTT(30), <1>1, <1>2, <1>4, <2>1, AheadBehind
  <2> QED BY ONLY <1>6, x \in Seq(Jobs1), <2>2, AheadMore
<1> QED BY <1>2, <1>7 DEF TicksOK

\* The first job starts.
LEMMA TicksStart ==
  ASSUME NEW s, NEW aw, NEW out, NEW kd, NEW rn, NEW tk, NEW m,
         TicksOK(s, aw, out, kd, rn, tk, m), out \subseteq Ids,
         On(s, "micro"), m \in Seq(Jobs1), m # <<>>, rn \in [Ids -> 0..2],
         NEW c, c = m[1].id,
         NEW rn2, rn2 = [rn EXCEPT ![c] = IF @ = 2 THEN 2 ELSE @ + 1], NEW s2
  PROVE  TicksOK(s2, aw, out, kd, rn2, tk, Tail(m))
<1>1. PICK N \in Nat : N + 1 = Len(m)
  <2>1. Len(m) \in Nat \ {0} OBVIOUS
  <2>2. Len(m) - 1 \in Nat /\ (Len(m) - 1) + 1 = Len(m) BY <2>1
  <2> QED BY <2>2
<1>2. PICK n : n = Tail(m) OBVIOUS
<1>3. Len(n) = N /\ \A i \in 1..N : n[i] = m[i + 1] BY <1>1, <1>2
<1>4. c \in Ids
  <2>1. 1 \in 1..Len(m) BY <1>1
  <2> QED BY <2>1, JobIds
<1>5. \A u \in Ids : u # c => rn2[u] = rn[u] OBVIOUS
<1>6. rn2[c] # 0
  <2>1. PICK z \in 0..2 : z = rn[c] BY <1>4
  <2>2. rn2[c] = IF z = 2 THEN 2 ELSE z + 1 BY <1>4, <2>1
  <2> QED BY <2>1, <2>2
<1>7. SUFFICES ASSUME ~aw, NEW t \in out, kd[t] = "tick", rn2[t] = 0
               PROVE  (\A u \in Ids : Later(kd, t, u) => rn2[u] = 0) /\ Ahead(n, kd, t)
  BY <1>2 DEF TicksOK
<1>8. t # c /\ t \in Ids /\ rn[t] = 0 BY <1>5, <1>6, <1>7
<1>9. (\A u \in Ids : Later(kd, t, u) => rn[u] = 0) /\ Ahead(m, kd, t)
  BY <1>7, <1>8 DEF TicksOK, OnPage
<1>10. PICK i \in 1..N + 1 : m[i].id = t /\ \A j \in 1..i : ~Later(kd, t, m[j].id)
  BY <1>1, <1>9 DEF Ahead
<1>11. i # 1 BY <1>8, <1>10
<1>12. PICK h \in 1..N : h + 1 = i
  <2>1. i - 1 \in 1..N /\ (i - 1) + 1 = i BY <1>11
  <2> QED BY <2>1
<1>13. ~Later(kd, t, c)
  <2>1. 1 \in 1..i BY <1>10
  <2> QED BY <1>10, <2>1
<1>14. \A j \in 1..h : j \in 1..N /\ j + 1 \in 1..i BY <1>12
<1>15. Ahead(n, kd, t) BY <1>3, <1>10, <1>12, <1>14 DEF Ahead
<1>16. \A u \in Ids : Later(kd, t, u) => rn2[u] = 0 BY <1>5, <1>9, <1>13
<1> QED BY <1>15, <1>16

\* A number is given out: what it stands for is later than every tick that waits.
LEMMA TicksNew ==
  ASSUME NEW s, NEW aw, NEW out, NEW kd, NEW rn, NEW tk, NEW m,
         TicksOK(s, aw, out, kd, rn, tk, m), out \subseteq {c \in Ids : kd[c] # "none"},
         NEW new \in Ids, kd[new] = "none", rn[new] = 0, MicroOK(m, kd, rn),
         NEW kd2, \A c \in Ids : c # new => kd2[c] = kd[c],
         \A c \in Ids : kd[c] # "none" => c < new,
         NEW tk2, \A t : InL(tk, t) => InL(tk2, t),
         NEW x \in Seq(Jobs1), NEW out2,
         out2 = out \/ (out2 = out \cup {new} /\ (kd2[new] = "tick" => OnPage(s) /\ InL(tk2, new)))
  PROVE  TicksOK(s, aw, out2, kd2, rn, tk2, m \o x)
<1>1. m \in Seq(Jobs1) BY DEF MicroOK
<1>2. \A t \in Ids : t \in Nat BY JSAssumption DEF Ids
<1>3. \A i \in 1..Len(m) : kd2[m[i].id] = kd[m[i].id]
  <2>1. \A i \in 1..Len(m) : m[i].id \in Ids BY <1>1, JobIds
  <2>2. \A i \in 1..Len(m) : kd[m[i].id] # "none" BY DEF MicroOK, Callbacks
  <2> QED BY <2>1, <2>2
<1>4. ASSUME NEW t, Ahead(m, kd, t) PROVE Ahead(m \o x, kd2, t)
  <2>1. PICK M \in Nat : M = Len(m) BY <1>1
  <2>2. PICK i \in 1..M : m[i].id = t /\ \A j \in 1..i : ~Later(kd, t, m[j].id)
    BY <1>4, <2>1 DEF Ahead
  <2>3. \A j \in 1..i : j \in 1..M BY <2>2
  <2>4. \A j \in 1..i : ~Later(kd2, t, m[j].id) BY <1>3, <2>1, <2>2, <2>3 DEF Later
  <2>5. Ahead(m, kd2, t) BY <2>1, <2>2, <2>4 DEF Ahead
  <2> QED BY ONLY <1>1, x \in Seq(Jobs1), <2>5, AheadMore
<1>5. SUFFICES ASSUME ~aw, NEW t \in out2, kd2[t] = "tick", rn[t] = 0
               PROVE  /\ \A c \in Ids : Later(kd2, t, c) => rn[c] = 0
                      /\ (OnPage(s) /\ InL(tk2, t)) \/ Ahead(m \o x, kd2, t)
  BY DEF TicksOK
<1>6. t \in Ids BY <1>5
<1>7. CASE t = new
  <2>1. kd2[new] = "tick" BY <1>5, <1>7
  <2>2. new \notin out OBVIOUS
  <2>3. out2 = out \cup {new} BY <1>5, <1>7, <2>2
  <2>4. OnPage(s) /\ InL(tk2, new) BY <2>1, <2>2, <2>3
  <2>5. ASSUME NEW c \in Ids, Later(kd2, new, c) PROVE FALSE
    <3>1. c > new /\ kd2[c] = "reaction" BY <2>5 DEF Later
    <3>2. c # new BY <1>2, <3>1
    <3>3. c < new BY <3>1, <3>2
    <3> QED BY <1>2, <3>1, <3>3
  <2> QED BY <1>7, <2>4, <2>5
<1>8. CASE t # new
  <2>1. t \in out /\ kd[t] = "tick" BY <1>5, <1>6, <1>8
  <2>2. /\ \A c \in Ids : Later(kd, t, c) => rn[c] = 0
        /\ (OnPage(s) /\ InL(tk, t)) \/ Ahead(m, kd, t)
    BY <1>5, <2>1 DEF TicksOK
  <2>3. ASSUME NEW c \in Ids, Later(kd2, t, c) PROVE rn[c] = 0
    <3>1. CASE c = new BY <3>1
    <3>2. CASE c # new BY <2>2, <2>3, <3>2 DEF Later
    <3> QED BY <3>1, <3>2
  <2> QED BY <1>4, <2>2, <2>3
<1> QED BY <1>7, <1>8
-----------------------------------------------------------------------------
(***************************************************************************)
(* The inductive invariant, of a page that calls no async function.        *)
(***************************************************************************)
Page ==
  /\ vms = 1 /\ request = 1
  /\ q \in [VMs -> Queues] /\ fired \in Seq(Ids)
  /\ outside \subseteq {c \in Ids : kind[c] # "none"}
  /\ Shape(stack) /\ Guards(stack, q[1])
  /\ Data(kind, runs, q[1].micro, q[1].tick, q[1].imm, pr, reactions, items, reading, readDone)
  /\ EndOK(stack, aborted, q[1].micro, kind)
  /\ TicksOK(stack, awaited, outside, kind, runs, q[1].tick, q[1].micro)

\* Nothing is claimed of a page once an async function has been called.
IInv == ~spoiled => Page

\* The innermost frame
LEMMA TopIs ==
  ASSUME Page, ~Ended
  PROVE  /\ Len(stack) \in Nat \ {0} /\ Depth = Len(stack)
         /\ Top = stack[Len(stack)] /\ Top \in Frames /\ VM = 1
         /\ On(stack, Top.k)
<1>1. stack \in Seq(Frames) /\ stack # <<>> BY DEF Page, Shape, Ended
<1>2. Len(stack) \in Nat \ {0} BY <1>1
<1>3. Len(stack) \in 1..Len(stack) BY <1>2
<1>4. stack[Len(stack)] \in Frames BY <1>1, <1>3
<1>5. Top = stack[Len(stack)] /\ Depth = Len(stack) BY DEF Top, Depth
<1>6. VM = 1 BY <1>4, <1>5 DEF VM, Frames
<1> QED BY <1>2, <1>3, <1>4, <1>5, <1>6 DEF On

\* The queues of the VM
LEMMA QueueIs ==
  ASSUME NEW a \in [VMs -> Queues]
  PROVE  /\ 1 \in VMs /\ a[1] \in Queues
         /\ a[1].micro \in Seq(Jobs1) /\ a[1].tick \in Seq(Ids) /\ a[1].imm \in Seq(Ids)
<1>1. 1 \in VMs BY JSAssumption DEF VMs
<1>2. a[1] \in Queues BY <1>1
<1> QED BY <1>1, <1>2 DEF Queues

\* The queues with others for the one VM
LEMMA QueueSet ==
  ASSUME NEW a \in [VMs -> Queues], NEW r \in Queues, NEW b, b = [a EXCEPT ![1] = r]
  PROVE  b \in [VMs -> Queues] /\ b[1] = r
BY QueueIs

\* One of the queues changes.
WithMicro(a, x) == [a EXCEPT ![1].micro = x]

\* The jobs change, all else stays.
LEMMA MicroSet ==
  ASSUME NEW a \in [VMs -> Queues], NEW x \in Seq(Jobs1)
  PROVE  /\ WithMicro(a, x) \in [VMs -> Queues]
         /\ WithMicro(a, x)[1].micro = x
         /\ WithMicro(a, x)[1].tick = a[1].tick
         /\ WithMicro(a, x)[1].imm = a[1].imm
         /\ WithMicro(a, x)[1].pumping = a[1].pumping
         /\ WithMicro(a, x)[1].processing = a[1].processing
<1>0. PICK b : b = WithMicro(a, x) OBVIOUS
<1>1. a[1] \in Queues BY QueueIs
<1>2. PICK r : r = [a[1] EXCEPT !.micro = x] OBVIOUS
<1>3. /\ r \in Queues
      /\ r.micro = x /\ r.tick = a[1].tick /\ r.imm = a[1].imm
      /\ r.pumping = a[1].pumping /\ r.processing = a[1].processing
  BY <1>1, <1>2 DEF Queues
<1>4. b = [a EXCEPT ![1] = r] BY <1>0, <1>2 DEF WithMicro
<1>5. b \in [VMs -> Queues] /\ b[1] = r BY ONLY ZenonT(60), a \in [VMs -> Queues], <1>3, <1>4, QueueSet
<1> QED BY <1>0, <1>3, <1>5

WithTick(a, x) == [a EXCEPT ![1].tick = x]

\* The ticks change, all else stays.
LEMMA TickSet ==
  ASSUME NEW a \in [VMs -> Queues], NEW x \in Seq(Ids)
  PROVE  /\ WithTick(a, x) \in [VMs -> Queues]
         /\ WithTick(a, x)[1].micro = a[1].micro
         /\ WithTick(a, x)[1].tick = x
         /\ WithTick(a, x)[1].imm = a[1].imm
         /\ WithTick(a, x)[1].pumping = a[1].pumping
         /\ WithTick(a, x)[1].processing = a[1].processing
<1>0. PICK b : b = WithTick(a, x) OBVIOUS
<1>1. a[1] \in Queues BY QueueIs
<1>2. PICK r : r = [a[1] EXCEPT !.tick = x] OBVIOUS
<1>3. /\ r \in Queues
      /\ r.micro = a[1].micro /\ r.tick = x /\ r.imm = a[1].imm
      /\ r.pumping = a[1].pumping /\ r.processing = a[1].processing
  BY <1>1, <1>2 DEF Queues
<1>4. b = [a EXCEPT ![1] = r] BY <1>0, <1>2 DEF WithTick
<1>5. b \in [VMs -> Queues] /\ b[1] = r BY ONLY ZenonT(60), a \in [VMs -> Queues], <1>3, <1>4, QueueSet
<1> QED BY <1>0, <1>3, <1>5

WithImm(a, x) == [a EXCEPT ![1].imm = x]

\* The immediates change, all else stays.
LEMMA ImmSet ==
  ASSUME NEW a \in [VMs -> Queues], NEW x \in Seq(Ids)
  PROVE  /\ WithImm(a, x) \in [VMs -> Queues]
         /\ WithImm(a, x)[1].micro = a[1].micro
         /\ WithImm(a, x)[1].tick = a[1].tick
         /\ WithImm(a, x)[1].imm = x
         /\ WithImm(a, x)[1].pumping = a[1].pumping
         /\ WithImm(a, x)[1].processing = a[1].processing
<1>0. PICK b : b = WithImm(a, x) OBVIOUS
<1>1. a[1] \in Queues BY QueueIs
<1>2. PICK r : r = [a[1] EXCEPT !.imm = x] OBVIOUS
<1>3. /\ r \in Queues
      /\ r.micro = a[1].micro /\ r.tick = a[1].tick /\ r.imm = x
      /\ r.pumping = a[1].pumping /\ r.processing = a[1].processing
  BY <1>1, <1>2 DEF Queues
<1>4. b = [a EXCEPT ![1] = r] BY <1>0, <1>2 DEF WithImm
<1>5. b \in [VMs -> Queues] /\ b[1] = r BY ONLY ZenonT(60), a \in [VMs -> Queues], <1>3, <1>4, QueueSet
<1> QED BY <1>0, <1>3, <1>5

WithPumping(a, x) == [a EXCEPT ![1].pumping = x]

\* The guard of the pump changes, all else stays.
LEMMA PumpingSet ==
  ASSUME NEW a \in [VMs -> Queues], NEW x \in BOOLEAN
  PROVE  /\ WithPumping(a, x) \in [VMs -> Queues]
         /\ WithPumping(a, x)[1].micro = a[1].micro
         /\ WithPumping(a, x)[1].tick = a[1].tick
         /\ WithPumping(a, x)[1].imm = a[1].imm
         /\ WithPumping(a, x)[1].pumping = x
         /\ WithPumping(a, x)[1].processing = a[1].processing
<1>0. PICK b : b = WithPumping(a, x) OBVIOUS
<1>1. a[1] \in Queues BY QueueIs
<1>2. PICK r : r = [a[1] EXCEPT !.pumping = x] OBVIOUS
<1>3. /\ r \in Queues
      /\ r.micro = a[1].micro /\ r.tick = a[1].tick /\ r.imm = a[1].imm
      /\ r.pumping = x /\ r.processing = a[1].processing
  BY <1>1, <1>2 DEF Queues
<1>4. b = [a EXCEPT ![1] = r] BY <1>0, <1>2 DEF WithPumping
<1>5. b \in [VMs -> Queues] /\ b[1] = r BY ONLY a \in [VMs -> Queues], <1>3, <1>4, QueueSet
<1> QED BY <1>0, <1>3, <1>5

WithProcessing(a, x) == [a EXCEPT ![1].processing = x]

\* The guard of the jobs changes, all else stays.
LEMMA ProcessingSet ==
  ASSUME NEW a \in [VMs -> Queues], NEW x \in BOOLEAN
  PROVE  /\ WithProcessing(a, x) \in [VMs -> Queues]
         /\ WithProcessing(a, x)[1].micro = a[1].micro
         /\ WithProcessing(a, x)[1].tick = a[1].tick
         /\ WithProcessing(a, x)[1].imm = a[1].imm
         /\ WithProcessing(a, x)[1].pumping = a[1].pumping
         /\ WithProcessing(a, x)[1].processing = x
<1>0. PICK b : b = WithProcessing(a, x) OBVIOUS
<1>1. a[1] \in Queues BY QueueIs
<1>2. PICK r : r = [a[1] EXCEPT !.processing = x] OBVIOUS
<1>3. /\ r \in Queues
      /\ r.micro = a[1].micro /\ r.tick = a[1].tick /\ r.imm = a[1].imm
      /\ r.pumping = a[1].pumping /\ r.processing = x
  BY <1>1, <1>2 DEF Queues
<1>4. b = [a EXCEPT ![1] = r] BY <1>0, <1>2 DEF WithProcessing
<1>5. b \in [VMs -> Queues] /\ b[1] = r BY ONLY ZenonT(60), a \in [VMs -> Queues], <1>3, <1>4, QueueSet
<1> QED BY <1>0, <1>3, <1>5

WithLeftover(a, x) == [a EXCEPT ![1].leftover = x]

\* A frame stays on the call stack of the VM, all else stays.
LEMMA LeftoverSet ==
  ASSUME NEW a \in [VMs -> Queues], NEW x \in BOOLEAN
  PROVE  /\ WithLeftover(a, x) \in [VMs -> Queues]
         /\ WithLeftover(a, x)[1].micro = a[1].micro
         /\ WithLeftover(a, x)[1].tick = a[1].tick
         /\ WithLeftover(a, x)[1].imm = a[1].imm
         /\ WithLeftover(a, x)[1].pumping = a[1].pumping
         /\ WithLeftover(a, x)[1].processing = a[1].processing
<1>0. PICK b : b = WithLeftover(a, x) OBVIOUS
<1>1. a[1] \in Queues BY QueueIs
<1>2. PICK r : r = [a[1] EXCEPT !.leftover = x] OBVIOUS
<1>3. /\ r \in Queues
      /\ r.micro = a[1].micro /\ r.tick = a[1].tick /\ r.imm = a[1].imm
      /\ r.pumping = a[1].pumping /\ r.processing = a[1].processing
  BY <1>1, <1>2 DEF Queues
<1>4. b = [a EXCEPT ![1] = r] BY <1>0, <1>2 DEF WithLeftover
<1>5. b \in [VMs -> Queues] /\ b[1] = r BY ONLY a \in [VMs -> Queues], <1>3, <1>4, QueueSet
<1> QED BY <1>0, <1>3, <1>5

-----------------------------------------------------------------------------
(***************************************************************************)
(* The calls that give out a number.                                       *)
(***************************************************************************)

\* Whatever the queues become, the ticks keep their place.
TicksKeep(m, tk) ==
  \A tk2, x :
    x \in Seq(Jobs1) /\ (\A t : InL(tk, t) => InL(tk2, t)) /\ (kind'[New] = "tick" => InL(tk2, New))
    => TicksOK(stack', awaited', outside', kind', runs', tk2, m \o x)

\* What holds of the state behind a call that gave out the number New
Given(k) ==
  /\ DataButNew(kind', runs', q[1].micro, q[1].tick, q[1].imm, pr, reactions, items,
                reading, readDone, New)
  /\ kind'[New] = k /\ New \in Ids /\ VM = 1
  /\ vms' = 1 /\ request' = 1
  /\ outside' \subseteq {c \in Ids : kind'[c] # "none"}
  /\ Shape(stack') /\ stack' = stack
  /\ \A m, ab : EndOK(stack', ab, m, kind')
  /\ TicksKeep(q[1].micro, q[1].tick)

\* Every call that gives out a number does this.
LEMMA Created ==
  ASSUME Page, NEW k \in Callbacks \cup Promises, Create(k)
  PROVE  Given(k)
<1>1. InCode /\ ~Ended BY DEF Create, InCode
<1>2. /\ Len(stack) \in Nat \ {0} /\ Depth = Len(stack)
      /\ Top = stack[Len(stack)] /\ Top \in Frames /\ VM = 1
  BY <1>1, TopIs
<1>3. Used < MaxIds BY DEF Create, Room, Page
<1>4. PICK new : new = New OBVIOUS
<1>5. new = Used + 1 BY <1>4 DEF New
<1>6. Data(kind, runs, q[1].micro, q[1].tick, q[1].imm, pr, reactions, items, reading, readDone)
  BY DEF Page
<1>7. kind' = [kind EXCEPT ![new] = k] /\ k \in Kinds \ {"none"}
  BY <1>4 DEF Create, Kinds, Callbacks, Promises
<1>8. PICK used : used = Used OBVIOUS
<1>9. used = GivenOut(kind) BY <1>8 DEF Used, GivenOut
<1>10. PICK kd2 : kd2 = kind' OBVIOUS
<1>11. kd2 = [kind EXCEPT ![new] = k] BY <1>7, <1>10
<1>12. used < MaxIds BY <1>3, <1>8
<1>13. PICK m, tk, im : m = q[1].micro /\ tk = q[1].tick /\ im = q[1].imm OBVIOUS
<1>14. Data(kind, runs, m, tk, im, pr, reactions, items, reading, readDone) BY <1>6, <1>13
<1>15. /\ DataButNew(kd2, runs, m, tk, im, pr, reactions, items, reading, readDone, new)
       /\ kd2[new] = k /\ kind[new] = "none"
       /\ \A c \in Ids : c # new => kd2[c] = kind[c]
       /\ \A c \in Ids : kind[c] # "none" => c < new
  <2>1. Gives(kind, new, k, kd2) BY <1>5, <1>7, <1>8, <1>9, <1>11, <1>12 DEF Gives
  <2> QED BY ONLY <1>14, <2>1, NumberGiven
<1>17. new \in Ids BY <1>15 DEF DataButNew
<1>18. /\ vms' = 1 /\ request' = 1 /\ stack' = stack /\ runs' = runs /\ awaited' = awaited
       /\ outside' = IF InJob THEN outside ELSE outside \cup {new}
  BY <1>4 DEF Create, Page
<1>19. outside \subseteq {c \in Ids : kind[c] # "none"} BY DEF Page
<1>20. kd2[new] # "none" BY <1>7, <1>15
<1>21. \A c \in Ids : kind[c] # "none" => kd2[c] # "none" BY <1>15, <1>20
<1>22. outside' \subseteq {c \in Ids : kd2[c] # "none"}
  BY <1>17, <1>18, <1>19, <1>20, <1>21
<1>23. Shape(stack) BY DEF Page
<1>24. Top.k \in Code /\ Top.ph = "code"
  BY <1>1, <1>2 DEF InCode, CodeFrames, Frames, Code
<1>25. ASSUME NEW n, NEW ab PROVE EndOK(stack', ab, n, kind')
  <2>1. Len(stack) = 1 => stack[1].k = "main" BY <1>23 DEF Shape
  <2>2. EndOK(stack, ab, n, kd2) BY <1>2, <1>24, <2>1, CodeEnds
  <2> QED BY <1>10, <1>18, <2>2
<1>26. ~InJob => OnPage(stack)
  <2> SUFFICES ASSUME ~InJob PROVE OnPage(stack) OBVIOUS
  <2>1. ~On(stack, "micro") BY <1>2 DEF InJob, On
  <2>2. Top.k # "job"
    <3>1. Len(stack) \in 1..Len(stack) BY <1>2
    <3>2. stack[Len(stack)].k = "job" => On(stack, "micro") BY <1>23, <3>1, JobBelow DEF On
    <3> QED BY <1>2, <2>1, <3>2
  <2> QED BY <1>2, <1>24, <2>1, <2>2 DEF OnPage, PageCode, Code
<1>27. ASSUME NEW tk2, NEW x \in Seq(Jobs1), \A t : InL(tk, t) => InL(tk2, t),
              k = "tick" => InL(tk2, new)
       PROVE  TicksOK(stack, awaited, outside', kd2, runs, tk2, m \o x)
  <2>1. TicksOK(stack, awaited, outside, kind, runs, tk, m) BY <1>13 DEF Page
  <2>2. kind[new] = "none" /\ kd2[new] = k BY <1>15
  <2>3. runs[new] = 0 /\ MicroOK(m, kind, runs)
    BY <1>14, <1>15 DEF Data, DataButNew, Waits
  <2>4. \/ outside' = outside
        \/ outside' = outside \cup {new} /\ (kd2[new] = "tick" => OnPage(stack) /\ InL(tk2, new))
    BY <1>18, <1>26, <1>27, <2>2
  <2>5. PICK out2 : out2 = outside' OBVIOUS
  <2>6. \/ out2 = outside
        \/ out2 = outside \cup {new} /\ (kd2[new] = "tick" => OnPage(stack) /\ InL(tk2, new))
    BY <2>4, <2>5
  <2>7. /\ \A c \in Ids : c # new => kd2[c] = kind[c]
        /\ \A c \in Ids : kind[c] # "none" => c < new
    BY <1>15
  <2>8. TicksOK(stack, awaited, out2, kd2, runs, tk2, m \o x)
    BY ONLY ZenonT(60), <1>17, <1>19, <1>27, <2>1, <2>2, <2>3, <2>6, <2>7, x \in Seq(Jobs1), TicksNew
  <2> QED BY <2>5, <2>8
<1>28. TicksKeep(m, tk)
  <2>1. kind'[New] = k BY <1>4, <1>10, <1>15
  <2> QED BY <1>4, <1>10, <1>18, <1>27, <2>1 DEF TicksKeep
<1>29. DataButNew(kind', runs', m, tk, im, pr, reactions, items, reading, readDone, New)
  BY <1>4, <1>10, <1>15, <1>18
<1>30. kind'[New] = k /\ New \in Ids BY <1>4, <1>10, <1>15, <1>17
<1> QED BY <1>2, <1>10, <1>13, <1>18, <1>22, <1>23, <1>25, <1>28, <1>29, <1>30 DEF Given

\* The queues stay.
LEMMA TicksKept ==
  ASSUME NEW m \in Seq(Jobs1), NEW tk, TicksKeep(m, tk), kind'[New] # "tick"
  PROVE  /\ TicksOK(stack', awaited', outside', kind', runs', tk, m)
         /\ \A x \in Seq(Jobs1) : TicksOK(stack', awaited', outside', kind', runs', tk, m \o x)
<1>1. \A x \in Seq(Jobs1) : TicksOK(stack', awaited', outside', kind', runs', tk, m \o x)
  BY DEF TicksKeep
<1>2. <<>> \in Seq(Jobs1) /\ m \o <<>> = m OBVIOUS
<1>3. TicksOK(stack', awaited', outside', kind', runs', tk, m \o <<>>) BY <1>1, <1>2
<1> QED BY <1>1, <1>2, <1>3

\* setTimeout and setInterval: the callback waits in jsTimerItems.
LEMMA SetTimerStep ==
  ASSUME Page, NEW k \in {"timeout", "interval"}, SetTimer(k)
  PROVE  Page'
<1>1. Given(k) BY Created DEF SetTimer, Callbacks
<1>2. /\ q' = q /\ pr' = pr /\ reactions' = reactions /\ fired' = fired
      /\ reading' = reading /\ readDone' = readDone
      /\ items' = [items EXCEPT ![New] = "ref"]
  BY DEF SetTimer
<1>3. Data(kind', runs', q[1].micro, q[1].tick, q[1].imm, pr, reactions,
           [items EXCEPT ![New] = "ref"], reading, readDone)
  BY <1>1, TimerGiven DEF Given
<1>4. q[1].micro \in Seq(Jobs1) /\ q \in [VMs -> Queues] BY QueueIs DEF Page
<1>5. TicksOK(stack', awaited', outside', kind', runs', q[1].tick, q[1].micro)
  BY <1>1, <1>4, TicksKept DEF Given
<1>6. Guards(stack', q'[1]) BY <1>1, <1>2 DEF Page, Given
<1>7. fired' \in Seq(Ids) BY <1>2 DEF Page
<1> QED BY <1>1, <1>2, <1>3, <1>4, <1>5, <1>6, <1>7 DEF Page, Given

\* setImmediate: the callback waits behind the other immediates.
LEMMA SetImmediateStep ==
  ASSUME Page, SetImmediate
  PROVE  Page'
<1>1. Given("immediate") BY Created DEF SetImmediate, Callbacks
<1>2. /\ q' = [q EXCEPT ![1].imm = Append(q[1].imm, New)]
      /\ pr' = pr /\ reactions' = reactions /\ items' = items /\ fired' = fired
      /\ reading' = reading /\ readDone' = readDone
  BY <1>1 DEF SetImmediate, Given, goroutines
<1>3. q \in [VMs -> Queues] /\ q[1].micro \in Seq(Jobs1) /\ q[1].imm \in Seq(Ids)
  BY QueueIs DEF Page
<1>4. PICK x \in Seq(Ids) : x = Append(q[1].imm, New)
  <2>1. New \in Ids BY <1>1 DEF Given
  <2>2. Append(q[1].imm, New) \in Seq(Ids) BY <1>3, <2>1, AppendIs
  <2> QED BY <2>2
<1>5. PICK b : b = q' OBVIOUS
<1>6. b = WithImm(q, x) BY <1>2, <1>4, <1>5 DEF WithImm
<1>7. /\ b \in [VMs -> Queues]
      /\ b[1].micro = q[1].micro /\ b[1].tick = q[1].tick /\ b[1].imm = x
      /\ b[1].pumping = q[1].pumping /\ b[1].processing = q[1].processing
  BY ONLY <1>3, <1>6, ImmSet
<1>8. Data(kind', runs', q[1].micro, q[1].tick, x, pr, reactions, items, reading, readDone)
  BY <1>1, <1>4, ImmediateGiven DEF Given
<1>9. TicksOK(stack', awaited', outside', kind', runs', q[1].tick, q[1].micro)
  BY <1>1, <1>3, TicksKept DEF Given
<1>10. Guards(stack', b[1]) BY <1>1, <1>7 DEF Page, Given, Guards
<1>11. fired' \in Seq(Ids) BY <1>2 DEF Page
<1> QED BY <1>1, <1>2, <1>5, <1>7, <1>8, <1>9, <1>10, <1>11 DEF Page, Given

\* process.nextTick: it waits in the tick queue, ahead of what is given later.
LEMMA NextTickStep ==
  ASSUME Page, NextTick
  PROVE  Page'
<1>1. Given("tick") BY Created DEF NextTick, Callbacks
<1>2. /\ q' = [q EXCEPT ![1].tick = Append(q[1].tick, New)]
      /\ pr' = pr /\ reactions' = reactions /\ items' = items /\ fired' = fired
      /\ reading' = reading /\ readDone' = readDone
  BY <1>1 DEF NextTick, Given, goroutines
<1>3. q \in [VMs -> Queues] /\ q[1].micro \in Seq(Jobs1) /\ q[1].tick \in Seq(Ids)
  BY QueueIs DEF Page
<1>4. PICK tk \in Seq(Ids) : tk = q[1].tick BY <1>3
<1>5. PICK x \in Seq(Ids) : x = Append(tk, New)
  <2>1. New \in Ids BY <1>1 DEF Given
  <2>2. Append(tk, New) \in Seq(Ids) BY <2>1, AppendIs
  <2> QED BY <2>2
<1>6. PICK b : b = q' OBVIOUS
<1>7. b = WithTick(q, x) BY <1>2, <1>4, <1>5, <1>6 DEF WithTick
<1>8. /\ b \in [VMs -> Queues]
      /\ b[1].micro = q[1].micro /\ b[1].tick = x /\ b[1].imm = q[1].imm
      /\ b[1].pumping = q[1].pumping /\ b[1].processing = q[1].processing
  BY ONLY <1>3, <1>7, TickSet
<1>9. Data(kind', runs', q[1].micro, x, q[1].imm, pr, reactions, items, reading, readDone)
  BY <1>1, <1>4, <1>5, TickGiven DEF Given
<1>10. (\A t : InL(tk, t) => InL(x, t)) /\ InL(x, New)
  <2>1. PICK N \in Nat : N = Len(tk) OBVIOUS
  <2>2. New \in Ids BY <1>1 DEF Given
  <2>3. /\ Len(x) = N + 1 /\ x[N + 1] = New /\ \A i \in 1..N : x[i] = tk[i]
    BY <1>5, <2>1, <2>2, AppendIs
  <2>4. N + 1 \in 1..N + 1 /\ \A i \in 1..N : i \in 1..N + 1 OBVIOUS
  <2> QED BY <2>1, <2>3, <2>4 DEF InL
<1>11. TicksOK(stack', awaited', outside', kind', runs', x, q[1].micro)
  <2>1. PICK m \in Seq(Jobs1) : m = q[1].micro BY <1>3
  <2>2. <<>> \in Seq(Jobs1) /\ m \o <<>> = m OBVIOUS
  <2>3. TicksKeep(m, tk) BY <1>1, <1>4, <2>1 DEF Given
  <2>4. TicksOK(stack', awaited', outside', kind', runs', x, m \o <<>>)
    BY <1>10, <2>2, <2>3 DEF TicksKeep
  <2> QED BY <2>1, <2>2, <2>4
<1>12. Guards(stack', b[1]) BY <1>1, <1>8 DEF Page, Given, Guards
<1>13. fired' \in Seq(Ids) BY <1>2 DEF Page
<1> QED BY <1>1, <1>2, <1>6, <1>8, <1>9, <1>11, <1>12, <1>13 DEF Page, Given

\* new Promise: its number is no callback.
LEMMA NewPromiseStep ==
  ASSUME Page, NewPromise
  PROVE  Page'
<1>1. Given("deferred") BY Created DEF NewPromise, Promises
<1>2. /\ q' = q /\ pr' = [pr EXCEPT ![New] = "pending"]
      /\ reactions' = reactions /\ items' = items /\ fired' = fired
      /\ reading' = reading /\ readDone' = readDone
  BY DEF NewPromise, goroutines
<1>3. DataButNew(kind', runs', q[1].micro, q[1].tick, q[1].imm, pr', reactions, items,
                 reading, readDone, New)
  BY <1>1, <1>2, PromiseGiven DEF Given
<1>4. Data(kind', runs', q[1].micro, q[1].tick, q[1].imm, pr', reactions, items, reading, readDone)
  BY <1>1, <1>3, DataNew DEF Given
<1>5. q[1].micro \in Seq(Jobs1) /\ q \in [VMs -> Queues] BY QueueIs DEF Page
<1>6. TicksOK(stack', awaited', outside', kind', runs', q[1].tick, q[1].micro)
  BY <1>1, <1>5, TicksKept DEF Given
<1>7. Guards(stack', q'[1]) BY <1>1, <1>2 DEF Page, Given
<1>8. fired' \in Seq(Ids) BY <1>2 DEF Page
<1> QED BY <1>1, <1>2, <1>4, <1>5, <1>6, <1>7, <1>8 DEF Page, Given

\* A new callback that is a job at once
LEMMA JobNow ==
  ASSUME Page, NEW k \in Callbacks \ {"tick"}, Given(k),
         NEW p, DataButNew(kind', runs', q[1].micro, q[1].tick, q[1].imm, p, reactions, items,
                           reading, readDone, New),
         NEW b, b = [q EXCEPT ![1].micro = Append(q[1].micro, Job(1, New))]
  PROVE  /\ b \in [VMs -> Queues] /\ Guards(stack', b[1])
         /\ Data(kind', runs', b[1].micro, b[1].tick, b[1].imm, p, reactions, items,
                 reading, readDone)
         /\ TicksOK(stack', awaited', outside', kind', runs', b[1].tick, b[1].micro)
<1>1. q \in [VMs -> Queues] /\ q[1].micro \in Seq(Jobs1) BY QueueIs DEF Page
<1>2. PICK m \in Seq(Jobs1) : m = q[1].micro BY <1>1
<1>3. PICK x : x = Append(m, Job(1, New)) OBVIOUS
<1>4. kind'[New] = k /\ k \in Callbacks BY DEF Given
<1>5. /\ x = m \o Jobs(1, <<New>>)
      /\ Data(kind', runs', x, q[1].tick, q[1].imm, p, reactions, items, reading, readDone)
  BY <1>2, <1>3, <1>4, JobGiven
<1>6. PICK j \in Seq(Jobs1) : j = Jobs(1, <<New>>)
  <2>1. <<New>> \in Seq(Ids) BY DEF Given
  <2> QED BY <2>1, JobsIs
<1>7. x \in Seq(Jobs1) BY <1>5, <1>6
<1>8. b = WithMicro(q, x) BY <1>2, <1>3 DEF WithMicro
<1>9. /\ b \in [VMs -> Queues]
      /\ b[1].micro = x /\ b[1].tick = q[1].tick /\ b[1].imm = q[1].imm
      /\ b[1].pumping = q[1].pumping /\ b[1].processing = q[1].processing
  BY ONLY <1>1, <1>7, <1>8, MicroSet
<1>10. TicksOK(stack', awaited', outside', kind', runs', q[1].tick, m \o j)
  BY <1>2, <1>4, TicksKept DEF Given
<1>11. Guards(stack', b[1]) BY <1>9 DEF Page, Given, Guards
<1> QED BY <1>5, <1>6, <1>9, <1>10, <1>11

\* then: the callback waits for the promise, or is a job if that is settled.
LEMMA ThenStep ==
  ASSUME Page, NEW p \in {0} \cup Ids, Then(p)
  PROVE  Page'
<1>1. Given("reaction") BY Created DEF Then, Callbacks
<1>2. /\ pr' = [pr EXCEPT ![New] = "pending"]
      /\ items' = items /\ fired' = fired /\ reading' = reading /\ readDone' = readDone
  BY DEF Then, goroutines
<1>3. DataButNew(kind', runs', q[1].micro, q[1].tick, q[1].imm, pr', reactions, items,
                 reading, readDone, New)
  BY <1>1, <1>2, PromiseGiven DEF Given
<1>4. fired' \in Seq(Ids) BY <1>2 DEF Page
<1>5. CASE p # 0 /\ pr[p] = "pending"
  <2>1. reactions' = [reactions EXCEPT ![p] = Append(@, New)] /\ q' = q BY <1>5 DEF Then
  <2>2. p \in Ids BY <1>5
  <2>3. pr'[p] = "pending"
    <3>1. pr \in [Ids -> States] BY DEF Page, Data
    <3> QED BY <1>2, <1>5, <2>2, <3>1
  <2>4. Data(kind', runs', q[1].micro, q[1].tick, q[1].imm, pr', reactions', items,
             reading, readDone)
    BY <1>1, <1>3, <2>1, <2>2, <2>3, ReactionWaits DEF Given
  <2>5. q[1].micro \in Seq(Jobs1) /\ q \in [VMs -> Queues] BY QueueIs DEF Page
  <2>6. TicksOK(stack', awaited', outside', kind', runs', q[1].tick, q[1].micro)
    BY <1>1, <2>5, TicksKept DEF Given
  <2>7. Guards(stack', q'[1]) BY <1>1, <2>1 DEF Page, Given
  <2> QED BY <1>1, <1>2, <1>4, <2>1, <2>4, <2>5, <2>6, <2>7 DEF Page, Given
<1>6. CASE ~(p # 0 /\ pr[p] = "pending")
  <2>1. reactions' = reactions /\ q' = [q EXCEPT ![1].micro = Append(q[1].micro, Job(1, New))]
    BY <1>1, <1>6 DEF Then, Given
  <2>2. "reaction" \in Callbacks \ {"tick"} BY DEF Callbacks
  <2>3. /\ q' \in [VMs -> Queues] /\ Guards(stack', q'[1])
        /\ Data(kind', runs', q'[1].micro, q'[1].tick, q'[1].imm, pr', reactions, items,
                reading, readDone)
        /\ TicksOK(stack', awaited', outside', kind', runs', q'[1].tick, q'[1].micro)
    BY <1>1, <1>3, <2>1, <2>2, JobNow
  <2> QED BY <1>1, <1>2, <1>4, <2>1, <2>3 DEF Page, Given
<1> QED BY <1>5, <1>6

\* fs.readFile: the callback waits for the read, or is a job with an error.
LEMMA ReadFileStep ==
  ASSUME Page, ReadFile
  PROVE  Page'
<1>1. Given("read") BY Created DEF ReadFile, Callbacks
<1>2. /\ pr' = pr /\ reactions' = reactions /\ items' = items /\ fired' = fired
      /\ readDone' = readDone
  BY DEF ReadFile
<1>3. fired' \in Seq(Ids) BY <1>2 DEF Page
<1>4. CASE Len(readDone) >= ReadQueue - 1
  <2>1. reading' = reading /\ q' = [q EXCEPT ![1].micro = Append(q[1].micro, Job(1, New))]
    BY <1>1, <1>4 DEF ReadFile, Given
  <2>2. "read" \in Callbacks \ {"tick"} BY DEF Callbacks
  <2>3. /\ q' \in [VMs -> Queues] /\ Guards(stack', q'[1])
        /\ Data(kind', runs', q'[1].micro, q'[1].tick, q'[1].imm, pr, reactions, items,
                reading, readDone)
        /\ TicksOK(stack', awaited', outside', kind', runs', q'[1].tick, q'[1].micro)
    BY <1>1, <2>1, <2>2, JobNow DEF Given
  <2> QED BY <1>1, <1>2, <1>3, <2>1, <2>3 DEF Page, Given
<1>5. CASE ~(Len(readDone) >= ReadQueue - 1)
  <2>1. q' = q /\ reading' = reading \cup {<<1, New>>} BY <1>5 DEF ReadFile, Page
  <2>2. Data(kind', runs', q[1].micro, q[1].tick, q[1].imm, pr, reactions, items,
             reading', readDone)
    BY <1>1, <2>1, ReadGiven DEF Given
  <2>3. q[1].micro \in Seq(Jobs1) /\ q \in [VMs -> Queues] BY QueueIs DEF Page
  <2>4. TicksOK(stack', awaited', outside', kind', runs', q[1].tick, q[1].micro)
    BY <1>1, <2>3, TicksKept DEF Given
  <2>5. Guards(stack', q'[1]) BY <1>1, <2>1 DEF Page, Given
  <2> QED BY <1>1, <1>2, <1>3, <2>1, <2>2, <2>3, <2>4, <2>5 DEF Page, Given
<1> QED BY <1>4, <1>5

-----------------------------------------------------------------------------
(***************************************************************************)
(* The other calls.                                                        *)
(***************************************************************************)
\* Code of the page is innermost: nothing is claimed of the end of the page.
LEMMA CodeNow ==
  ASSUME Page, InCode
  PROVE  /\ ~Ended /\ VM = 1 /\ Top = stack[Len(stack)] /\ Len(stack) \in Nat \ {0}
         /\ Top.k \in Code /\ Top.ph = "code"
         /\ \A ab, m, kd : EndOK(stack, ab, m, kd)
<1>1. ~Ended BY DEF InCode
<1>2. /\ Len(stack) \in Nat \ {0} /\ Top = stack[Len(stack)] /\ Top \in Frames /\ VM = 1
  BY <1>1, TopIs
<1>3. Top.k \in Code /\ Top.ph = "code" BY <1>2 DEF InCode, CodeFrames, Frames, Code
<1>4. Len(stack) = 1 => stack[1].k = "main" BY DEF Page, Shape
<1>5. \A ab, m, kd : EndOK(stack, ab, m, kd) BY <1>2, <1>3, <1>4, CodeEnds
<1> QED BY <1>1, <1>2, <1>3, <1>5

\* The jobs become more.
LEMMA MicroMore ==
  ASSUME Page, NEW x \in Seq(Jobs1), NEW b, b = WithMicro(q, q[1].micro \o x)
  PROVE  /\ b \in [VMs -> Queues] /\ b[1].micro = q[1].micro \o x
         /\ b[1].tick = q[1].tick /\ b[1].imm = q[1].imm
         /\ b[1].pumping = q[1].pumping /\ b[1].processing = q[1].processing
         /\ \A t : Ahead(q[1].micro, kind, t) => Ahead(b[1].micro, kind, t)
<1>1. q \in [VMs -> Queues] /\ q[1].micro \in Seq(Jobs1) BY QueueIs DEF Page
<1>2. PICK m \in Seq(Jobs1) : m = q[1].micro BY <1>1
<1>3. PICK n \in Seq(Jobs1) : n = m \o x
  <2>1. m \o x \in Seq(Jobs1) OBVIOUS
  <2> QED BY <2>1
<1>4. b = WithMicro(q, n) BY <1>2, <1>3
<1>5. /\ b \in [VMs -> Queues] /\ b[1].micro = n
      /\ b[1].tick = q[1].tick /\ b[1].imm = q[1].imm
      /\ b[1].pumping = q[1].pumping /\ b[1].processing = q[1].processing
  BY ONLY SMTT(30), <1>1, <1>4, n \in Seq(Jobs1), MicroSet
<1>6. \A t : Ahead(m, kind, t) => Ahead(n, kind, t) BY <1>3, AheadMore
<1> QED BY <1>2, <1>3, <1>5, <1>6

\* A promise that is settled
LEMMA Settles ==
  ASSUME Page, NEW p \in Ids, NEW outcome \in {"fulfilled", "rejected"}, pr[p] = "pending",
         q' = WithMicro(q, q[1].micro \o Jobs(1, reactions[p])),
         pr' = [pr EXCEPT ![p] = outcome], reactions' = [reactions EXCEPT ![p] = <<>>]
  PROVE  /\ q' \in [VMs -> Queues]
         /\ q'[1].tick = q[1].tick
         /\ q'[1].pumping = q[1].pumping /\ q'[1].processing = q[1].processing
         /\ \A t : Ahead(q[1].micro, kind, t) => Ahead(q'[1].micro, kind, t)
         /\ Data(kind, runs, q'[1].micro, q'[1].tick, q'[1].imm, pr', reactions', items,
                 reading, readDone)
<1>1. PICK l \in Seq(Ids) : l = reactions[p] BY DEF Page, Data, ReactionsOK
<1>2. PICK x \in Seq(Jobs1) : x = Jobs(1, l)
  <2>1. Jobs(1, l) \in Seq(Jobs1) BY JobsIs
  <2> QED BY <2>1
<1>3. PICK b : b = q' OBVIOUS
<1>4. b = WithMicro(q, q[1].micro \o x) BY <1>1, <1>2, <1>3
<1>5. /\ b \in [VMs -> Queues] /\ b[1].micro = q[1].micro \o x
      /\ b[1].tick = q[1].tick /\ b[1].imm = q[1].imm
      /\ b[1].pumping = q[1].pumping /\ b[1].processing = q[1].processing
      /\ \A t : Ahead(q[1].micro, kind, t) => Ahead(b[1].micro, kind, t)
  BY ONLY Page, <1>4, x \in Seq(Jobs1), MicroMore
<1>6. Data(kind, runs, q[1].micro \o Jobs(1, reactions[p]), q[1].tick, q[1].imm,
           [pr EXCEPT ![p] = outcome], [reactions EXCEPT ![p] = <<>>], items, reading, readDone)
  BY ReactionsMove DEF Page
<1> QED BY <1>1, <1>2, <1>3, <1>5, <1>6

\* resolve and reject: the reactions of the promise become jobs.
LEMMA ResolveStep ==
  ASSUME Page, NEW p \in Ids, NEW outcome \in {"fulfilled", "rejected"}, Resolve(p, outcome)
  PROVE  Page'
<1>1. VM = 1 /\ \A ab, m, kd : EndOK(stack, ab, m, kd) BY CodeNow DEF Resolve
<1>2. /\ q' = WithMicro(q, q[1].micro \o Jobs(1, reactions[p]))
      /\ pr' = [pr EXCEPT ![p] = outcome] /\ reactions' = [reactions EXCEPT ![p] = <<>>]
      /\ pr[p] = "pending"
  BY <1>1 DEF Resolve, Settle, WithMicro
<1>3. /\ q' \in [VMs -> Queues]
      /\ q'[1].tick = q[1].tick
      /\ q'[1].pumping = q[1].pumping /\ q'[1].processing = q[1].processing
      /\ \A t : Ahead(q[1].micro, kind, t) => Ahead(q'[1].micro, kind, t)
      /\ Data(kind, runs, q'[1].micro, q'[1].tick, q'[1].imm, pr', reactions', items,
              reading, readDone)
  BY <1>2, Settles
<1>4. /\ stack' = stack /\ kind' = kind /\ items' = items /\ fired' = fired
      /\ reading' = reading /\ readDone' = readDone /\ vms' = vms /\ request' = request
      /\ runs' = runs /\ outside' = outside /\ awaited' = awaited /\ aborted' = aborted
  BY DEF Resolve, goroutines, history
<1>5. TicksOK(stack, awaited, outside, kind, runs, q[1].tick, q'[1].micro)
  BY <1>3, TicksStay DEF Page
<1>6. Guards(stack, q'[1]) BY <1>3 DEF Page, Guards
<1> QED BY <1>1, <1>3, <1>4, <1>5, <1>6 DEF Page

\* clearTimeout, clearInterval, ref and unref
LEMMA ItemsStep ==
  ASSUME Page, NEW c \in Ids, items[c] # "none", NEW r \in {"none", "ref", "unref"},
         items' = [items EXCEPT ![c] = r],
         UNCHANGED <<loop, promises, fired, reading, readDone, vms, request, history>>
  PROVE  Page'
<1>1. /\ stack' = stack /\ q' = q /\ kind' = kind /\ pr' = pr /\ reactions' = reactions
      /\ fired' = fired /\ reading' = reading /\ readDone' = readDone
      /\ vms' = vms /\ request' = request
      /\ runs' = runs /\ outside' = outside /\ awaited' = awaited /\ aborted' = aborted
  BY DEF loop, promises, history
<1>2. items \in [Ids -> {"none", "ref", "unref"}] BY DEF Page, Data, ItemsOK
<1>3. PICK it2 \in [Ids -> {"none", "ref", "unref"}] : it2 = items' BY <1>2
<1>4. \A u \in Ids : it2[u] # "none" => items[u] # "none" BY <1>2, <1>3
<1>5. Data(kind, runs, q[1].micro, q[1].tick, q[1].imm, pr, reactions, it2, reading, readDone)
  BY <1>4, ItemsChange DEF Page
<1> QED BY <1>1, <1>3, <1>5 DEF Page

\* clearTimeout and clearInterval
LEMMA ClearTimerStep == ASSUME Page, NEW c \in Ids, ClearTimer(c) PROVE Page'
BY ItemsStep DEF ClearTimer

\* ref and unref
LEMMA SetRefStep == ASSUME Page, NEW c \in Ids, NEW r \in {"ref", "unref"}, SetRef(c, r) PROVE Page'
BY ItemsStep DEF SetRef

\* refresh touches the Go timer only.
LEMMA RefreshStep == ASSUME Page, NEW c \in Ids, Refresh(c) PROVE Page'
BY DEF Refresh, Page, loop, promises, history

\* clearImmediate: one immediate is gone, no other is lost or doubled.
LEMMA ClearImmediateStep ==
  ASSUME Page, NEW c \in Ids, ClearImmediate(c)
  PROVE  Page'
<1>1. VM = 1 /\ \A ab, m, kd : EndOK(stack, ab, m, kd) BY CodeNow DEF ClearImmediate
<1>2. /\ stack' = stack /\ kind' = kind /\ pr' = pr /\ reactions' = reactions
      /\ items' = items /\ fired' = fired /\ reading' = reading /\ readDone' = readDone
      /\ vms' = vms /\ request' = request
      /\ runs' = runs /\ outside' = outside /\ awaited' = awaited /\ aborted' = aborted
  BY DEF ClearImmediate, promises, goroutines, history
<1>3. q \in [VMs -> Queues] /\ q[1].imm \in Seq(Ids) BY QueueIs DEF Page
<1>4. PICK im \in Seq(Ids) : im = q[1].imm BY <1>3
<1>5. PICK i \in 1..Len(im) : q' = WithImm(q, Front([im EXCEPT ![i] = Last(im)]))
  <2>1. PICK i \in DOMAIN q[1].imm :
               q' = [q EXCEPT ![1].imm = Front([q[1].imm EXCEPT ![i] = Last(q[1].imm)])]
    BY <1>1 DEF ClearImmediate
  <2>2. i \in 1..Len(im) BY <1>4, <2>1
  <2> QED BY <1>4, <2>1, <2>2 DEF WithImm
<1>6. PICK im2 : im2 = Front([im EXCEPT ![i] = Last(im)]) OBVIOUS
<1>7. Data(kind, runs, q[1].micro, q[1].tick, im2, pr, reactions, items, reading, readDone)
  <2>1. Data(kind, runs, q[1].micro, q[1].tick, im, pr, reactions, items, reading, readDone)
    BY <1>4 DEF Page
  <2> QED BY ONLY <1>6, <2>1, i \in 1..Len(im), ImmediateCleared
<1>8. im2 \in Seq(Ids) BY <1>7 DEF Data, ListOK
<1>9. PICK b : b = q' OBVIOUS
<1>10. b = WithImm(q, im2) BY <1>5, <1>6, <1>9
<1>11. /\ b \in [VMs -> Queues]
       /\ b[1].micro = q[1].micro /\ b[1].tick = q[1].tick /\ b[1].imm = im2
       /\ b[1].pumping = q[1].pumping /\ b[1].processing = q[1].processing
  BY ONLY <1>3, <1>8, <1>10, ImmSet
<1>12. Guards(stack, b[1]) BY <1>11 DEF Page, Guards
<1> QED BY <1>1, <1>2, <1>7, <1>9, <1>11, <1>12 DEF Page

\* A frame, field by field
LEMMA FrameIs ==
  ASSUME NEW k \in {"main", "sync", "job", "pump", "micro", "drain", "await"},
         NEW id \in 0..MaxIds,
         NEW ph \in Phases
  PROVE  /\ Frame(k, 1, id, ph) \in Frames
         /\ Frame(k, 1, id, ph).k = k /\ Frame(k, 1, id, ph).ph = ph
         /\ Frame(k, 1, id, ph).id = id
BY DEF Frame, Frames

\* A frame is called.
Calls(s, k, id, ph, t) ==
  /\ k \in {"sync", "job", "pump", "micro", "drain", "await"} /\ id \in 0..MaxIds
  /\ ph \in Phases
  /\ Shape(s) /\ Len(s) > 0 /\ OnTop(s[Len(s)], Frame(k, 1, id, ph))
  /\ k = "job" => id \in Ids
  /\ t = Append(s, Frame(k, 1, id, ph))

\* The stack with the frame that is called
LEMMA Pushed ==
  ASSUME NEW s, NEW k, NEW id, NEW ph, NEW t, Calls(s, k, id, ph, t)
  PROVE  /\ Shape(t) /\ Len(t) = Len(s) + 1 /\ Len(t) \in Nat \ {0}
         /\ t[Len(t)].k = k /\ t[Len(t)].ph = ph
         /\ \A i \in 1..Len(s) : t[i] = s[i]
         /\ \A j : On(t, j) <=> On(s, j) \/ k = j
         /\ \A j : AtMostOne(s, j) /\ (k = j => ~On(s, j)) => AtMostOne(t, j)
<1>1. PICK f \in Frames : f = Frame(k, 1, id, ph) /\ f.k = k /\ f.ph = ph /\ f.id = id
  BY FrameIs DEF Calls
<1>2. s \in Seq(Frames) /\ Len(s) \in Nat /\ Len(s) # 0 BY DEF Calls, Shape
<1>3. OnTop(s[Len(s)], f) /\ (f.k = "job" => f.id \in Ids) BY <1>1 DEF Calls
<1>4. t = Append(s, f) BY <1>1 DEF Calls
<1>5. /\ Shape(t)
      /\ \A j : On(t, j) <=> On(s, j) \/ f.k = j
      /\ \A j : AtMostOne(s, j) /\ (f.k = j => ~On(s, j)) => AtMostOne(t, j)
  BY <1>2, <1>3, <1>4, PushShape DEF Calls
<1>6. /\ Len(t) = Len(s) + 1 /\ t[Len(s) + 1] = f /\ \A i \in 1..Len(s) : t[i] = s[i]
  BY <1>2, <1>4, AppendIs
<1>7. Len(t) \in Nat \ {0} BY <1>2, <1>6
<1> QED BY <1>1, <1>5, <1>6, <1>7

\* A callback that a built-in calls at once is page code like its caller.
LEMMA SyncCallStep ==
  ASSUME Page, SyncCall
  PROVE  Page'
<1>1. /\ VM = 1 /\ Top = stack[Len(stack)] /\ Len(stack) \in Nat \ {0}
      /\ Top.k \in Code /\ Top.ph = "code"
  BY CodeNow DEF SyncCall
<1>2. PICK t : t = Append(stack, Frame("sync", 1, 0, "code")) OBVIOUS
<1>3. /\ stack' = t /\ q' = q /\ kind' = kind /\ pr' = pr /\ reactions' = reactions
      /\ items' = items /\ fired' = fired /\ reading' = reading /\ readDone' = readDone
      /\ vms' = vms /\ request' = request
      /\ runs' = runs /\ outside' = outside /\ awaited' = awaited /\ aborted' = aborted
  BY <1>1, <1>2 DEF SyncCall, promises, goroutines, history
<1>4. 0 \in 0..MaxIds BY JSAssumption
<1>5. OnTop(stack[Len(stack)], Frame("sync", 1, 0, "code")) BY <1>1 DEF OnTop, Frame
<1>6. /\ Shape(t) /\ Len(t) = Len(stack) + 1 /\ Len(t) \in Nat \ {0}
      /\ t[Len(t)].k = "sync" /\ t[Len(t)].ph = "code"
      /\ \A j : On(t, j) <=> On(stack, j) \/ "sync" = j
      /\ \A j : AtMostOne(stack, j) /\ ("sync" = j => ~On(stack, j)) => AtMostOne(t, j)
  <2>1. Calls(stack, "sync", 0, "code", t) BY <1>1, <1>2, <1>4, <1>5 DEF Calls, Phases, Page
  <2> QED BY <2>1, Pushed
<1>7. EndOK(t, aborted, q[1].micro, kind)
  <2>1. Len(t) # 1 BY <1>1, <1>6
  <2>2. Len(t) \in Nat /\ Len(t) > 0 BY <1>6
  <2> QED BY <1>6, <2>1, <2>2, CodeEnds
<1>8. OnPage(stack) => OnPage(t) BY <1>6 DEF OnPage, PageCode
<1>9. TicksOK(t, awaited, outside, kind, runs, q[1].tick, q[1].micro)
  BY <1>8, TicksStay DEF Page
<1>10. Guards(t, q[1]) BY <1>6 DEF Page, Guards
<1> QED BY <1>3, <1>6, <1>7, <1>9, <1>10 DEF Page

\* await: from here on nothing is claimed of the order of ticks.
LEMMA AwaitStep ==
  ASSUME Page, NEW p \in Ids, Await(p)
  PROVE  Page'
<1>1. /\ VM = 1 /\ Top = stack[Len(stack)] /\ Len(stack) \in Nat \ {0}
      /\ Top.k = "main" /\ Top.ph = "code"
  BY CodeNow DEF Await, Code
<1>2. PICK t : t = Append(stack, Frame("await", 1, p, "loop")) OBVIOUS
<1>3. /\ stack' = t /\ q' = q /\ kind' = kind /\ pr' = pr /\ reactions' = reactions
      /\ items' = items /\ fired' = fired /\ reading' = reading /\ readDone' = readDone
      /\ vms' = vms /\ request' = request
      /\ runs' = runs /\ outside' = outside /\ awaited' = TRUE /\ aborted' = aborted
  BY <1>1, <1>2 DEF Await, promises, goroutines
<1>4. p \in 0..MaxIds BY JSAssumption DEF Ids
<1>5. OnTop(stack[Len(stack)], Frame("await", 1, p, "loop")) BY <1>1 DEF OnTop, Frame
<1>6. /\ Shape(t) /\ Len(t) = Len(stack) + 1 /\ Len(t) \in Nat \ {0}
      /\ t[Len(t)].k = "await"
      /\ \A j : On(t, j) <=> On(stack, j) \/ "await" = j
      /\ \A j : AtMostOne(stack, j) /\ ("await" = j => ~On(stack, j)) => AtMostOne(t, j)
  <2>1. Calls(stack, "await", p, "loop", t) BY <1>1, <1>2, <1>4, <1>5 DEF Calls, Phases, Page
  <2> QED BY <2>1, Pushed
<1>7. EndOK(t, aborted, q[1].micro, kind)
  <2>1. Len(t) # 1 BY <1>1, <1>6
  <2>2. Len(t) \in Nat /\ Len(t) > 0 BY <1>6
  <2> QED BY <1>6, <2>1, <2>2, CodeEnds
<1>8. TicksOK(t, TRUE, outside, kind, runs, q[1].tick, q[1].micro) BY DEF TicksOK
<1>9. Guards(t, q[1]) BY <1>6 DEF Page, Guards
<1> QED BY <1>3, <1>6, <1>7, <1>8, <1>9 DEF Page

-----------------------------------------------------------------------------
(***************************************************************************)
(* The pump and the loop that runs the jobs are entered.                   *)
(***************************************************************************)

\* The results of reads and timers are jobs.
LEMMA Collects ==
  ASSUME Page, Collect
  PROVE  /\ ReadJobs(1) \in Seq(Jobs1) /\ TimerJobs(1) \in Seq(Jobs1)
         /\ fired' \in Seq(Ids)
         /\ \A m, tk : Data(kind, runs, m, tk, q[1].imm, pr, reactions, items, reading, readDone)
              => Data(kind, runs, (m \o ReadJobs(1)) \o TimerJobs(1), tk, q[1].imm, pr, reactions,
                      items', reading, readDone')
<1>1. ReadsOK(reading, readDone, q[1].micro, kind, runs) /\ ItemsOK(items, q[1].micro, kind, runs)
  BY DEF Page, Data
<1>2. PICK N \in Nat : N = Len(readDone) BY <1>1 DEF ReadsOK
<1>3. DOMAIN readDone = 1..N /\ \A i \in 1..N : readDone[i][2] \in Ids
  <2>1. readDone \in Seq({1} \X Ids) BY <1>1 DEF ReadsOK
  <2>2. \A i \in 1..N : readDone[i] \in {1} \X Ids BY <1>2, <2>1
  <2> QED BY <1>2, <2>1, <2>2
<1>4. PICK l : l = [i \in 1..N |-> readDone[i][2]] OBVIOUS
<1>5. l \in [1..N -> Ids] BY <1>3, <1>4
<1>6. l \in Seq(Ids) /\ Len(l) = N BY <1>5
<1>7. \A i \in 1..N : l[i] = readDone[i][2] BY <1>4
<1>8. ReadJobs(1) = Jobs(1, l)
  <2>1. DOMAIN l = 1..N BY <1>4
  <2>2. ReadJobs(1) = [i \in 1..N |-> Job(1, readDone[i][2])] BY <1>3 DEF ReadJobs
  <2>3. Jobs(1, l) = [i \in 1..N |-> Job(1, l[i])] BY <2>1 DEF Jobs
  <2> QED BY <1>7, <2>2, <2>3
<1>9. fired \in Seq(Ids) BY DEF Page
<1>10. /\ Handled \in Seq(Ids)
       /\ \A i \in 1..Len(Handled) :
            /\ items[Handled[i]] # "none"
            /\ InL(fired, Handled[i])
            /\ kind[Handled[i]] = "timeout" =>
                 \A j \in 1..Len(Handled) : Handled[i] = Handled[j] => i = j
  BY <1>9, HandledIs
<1>11. PICK h \in Seq(Ids) : h = Handled BY <1>10
<1>12. TimerJobs(1) = Jobs(1, h) BY <1>11 DEF TimerJobs
<1>13. PICK it2 : it2 = items' OBVIOUS
<1>14. it2 = [c \in Ids |-> IF kind[c] = "timeout" /\ c \in ToSet(fired) THEN "none" ELSE items[c]]
  BY <1>13 DEF Collect, ItemsLeft
<1>15. /\ it2 \in [Ids -> {"none", "ref", "unref"}]
       /\ \A c \in Ids : it2[c] # "none" => items[c] # "none"
  <2>1. items \in [Ids -> {"none", "ref", "unref"}] BY <1>1 DEF ItemsOK
  <2> QED BY <1>14, <2>1
<1>16. \A i \in 1..Len(h) : h[i] \in Ids OBVIOUS
<1>17. \A i \in 1..Len(h) :
         /\ items[h[i]] # "none"
         /\ kind[h[i]] = "timeout" =>
              it2[h[i]] = "none" /\ \A j \in 1..Len(h) : h[i] = h[j] => i = j
  <2>1. \A c \in Ids : InL(fired, c) => c \in ToSet(fired) BY <1>9 DEF InL, ToSet
  <2> QED BY <1>10, <1>11, <1>14, <1>16, <2>1
<1>18. ASSUME NEW m, NEW tk,
              Data(kind, runs, m, tk, q[1].imm, pr, reactions, items, reading, readDone)
       PROVE  Data(kind, runs, (m \o ReadJobs(1)) \o TimerJobs(1), tk, q[1].imm, pr, reactions,
                   it2, reading, <<>>)
  <2>1. PICK n : n = m \o Jobs(1, l) OBVIOUS
  <2>2. Len(l) = Len(readDone) /\ \A i \in 1..Len(l) : l[i] = readDone[i][2]
    BY <1>2, <1>6, <1>7
  <2>3. Data(kind, runs, n, tk, q[1].imm, pr, reactions, items, reading, <<>>)
    BY ONLY <1>6, <1>18, <2>1, <2>2, ReadsMove
  <2>4. Data(kind, runs, n \o Jobs(1, h), tk, q[1].imm, pr, reactions, it2, reading, <<>>)
    BY ONLY <1>15, <1>17, <2>3, h \in Seq(Ids), TimersMove
  <2> QED BY <1>8, <1>12, <2>1, <2>4
<1>19. ReadJobs(1) \in Seq(Jobs1) /\ TimerJobs(1) \in Seq(Jobs1) BY <1>6, <1>8, <1>12, JobsIs
<1>20. fired' = <<>> /\ readDone' = <<>> BY DEF Collect
<1> QED BY <1>13, <1>18, <1>19, <1>20

\* The caller goes on below what it calls, perhaps in another phase.
Resumes(s, c) ==
  /\ Shape(c) /\ Len(c) = Len(s) /\ Len(c) > 0
  /\ \A k : (On(c, k) <=> On(s, k)) /\ (AtMostOne(s, k) => AtMostOne(c, k))

\* The pump is entered: ticks first, then the jobs, then results of reads and timers.
LEMMA PumpBegins ==
  ASSUME Page, NEW callers, Resumes(stack, callers), BeginPump(1, callers),
         OnTop(callers[Len(callers)], Frame("pump", 1, 0, "micro")),
         UNCHANGED <<promises, armed, reading, vms, request, history>>
  PROVE  Page'
<1>1. PICK t : t = Append(callers, Frame("pump", 1, 0, "micro")) OBVIOUS
<1>2. /\ stack' = t /\ kind' = kind /\ pr' = pr /\ reactions' = reactions
      /\ reading' = reading /\ vms' = vms /\ request' = request
      /\ runs' = runs /\ outside' = outside /\ awaited' = awaited /\ aborted' = aborted
  BY <1>1 DEF BeginPump, promises, history
<1>3. Collect /\ ~q[1].pumping BY DEF BeginPump
<1>4. /\ ReadJobs(1) \in Seq(Jobs1) /\ TimerJobs(1) \in Seq(Jobs1)
      /\ fired' \in Seq(Ids)
      /\ \A m, tk : Data(kind, runs, m, tk, q[1].imm, pr, reactions, items, reading, readDone)
           => Data(kind, runs, (m \o ReadJobs(1)) \o TimerJobs(1), tk, q[1].imm, pr, reactions,
                   items', reading, readDone')
  BY <1>3, Collects
<1>5. PICK rj \in Seq(Jobs1), tj \in Seq(Jobs1) : rj = ReadJobs(1) /\ tj = TimerJobs(1) BY <1>4
<1>6. q \in [VMs -> Queues] /\ q[1].micro \in Seq(Jobs1) /\ q[1].tick \in Seq(Ids)
  BY QueueIs DEF Page
<1>7. PICK m \in Seq(Jobs1), tk \in Seq(Ids) : m = q[1].micro /\ tk = q[1].tick BY <1>6
<1>8. PICK j \in Seq(Jobs1) : j = Jobs(1, tk)
  <2>1. Jobs(1, tk) \in Seq(Jobs1) BY JobsIs
  <2> QED BY <2>1
<1>9. PICK a \in Seq(Jobs1) : a = (j \o m) \o rj
  <2>1. (j \o m) \o rj \in Seq(Jobs1) OBVIOUS
  <2> QED BY <2>1
<1>10. PICK n \in Seq(Jobs1) : n = a \o tj
  <2>1. a \o tj \in Seq(Jobs1) OBVIOUS
  <2> QED BY <2>1
<1>11. Data(kind, runs, n, <<>>, q[1].imm, pr, reactions, items', reading, readDone')
  <2>1. Data(kind, runs, m, tk, q[1].imm, pr, reactions, items, reading, readDone)
    BY <1>7 DEF Page
  <2>2. Data(kind, runs, Jobs(1, tk) \o m, <<>>, q[1].imm, pr, reactions, items, reading, readDone)
    BY ONLY <2>1, TicksMove
  <2> QED BY <1>4, <1>5, <1>8, <1>9, <1>10, <2>2
<1>12. PICK q1 : q1 = WithPumping(q, TRUE) OBVIOUS
<1>13. /\ q1 \in [VMs -> Queues]
       /\ q1[1].micro = q[1].micro /\ q1[1].tick = q[1].tick /\ q1[1].imm = q[1].imm
       /\ q1[1].pumping = TRUE /\ q1[1].processing = q[1].processing
  <2>1. q \in [VMs -> Queues] /\ TRUE \in BOOLEAN BY <1>6
  <2> QED BY ONLY <1>12, <2>1, PumpingSet
<1>14. PICK q2 : q2 = WithTick(q1, <<>>) OBVIOUS
<1>15. /\ q2 \in [VMs -> Queues]
       /\ q2[1].micro = q1[1].micro /\ q2[1].tick = <<>> /\ q2[1].imm = q1[1].imm
       /\ q2[1].pumping = q1[1].pumping /\ q2[1].processing = q1[1].processing
  <2>1. <<>> \in Seq(Ids) OBVIOUS
  <2> QED BY ONLY <1>13, <1>14, <2>1, TickSet
<1>16. PICK q3 : q3 = WithMicro(q2, n) OBVIOUS
<1>17. /\ q3 \in [VMs -> Queues]
       /\ q3[1].micro = n /\ q3[1].tick = q2[1].tick /\ q3[1].imm = q2[1].imm
       /\ q3[1].pumping = q2[1].pumping /\ q3[1].processing = q2[1].processing
  <2>1. q2 \in [VMs -> Queues] BY <1>15
  <2> QED BY ONLY <1>16, <2>1, n \in Seq(Jobs1), MicroSet
<1>18. q' = q3
  <2>1. q' = [q EXCEPT ![1].pumping = TRUE, ![1].tick = <<>>, ![1].micro = n]
    BY <1>5, <1>7, <1>8, <1>9, <1>10 DEF BeginPump
  <2> QED BY <2>1, <1>12, <1>14, <1>16 DEF WithPumping, WithTick, WithMicro
<1>19. /\ Shape(t) /\ Len(t) = Len(callers) + 1 /\ Len(t) \in Nat \ {0}
       /\ t[Len(t)].k = "pump" /\ t[Len(t)].ph = "micro"
       /\ \A k : On(t, k) <=> On(callers, k) \/ "pump" = k
       /\ \A k : AtMostOne(callers, k) /\ ("pump" = k => ~On(callers, k)) => AtMostOne(t, k)
  <2>1. 0 \in 0..MaxIds BY JSAssumption
  <2>2. Calls(callers, "pump", 0, "micro", t) BY <1>1, <2>1 DEF Calls, Phases, Resumes
  <2> QED BY <2>2, Pushed
<1>20. Guards(t, q3[1])
  <2>1. ~On(callers, "pump") BY <1>3 DEF Page, Guards, Resumes
  <2> QED BY <1>13, <1>15, <1>17, <1>19, <2>1 DEF Page, Guards, Resumes
<1>21. EndOK(t, aborted, n, kind)
  <2>1. Len(callers) \in Nat \ {0} BY DEF Resumes, Shape
  <2>2. Len(t) \in Nat /\ Len(t) > 0 /\ Len(t) # 1 BY <1>19, <2>1
  <2> QED BY <1>19, <2>2, CodeEnds
<1>22. TicksOK(t, awaited, outside, kind, runs, <<>>, n)
  <2>1. MicroOK(m, kind, runs) /\ ListOK(tk, "tick", m, kind, runs)
    BY <1>7 DEF Page, Data
  <2>2. TicksOK(stack, awaited, outside, kind, runs, tk, m) BY <1>7 DEF Page
  <2>3. TicksOK(t, awaited, outside, kind, runs, <<>>, (Jobs(1, tk) \o m) \o rj)
    BY ONLY <2>1, <2>2, rj \in Seq(Jobs1), TicksPump
  <2>4. TicksOK(t, awaited, outside, kind, runs, <<>>, a) BY <1>8, <1>9, <2>3
  <2>5. \A u \in outside : Ahead(a, kind, u) => Ahead(n, kind, u) BY <1>10, AheadMore
  <2>6. PICK e : e = <<>> OBVIOUS
  <2>7. TicksOK(t, awaited, outside, kind, runs, e, a) BY <2>4, <2>6
  <2>8. TicksOK(t, awaited, outside, kind, runs, e, n) BY ONLY <2>5, <2>7, TicksStay
  <2> QED BY <2>6, <2>8
<1>23. vms = 1 /\ request = 1 /\ outside \subseteq {c \in Ids : kind[c] # "none"} BY DEF Page
<1> QED BY <1>2, <1>4, <1>11, <1>13, <1>15, <1>17, <1>18, <1>19, <1>20, <1>21, <1>22, <1>23 DEF Page

\* The loop that runs the jobs is entered; it is not while the page may still give ticks.
LEMMA MicroBegins ==
  ASSUME Page, NEW callers, Resumes(stack, callers), BeginMicro(1, callers),
         OnTop(callers[Len(callers)], Frame("micro", 1, 0, "loop")), ~OnPage(stack),
         UNCHANGED <<promises, armed, reading, vms, request, history>>
  PROVE  Page'
<1>1. PICK t : t = Append(callers, Frame("micro", 1, 0, "loop")) OBVIOUS
<1>2. /\ stack' = t /\ kind' = kind /\ pr' = pr /\ reactions' = reactions
      /\ reading' = reading /\ vms' = vms /\ request' = request
      /\ runs' = runs /\ outside' = outside /\ awaited' = awaited /\ aborted' = aborted
  BY <1>1 DEF BeginMicro, promises, history
<1>3. Collect /\ ~q[1].processing BY DEF BeginMicro
<1>4. /\ ReadJobs(1) \in Seq(Jobs1) /\ TimerJobs(1) \in Seq(Jobs1)
      /\ fired' \in Seq(Ids)
      /\ \A m, tk : Data(kind, runs, m, tk, q[1].imm, pr, reactions, items, reading, readDone)
           => Data(kind, runs, (m \o ReadJobs(1)) \o TimerJobs(1), tk, q[1].imm, pr, reactions,
                   items', reading, readDone')
  BY <1>3, Collects
<1>5. PICK rj \in Seq(Jobs1), tj \in Seq(Jobs1) : rj = ReadJobs(1) /\ tj = TimerJobs(1) BY <1>4
<1>6. q \in [VMs -> Queues] /\ q[1].micro \in Seq(Jobs1) BY QueueIs DEF Page
<1>7. PICK m \in Seq(Jobs1) : m = q[1].micro BY <1>6
<1>8. PICK a \in Seq(Jobs1) : a = m \o rj
  <2>1. m \o rj \in Seq(Jobs1) OBVIOUS
  <2> QED BY <2>1
<1>9. PICK n \in Seq(Jobs1) : n = a \o tj
  <2>1. a \o tj \in Seq(Jobs1) OBVIOUS
  <2> QED BY <2>1
<1>10. Data(kind, runs, n, q[1].tick, q[1].imm, pr, reactions, items', reading, readDone')
  <2>1. Data(kind, runs, m, q[1].tick, q[1].imm, pr, reactions, items, reading, readDone)
    BY <1>7 DEF Page
  <2> QED BY <1>4, <1>5, <1>8, <1>9, <2>1
<1>11. PICK q1 : q1 = WithProcessing(q, TRUE) OBVIOUS
<1>12. /\ q1 \in [VMs -> Queues]
       /\ q1[1].micro = q[1].micro /\ q1[1].tick = q[1].tick /\ q1[1].imm = q[1].imm
       /\ q1[1].pumping = q[1].pumping /\ q1[1].processing = TRUE
  <2>1. q \in [VMs -> Queues] /\ TRUE \in BOOLEAN BY <1>6
  <2> QED BY ONLY <1>11, <2>1, ProcessingSet
<1>13. PICK q2 : q2 = WithMicro(q1, n) OBVIOUS
<1>14. /\ q2 \in [VMs -> Queues]
       /\ q2[1].micro = n /\ q2[1].tick = q1[1].tick /\ q2[1].imm = q1[1].imm
       /\ q2[1].pumping = q1[1].pumping /\ q2[1].processing = q1[1].processing
  BY ONLY <1>12, <1>13, n \in Seq(Jobs1), MicroSet
<1>15. q' = q2
  <2>1. q' = [q EXCEPT ![1].processing = TRUE, ![1].micro = n]
    BY <1>5, <1>7, <1>8, <1>9 DEF BeginMicro
  <2> QED BY <2>1, <1>11, <1>13 DEF WithProcessing, WithMicro
<1>16. /\ Shape(t) /\ Len(t) = Len(callers) + 1 /\ Len(t) \in Nat \ {0}
       /\ t[Len(t)].k = "micro" /\ t[Len(t)].ph = "loop"
       /\ \A k : On(t, k) <=> On(callers, k) \/ "micro" = k
       /\ \A k : AtMostOne(callers, k) /\ ("micro" = k => ~On(callers, k)) => AtMostOne(t, k)
  <2>1. 0 \in 0..MaxIds BY JSAssumption
  <2>2. Calls(callers, "micro", 0, "loop", t) BY <1>1, <2>1 DEF Calls, Phases, Resumes
  <2> QED BY <2>2, Pushed
<1>17. Guards(t, q2[1])
  <2>1. ~On(callers, "micro") BY <1>3 DEF Page, Guards, Resumes
  <2> QED BY <1>12, <1>14, <1>16, <2>1 DEF Page, Guards, Resumes
<1>18. EndOK(t, aborted, n, kind)
  <2>1. Len(callers) \in Nat \ {0} BY DEF Resumes, Shape
  <2>2. Len(t) \in Nat /\ Len(t) > 0 /\ Len(t) # 1 BY <1>16, <2>1
  <2> QED BY <1>16, <2>2, CodeEnds
<1>19. TicksOK(t, awaited, outside, kind, runs, q[1].tick, n)
  <2>1. TicksOK(stack, awaited, outside, kind, runs, q[1].tick, m) BY <1>7 DEF Page
  <2>2. \A u \in outside : Ahead(m, kind, u) => Ahead(n, kind, u)
    BY <1>8, <1>9, AheadMore
  <2> QED BY <2>1, <2>2, TicksStay
<1>20. vms = 1 /\ request = 1 /\ outside \subseteq {c \in Ids : kind[c] # "none"} BY DEF Page
<1> QED BY <1>2, <1>4, <1>10, <1>12, <1>14, <1>15, <1>16, <1>17, <1>18, <1>19, <1>20 DEF Page

\* At, by positions
LEMMA AtIs ==
  ASSUME Page, ~Ended,
         NEW ph \in Phases
  PROVE  /\ Resumes(stack, At(ph))
         /\ \A i \in 1..Len(stack) - 1 : At(ph)[i] = stack[i]
         /\ At(ph)[Len(stack)].k = Top.k /\ At(ph)[Len(stack)].ph = ph
<1>1. Len(stack) \in Nat \ {0} /\ Depth = Len(stack) /\ Top = stack[Len(stack)] BY TopIs
<1>2. PICK t : t = At(ph) OBVIOUS
<1>3. t = InPhase(stack, ph) BY <1>1, <1>2 DEF At, InPhase
<1>4. Shape(stack) /\ Len(stack) > 0 BY <1>1 DEF Page
<1>5. /\ Shape(t) /\ Len(t) = Len(stack)
      /\ \A i \in 1..Len(stack) - 1 : t[i] = stack[i]
      /\ t[Len(stack)].k = stack[Len(stack)].k /\ t[Len(stack)].ph = ph
      /\ \A k : (On(t, k) <=> On(stack, k)) /\ (AtMostOne(stack, k) => AtMostOne(t, k))
  BY ONLY <1>3, <1>4, ph \in Phases, PhaseShape
<1> QED BY <1>1, <1>2, <1>5 DEF Resumes

\* The pump between two instructions
LEMMA PumpStep ==
  ASSUME Page, Pump
  PROVE  Page'
<1>1. /\ VM = 1 /\ Top = stack[Len(stack)] /\ Len(stack) \in Nat \ {0}
      /\ Top.k \in Code /\ Top.ph = "code"
  BY CodeNow DEF Pump
<1>2. Resumes(stack, stack) BY <1>1 DEF Page, Resumes
<1>3. OnTop(stack[Len(stack)], Frame("pump", 1, 0, "micro")) BY <1>1 DEF OnTop, Frame
<1>4. BeginPump(1, stack) /\ UNCHANGED <<promises, armed, reading, vms, request, history>>
  BY <1>1 DEF Pump
<1> QED BY <1>2, <1>3, <1>4, PumpBegins

\* The pump of a drain
LEMMA DrainPumpStep ==
  ASSUME Page, DrainPump
  PROVE  Page'
<1>1. ~Ended /\ Top.k = "drain" BY DEF DrainPump, In
<1>2. VM = 1 BY <1>1, TopIs
<1>3. PICK t : t = At("check") OBVIOUS
<1>4. /\ Resumes(stack, t) /\ t[Len(stack)].k = "drain" /\ t[Len(stack)].ph = "check"
  BY <1>1, <1>3, AtIs DEF Phases
<1>5. OnTop(t[Len(t)], Frame("pump", 1, 0, "micro")) BY <1>4 DEF OnTop, Frame, Resumes
<1>6. BeginPump(1, t) /\ UNCHANGED <<promises, armed, reading, vms, request, history>>
  BY <1>2, <1>3 DEF DrainPump
<1> QED BY <1>4, <1>5, <1>6, PumpBegins

\* The pump runs the jobs, unless they are being run already.
LEMMA PumpMicroStep ==
  ASSUME Page, PumpMicro
  PROVE  Page'
<1>1. ~Ended /\ Top.k = "pump" BY DEF PumpMicro, In
<1>2. VM = 1 /\ Top = stack[Len(stack)] /\ Len(stack) \in Nat \ {0} BY <1>1, TopIs
<1>3. PICK t : t = At("imm") OBVIOUS
<1>4. /\ Resumes(stack, t) /\ t[Len(stack)].k = "pump" /\ t[Len(stack)].ph = "imm"
  BY <1>1, <1>3, AtIs DEF Phases
<1>5. OnTop(t[Len(t)], Frame("micro", 1, 0, "loop")) BY <1>4 DEF OnTop, Frame, Resumes
<1>6. ~OnPage(stack) BY <1>1, <1>2 DEF OnPage, PageCode
<1>7. BeginMicro(1, t) /\ UNCHANGED <<promises, armed, reading, vms, request, history>>
  BY <1>2, <1>3 DEF PumpMicro
<1> QED BY <1>4, <1>5, <1>6, <1>7, MicroBegins

\* The jobs left over at the end of a piece of code
LEMMA PostMicroStep ==
  ASSUME Page, PostMicro
  PROVE  Page'
<1>1. ~Ended /\ Top.k \in CodeFrames /\ Top.ph = "post" BY DEF PostMicro
<1>2. VM = 1 /\ Top = stack[Len(stack)] /\ Len(stack) \in Nat \ {0} /\ Top \in Frames
  BY <1>1, TopIs
<1>3. Top.k \in Code BY <1>1, <1>2 DEF CodeFrames, Frames, Code
<1>4. PICK t : t = At("done") OBVIOUS
<1>5. /\ Resumes(stack, t) /\ t[Len(stack)].k = Top.k /\ t[Len(stack)].ph = "done"
  BY <1>1, <1>4, AtIs DEF Phases
<1>6. OnTop(t[Len(t)], Frame("micro", 1, 0, "loop")) BY <1>3, <1>5 DEF OnTop, Frame, Resumes
<1>7. ~OnPage(stack) BY <1>1, <1>2, <1>3 DEF OnPage, PageCode, Code
<1>8. BeginMicro(1, t) /\ UNCHANGED <<promises, armed, reading, vms, request, history>>
  BY <1>2, <1>4 DEF PostMicro
<1> QED BY <1>5, <1>6, <1>7, <1>8, MicroBegins

\* await runs the jobs.
LEMMA AwaitMicroStep ==
  ASSUME Page, AwaitMicro
  PROVE  Page'
<1>1. ~Ended /\ Top.k = "await" BY DEF AwaitMicro, In
<1>2. VM = 1 /\ Top = stack[Len(stack)] /\ Len(stack) \in Nat \ {0} BY <1>1, TopIs
<1>3. Resumes(stack, stack) BY <1>2 DEF Page, Resumes
<1>4. OnTop(stack[Len(stack)], Frame("micro", 1, 0, "loop")) BY <1>1, <1>2 DEF OnTop, Frame
<1>5. ~OnPage(stack) BY <1>1, <1>2 DEF OnPage, PageCode
<1>6. BeginMicro(1, stack) /\ UNCHANGED <<promises, armed, reading, vms, request, history>>
  BY <1>2 DEF AwaitMicro
<1> QED BY <1>3, <1>4, <1>5, <1>6, MicroBegins

-----------------------------------------------------------------------------
(***************************************************************************)
(* Jobs start, and the frames of the loop end.                             *)
(***************************************************************************)

\* The stack below the innermost frame
LEMMA BelowIs ==
  ASSUME Page, ~Ended
  PROVE  /\ Shape(Below) /\ Len(Below) = Len(stack) - 1
         /\ \A i \in 1..Len(stack) - 1 : Below[i] = stack[i]
         /\ \A k : On(stack, k) <=> On(Below, k) \/ Top.k = k
         /\ \A k : AtMostOne(stack, k) => AtMostOne(Below, k) /\ (Top.k = k => ~On(Below, k))
<1>1. Len(stack) \in Nat \ {0} /\ Top = stack[Len(stack)] BY TopIs
<1>2. Shape(stack) /\ Len(stack) > 0 BY <1>1 DEF Page
<1> QED BY <1>1, <1>2, PopShape DEF Below

\* It is what the innermost frame was called by.
LEMMA CallerIs ==
  ASSUME Page, ~Ended, Top.k # "main"
  PROVE  /\ Len(Below) \in Nat \ {0}
         /\ OnTop(Below[Len(Below)], Top)
         /\ Len(Below) = 1 => Below[1].k = "main"
<1>1. Len(stack) \in Nat \ {0} /\ Top = stack[Len(stack)] BY TopIs
<1>2. Shape(stack) /\ Len(stack) > 0 BY <1>1 DEF Page
<1>3. Len(stack) - 1 \in 1..Len(stack) /\ OnTop(stack[Len(stack) - 1], stack[Len(stack)])
  BY <1>1, <1>2, CallerOf
<1>4. /\ Shape(Below) /\ Len(Below) = Len(stack) - 1
      /\ \A i \in 1..Len(stack) - 1 : Below[i] = stack[i]
  BY BelowIs
<1>5. PICK N \in Nat \ {0} : N = Len(Below) BY <1>1, <1>3, <1>4
<1>6. N \in 1..N /\ Below[N] = stack[N] BY <1>4, <1>5
<1> QED BY <1>1, <1>3, <1>4, <1>5, <1>6 DEF Shape

\* The pump ends: the immediates become jobs behind all others.
LEMMA PumpEndStep ==
  ASSUME Page, PumpEnd
  PROVE  Page'
<1>1. ~Ended /\ Top.k = "pump" BY DEF PumpEnd, In
<1>2. VM = 1 /\ Top = stack[Len(stack)] /\ Len(stack) \in Nat \ {0} BY <1>1, TopIs
<1>3. /\ stack' = Below /\ kind' = kind /\ pr' = pr /\ reactions' = reactions
      /\ items' = items /\ fired' = fired /\ reading' = reading /\ readDone' = readDone
      /\ vms' = vms /\ request' = request
      /\ runs' = runs /\ outside' = outside /\ awaited' = awaited /\ aborted' = aborted
  BY DEF PumpEnd, promises, goroutines, history
<1>4. q \in [VMs -> Queues] /\ q[1].micro \in Seq(Jobs1) /\ q[1].imm \in Seq(Ids)
  BY QueueIs DEF Page
<1>5. PICK m \in Seq(Jobs1), im \in Seq(Ids) : m = q[1].micro /\ im = q[1].imm BY <1>4
<1>6. PICK j \in Seq(Jobs1) : j = Jobs(1, im)
  <2>1. Jobs(1, im) \in Seq(Jobs1) BY JobsIs
  <2> QED BY <2>1
<1>7. PICK n \in Seq(Jobs1) : n = m \o j
  <2>1. m \o j \in Seq(Jobs1) OBVIOUS
  <2> QED BY <2>1
<1>8. Data(kind, runs, m, q[1].tick, im, pr, reactions, items, reading, readDone)
  BY <1>5 DEF Page
<1>9. Data(kind, runs, n, q[1].tick, <<>>, pr, reactions, items, reading, readDone)
  <2>1. Data(kind, runs, m \o Jobs(1, im), q[1].tick, <<>>, pr, reactions, items, reading, readDone)
    BY ONLY <1>8, ImmediatesMove
  <2> QED BY <1>6, <1>7, <2>1
<1>10. PICK q1 : q1 = WithMicro(q, n) OBVIOUS
<1>11. /\ q1 \in [VMs -> Queues] /\ q1[1].micro = n /\ q1[1].tick = q[1].tick
       /\ q1[1].pumping = q[1].pumping /\ q1[1].processing = q[1].processing
  BY <1>4, <1>10, MicroSet
<1>12. PICK q2 : q2 = WithImm(q1, <<>>) OBVIOUS
<1>13. /\ q2 \in [VMs -> Queues] /\ q2[1].micro = n /\ q2[1].tick = q[1].tick /\ q2[1].imm = <<>>
       /\ q2[1].pumping = q[1].pumping /\ q2[1].processing = q[1].processing
  <2>1. <<>> \in Seq(Ids) OBVIOUS
  <2> QED BY <1>11, <1>12, <2>1, ImmSet
<1>14. PICK q3 : q3 = WithPumping(q2, FALSE) OBVIOUS
<1>15. /\ q3 \in [VMs -> Queues] /\ q3[1].micro = n /\ q3[1].tick = q[1].tick /\ q3[1].imm = <<>>
       /\ q3[1].pumping = FALSE /\ q3[1].processing = q[1].processing
  BY <1>13, <1>14, PumpingSet
<1>16. q' = q3
  <2>1. q' = [q EXCEPT ![1].micro = n, ![1].imm = <<>>, ![1].pumping = FALSE]
    BY <1>2, <1>5, <1>6, <1>7 DEF PumpEnd
  <2> QED BY <2>1, <1>10, <1>12, <1>14 DEF WithPumping, WithImm, WithMicro
<1>17. /\ Shape(Below) /\ Len(Below) = Len(stack) - 1
       /\ \A i \in 1..Len(stack) - 1 : Below[i] = stack[i]
       /\ \A k : On(stack, k) <=> On(Below, k) \/ Top.k = k
       /\ \A k : AtMostOne(stack, k) => AtMostOne(Below, k) /\ (Top.k = k => ~On(Below, k))
  BY <1>1, BelowIs
<1>18. Guards(Below, q3[1]) BY <1>1, <1>15, <1>17 DEF Page, Guards
<1>19. /\ Len(Below) \in Nat \ {0} /\ OnTop(Below[Len(Below)], Top)
       /\ Len(Below) = 1 => Below[1].k = "main"
  BY <1>1, CallerIs
<1>20. EndOK(Below, aborted, n, kind)
  <2>1. CASE Below[Len(Below)].k \in Code /\ Below[Len(Below)].ph = "code"
    BY <1>19, <2>1, CodeEnds
  <2>2. CASE Below[Len(Below)].k = "drain"
    <3>1. Len(Below) # 1 BY <1>19, <2>2
    <3>2. ASSUME Len(Below) = 2 PROVE m = <<>>
      <4>0. PICK N \in Nat : N = Len(stack) BY <1>2
      <4>1. Len(stack) = 3
        <5>1. N - 1 = 2 BY <1>17, <3>2, <4>0
        <5>2. N = 3 BY ONLY N \in Nat, <5>1
        <5> QED BY <4>0, <5>2
      <4>2. Below[1].k = "main"
        <5>1. Shape(Below) /\ Len(Below) = 2 BY <1>17, <3>2
        <5> QED BY ONLY <5>1 DEF Shape
      <4>3. \A i \in 1..Len(Below) : i = 1 \/ i = 2 BY <3>2
      <4>4. ~On(Below, "micro") BY <2>2, <3>2, <4>2, <4>3 DEF On
      <4>5. ~q[1].processing BY <1>1, <1>17, <4>4 DEF Page, Guards
      <4>6. Top.ph = "imm" \/ m = <<>> BY <1>2, <1>5, <4>5 DEF PumpEnd
      <4>7. stack[3] = Top BY <1>2, <4>1
      <4>8. Top.ph = "imm" => m = <<>> BY <1>1, <1>5, <4>1, <4>7 DEF Page, EndOK
      <4> QED BY <4>6, <4>8
    <3>3. m = <<>> => NoReactions(n, kind)
      <4> SUFFICES ASSUME m = <<>> PROVE NoReactions(n, kind) OBVIOUS
      <4>1. n = j BY <1>7
      <4>2. Len(j) = Len(im) /\ \A i \in 1..Len(im) : j[i].id = im[i] BY <1>6, JobsIs
      <4>3. \A i \in 1..Len(im) : kind[im[i]] = "immediate" BY <1>8 DEF Data, ListOK
      <4> QED BY <4>1, <4>2, <4>3 DEF NoReactions
    <3>4. Len(Below) = 3 => Below[3].k # "pump" BY <2>2
    <3> QED BY <1>19, <3>1, <3>2, <3>3, <3>4 DEF EndOK
  <2> QED BY <1>1, <1>19, <2>1, <2>2 DEF OnTop
<1>21. TicksOK(Below, awaited, outside, kind, runs, q[1].tick, n)
  <2>1. TicksOK(stack, awaited, outside, kind, runs, q[1].tick, m) BY <1>5 DEF Page
  <2>2. ~OnPage(stack) BY <1>1, <1>2 DEF OnPage, PageCode
  <2>3. \A u \in outside : Ahead(m, kind, u) => Ahead(n, kind, u) BY <1>7, AheadMore
  <2> QED BY <2>1, <2>2, <2>3, TicksStay
<1>22. /\ vms = 1 /\ request = 1 /\ fired \in Seq(Ids)
       /\ outside \subseteq {c \in Ids : kind[c] # "none"}
  BY DEF Page
<1> QED BY <1>3, <1>9, <1>15, <1>16, <1>17, <1>18, <1>20, <1>21, <1>22 DEF Page

\* The first job starts, which no other may be doing then.
LEMMA StartJobStep ==
  ASSUME Page, StartJob
  PROVE  Page'
<1>1. ~Ended /\ Top.k = "micro" BY DEF StartJob, In
<1>2. VM = 1 /\ Top = stack[Len(stack)] /\ Len(stack) \in Nat \ {0} /\ On(stack, "micro")
  BY <1>1, TopIs
<1>3. /\ kind' = kind /\ pr' = pr /\ reactions' = reactions
      /\ items' = items /\ fired' = fired /\ reading' = reading /\ readDone' = readDone
      /\ vms' = vms /\ request' = request
      /\ outside' = outside /\ awaited' = awaited /\ aborted' = aborted
  BY DEF StartJob, promises, goroutines
<1>4. q \in [VMs -> Queues] /\ q[1].micro \in Seq(Jobs1) BY QueueIs DEF Page
<1>5. PICK m \in Seq(Jobs1) : m = q[1].micro BY <1>4
<1>6. m # <<>> BY <1>2, <1>5 DEF StartJob
<1>7. PICK c : c = m[1].id OBVIOUS
<1>8. m[1].vm = 1 /\ Head(m) = m[1]
  <2>1. Len(m) \in Nat \ {0} BY <1>6
  <2>2. 1 \in 1..Len(m) BY <2>1
  <2> QED BY <1>6, <2>2, JobIds
<1>9. PICK rn2 : rn2 = [runs EXCEPT ![c] = IF @ = 2 THEN 2 ELSE @ + 1] OBVIOUS
<1>10. Data(kind, runs, m, q[1].tick, q[1].imm, pr, reactions, items, reading, readDone)
  BY <1>5 DEF Page
<1>11. /\ c \in Ids /\ kind[c] \in Callbacks
       /\ Data(kind, rn2, Tail(m), q[1].tick, q[1].imm, pr, reactions, items, reading, readDone)
  BY ONLY <1>6, <1>7, <1>9, <1>10, JobStarts
<1>12. PICK t : t = Append(stack, Frame("job", 1, c, "code")) OBVIOUS
<1>13. stack' = t /\ runs' = rn2
  <2>1. Head(q[VM].micro).id = c /\ Head(q[VM].micro).vm = 1 BY <1>2, <1>5, <1>7, <1>8
  <2> QED BY <1>9, <1>11, <1>12, <2>1 DEF StartJob
<1>14. PICK n \in Seq(Jobs1) : n = Tail(m)
  <2>1. Tail(m) \in Seq(Jobs1) BY <1>6
  <2> QED BY <2>1
<1>15. PICK q1 : q1 = WithMicro(q, n) OBVIOUS
<1>16. /\ q1 \in [VMs -> Queues] /\ q1[1].micro = n
       /\ q1[1].tick = q[1].tick /\ q1[1].imm = q[1].imm
       /\ q1[1].pumping = q[1].pumping /\ q1[1].processing = q[1].processing
  BY <1>4, <1>15, MicroSet
<1>17. q' = q1 BY <1>2, <1>5, <1>14, <1>15 DEF StartJob, WithMicro
<1>18. /\ Shape(t) /\ Len(t) = Len(stack) + 1 /\ Len(t) \in Nat \ {0}
       /\ t[Len(t)].k = "job"
       /\ \A k : On(t, k) <=> On(stack, k) \/ "job" = k
       /\ \A k : AtMostOne(stack, k) /\ ("job" = k => ~On(stack, k)) => AtMostOne(t, k)
  <2>1. c \in 0..MaxIds BY <1>11, JSAssumption DEF Ids
  <2>2. OnTop(stack[Len(stack)], Frame("job", 1, c, "code")) BY <1>1, <1>2 DEF OnTop, Frame
  <2>3. Calls(stack, "job", c, "code", t) BY <1>2, <1>11, <1>12, <2>1, <2>2 DEF Calls, Phases, Page
  <2> QED BY <2>3, Pushed
<1>19. Guards(t, q1[1]) BY <1>16, <1>18 DEF Page, Guards
<1>20. EndOK(t, aborted, n, kind)
  <2>1. Len(t) # 1 /\ Len(t) \in Nat /\ Len(t) > 0 BY <1>2, <1>18
  <2> QED BY <1>18, <2>1, CodeEnds
<1>21. /\ vms = 1 /\ request = 1 /\ fired \in Seq(Ids)
       /\ outside \subseteq {u \in Ids : kind[u] # "none"}
  BY DEF Page
<1>22. TicksOK(t, awaited, outside, kind, rn2, q[1].tick, n)
  <2>1. TicksOK(stack, awaited, outside, kind, runs, q[1].tick, m) BY <1>5 DEF Page
  <2>2. outside \subseteq Ids BY <1>21
  <2>3. runs \in [Ids -> 0..2] BY <1>10 DEF Data
  <2>4. On(stack, "micro") BY <1>2
  <2>5. TicksOK(t, awaited, outside, kind, rn2, q[1].tick, Tail(m))
    BY ONLY <1>6, <1>7, <1>9, <2>1, <2>2, <2>3, <2>4, m \in Seq(Jobs1), TicksStart
  <2> QED BY <1>14, <2>5
<1> QED BY <1>3, <1>11, <1>13, <1>14, <1>16, <1>17, <1>18, <1>19, <1>20, <1>21, <1>22 DEF Page

\* With an empty queue nothing waits.
LEMMA EmptyTicks ==
  ASSUME NEW s, NEW aw, NEW out, NEW kd, NEW rn, NEW tk, TicksOK(s, aw, out, kd, rn, tk, <<>>),
         ~OnPage(s) \/ tk = <<>>, NEW s2
  PROVE  TicksOK(s2, aw, out, kd, rn, tk, <<>>)
<1>1. \A t : ~Ahead(<<>>, kd, t) BY DEF Ahead
<1>2. \A t : tk = <<>> => ~InL(tk, t) BY DEF InL
<1> QED BY <1>1, <1>2 DEF TicksOK

\* The loop that runs the jobs ends when there are none.
LEMMA EndMicroStep ==
  ASSUME Page, EndMicro
  PROVE  Page'
<1>1. ~Ended /\ Top.k = "micro" BY DEF EndMicro, In
<1>2. VM = 1 /\ Top = stack[Len(stack)] /\ Len(stack) \in Nat \ {0} BY <1>1, TopIs
<1>3. /\ stack' = Below /\ kind' = kind /\ pr' = pr /\ reactions' = reactions
      /\ items' = items /\ fired' = fired /\ reading' = reading /\ readDone' = readDone
      /\ vms' = vms /\ request' = request
      /\ runs' = runs /\ outside' = outside /\ awaited' = awaited /\ aborted' = aborted
  BY DEF EndMicro, promises, goroutines, history
<1>4. q[1].micro = <<>> BY <1>2 DEF EndMicro
<1>5. PICK q1 : q1 = WithProcessing(q, FALSE) OBVIOUS
<1>6. q \in [VMs -> Queues] BY DEF Page
<1>7. /\ q1 \in [VMs -> Queues] /\ q1[1].micro = q[1].micro
      /\ q1[1].tick = q[1].tick /\ q1[1].imm = q[1].imm
      /\ q1[1].pumping = q[1].pumping /\ q1[1].processing = FALSE
  BY <1>5, <1>6, ProcessingSet
<1>8. q' = q1 BY <1>2, <1>5 DEF EndMicro, WithProcessing
<1>9. /\ Shape(Below)
      /\ \A k : On(stack, k) <=> On(Below, k) \/ Top.k = k
      /\ \A k : AtMostOne(stack, k) => AtMostOne(Below, k) /\ (Top.k = k => ~On(Below, k))
  BY <1>1, BelowIs
<1>10. Guards(Below, q1[1]) BY <1>1, <1>7, <1>9 DEF Page, Guards
<1>11. EndOK(Below, aborted, q[1].micro, kind) BY <1>4, EmptyEnds
<1>12. TicksOK(Below, awaited, outside, kind, runs, q[1].tick, q[1].micro)
  <2>1. ~OnPage(stack) BY <1>1, <1>2 DEF OnPage, PageCode
  <2>2. TicksOK(stack, awaited, outside, kind, runs, q[1].tick, <<>>) BY <1>4 DEF Page
  <2>3. TicksOK(Below, awaited, outside, kind, runs, q[1].tick, <<>>)
    BY ONLY <2>1, <2>2, EmptyTicks
  <2> QED BY <1>4, <2>3
<1> QED BY <1>3, <1>7, <1>8, <1>9, <1>10, <1>11, <1>12 DEF Page

-----------------------------------------------------------------------------
(***************************************************************************)
(* The end of a piece of code, and the drain that comes after it.          *)
(***************************************************************************)
\* A piece of code comes to its end: it drains if there is anything to wait for.
LEMMA EndCodeStep ==
  ASSUME Page, EndCode
  PROVE  Page'
<1>1. /\ ~Ended /\ VM = 1 /\ Top = stack[Len(stack)] /\ Len(stack) \in Nat \ {0}
      /\ Top.k \in Code /\ Top.ph = "code"
  BY CodeNow DEF EndCode
<1>2. /\ q' = q /\ kind' = kind /\ pr' = pr /\ reactions' = reactions
      /\ items' = items /\ fired' = fired /\ reading' = reading /\ readDone' = readDone
      /\ vms' = vms /\ request' = request
      /\ runs' = runs /\ outside' = outside /\ awaited' = awaited /\ aborted' = aborted
  BY DEF EndCode, promises, goroutines, history
<1>3. PICK s : s = At("post") OBVIOUS
<1>4. /\ Resumes(stack, s)
      /\ s[Len(stack)].k = Top.k /\ s[Len(stack)].ph = "post"
  BY <1>1, <1>3, AtIs DEF Phases
<1>5. CASE Pending(1) /\ stack' = Append(s, Frame("drain", 1, 0, "pump"))
  <2>1. PICK t : t = Append(s, Frame("drain", 1, 0, "pump")) OBVIOUS
  <2>2. /\ Shape(t) /\ Len(t) = Len(s) + 1 /\ Len(t) \in Nat \ {0}
        /\ t[Len(t)].k = "drain" /\ t[Len(t)].ph = "pump"
        /\ \A k : On(t, k) <=> On(s, k) \/ "drain" = k
        /\ \A k : AtMostOne(s, k) /\ ("drain" = k => ~On(s, k)) => AtMostOne(t, k)
    <3>1. 0 \in 0..MaxIds BY JSAssumption
    <3>2. OnTop(s[Len(s)], Frame("drain", 1, 0, "pump"))
      BY <1>1, <1>4 DEF OnTop, Frame, Resumes
    <3>3. Calls(s, "drain", 0, "pump", t) BY <1>4, <2>1, <3>1, <3>2 DEF Calls, Phases, Resumes
    <3> QED BY <3>3, Pushed
  <2>3. Guards(t, q[1]) BY <1>4, <2>2 DEF Page, Guards, Resumes
  <2>4. EndOK(t, aborted, q[1].micro, kind)
    <3>1. Len(s) \in Nat \ {0} BY <1>1, <1>4 DEF Resumes
    <3>2. Len(t) \in Nat /\ Len(t) > 0 /\ Len(t) # 1 BY <2>2, <3>1
    <3> QED BY <2>2, <3>2, CodeEnds
  <2>5. OnPage(stack) => OnPage(t) BY <1>4, <2>2 DEF OnPage, PageCode, Resumes
  <2>6. TicksOK(t, awaited, outside, kind, runs, q[1].tick, q[1].micro)
    BY <2>5, TicksStay DEF Page
  <2>7. stack' = t BY <1>5, <2>1
  <2> QED BY <1>2, <2>2, <2>3, <2>4, <2>6, <2>7 DEF Page
<1>6. CASE ~Pending(1) /\ stack' = s
  <2>1. q[1].micro = <<>> /\ q[1].tick = <<>> BY <1>6 DEF Pending
  <2>2. Guards(s, q[1]) BY <1>4 DEF Page, Guards, Resumes
  <2>3. EndOK(s, aborted, q[1].micro, kind) BY <2>1, EmptyEnds
  <2>4. TicksOK(s, awaited, outside, kind, runs, q[1].tick, q[1].micro)
    <3>1. PICK tk : tk = q[1].tick OBVIOUS
    <3>2. TicksOK(stack, awaited, outside, kind, runs, tk, <<>>) BY <2>1, <3>1 DEF Page
    <3>3. tk = <<>> BY <2>1, <3>1
    <3>4. TicksOK(s, awaited, outside, kind, runs, tk, <<>>) BY ONLY <3>2, <3>3, EmptyTicks
    <3> QED BY <2>1, <3>1, <3>4
  <2>5. Shape(s) BY <1>4 DEF Resumes
  <2> QED BY <1>2, <1>6, <2>2, <2>3, <2>4, <2>5 DEF Page
<1>7. \/ Pending(1) /\ stack' = Append(s, Frame("drain", 1, 0, "pump"))
      \/ ~Pending(1) /\ stack' = s
  <2>1. Top.k # "async" BY <1>1 DEF Code
  <2> QED BY <1>1, <1>3, <2>1 DEF EndCode
<1> QED BY <1>5, <1>6, <1>7

\* The drain pumps again.
LEMMA DrainAgainStep ==
  ASSUME Page, DrainAgain
  PROVE  Page'
<1>1. ~Ended /\ Top.k = "drain" /\ Top.ph = "check" BY DEF DrainAgain, In
<1>2. VM = 1 /\ Top = stack[Len(stack)] /\ Len(stack) \in Nat \ {0} BY <1>1, TopIs
<1>3. PICK s : s = At("pump") OBVIOUS
<1>4. /\ stack' = s /\ q' = q /\ kind' = kind /\ pr' = pr /\ reactions' = reactions
      /\ items' = items /\ fired' = fired /\ reading' = reading /\ readDone' = readDone
      /\ vms' = vms /\ request' = request
      /\ runs' = runs /\ outside' = outside /\ awaited' = awaited /\ aborted' = aborted
  BY <1>3 DEF DrainAgain, promises, goroutines, history
<1>5. /\ Resumes(stack, s)
      /\ s[Len(stack)].k = "drain" /\ s[Len(stack)].ph = "pump"
  BY <1>1, <1>3, AtIs DEF Phases
<1>6. Shape(s) /\ Len(s) = Len(stack) BY <1>5 DEF Resumes
<1>7. Guards(s, q[1]) BY <1>5 DEF Page, Guards, Resumes
<1>8. EndOK(s, aborted, q[1].micro, kind)
  <2>1. Len(s) = 1 => s[1].k = "main" BY <1>6 DEF Shape
  <2>2. Len(s) \in Nat /\ Len(s) > 0 BY <1>2, <1>6
  <2> QED BY <1>5, <1>6, <2>1, <2>2, CodeEnds
<1>9. ~OnPage(stack) BY <1>1, <1>2 DEF OnPage, PageCode
<1>10. TicksOK(s, awaited, outside, kind, runs, q[1].tick, q[1].micro)
  BY <1>9, TicksStay DEF Page
<1> QED BY <1>4, <1>6, <1>7, <1>8, <1>10 DEF Page

\* The drain leaves no promise callback behind: its first pump has run them.
LEMMA DrainEndStep ==
  ASSUME Page, DrainEnd
  PROVE  Page'
<1>1. ~Ended /\ Top.k = "drain" BY DEF DrainEnd, In
<1>2. VM = 1 /\ Top = stack[Len(stack)] /\ Len(stack) \in Nat \ {0} BY <1>1, TopIs
<1>3. /\ stack' = Below /\ q' = q /\ kind' = kind /\ pr' = pr /\ reactions' = reactions
      /\ items' = items /\ fired' = fired /\ reading' = reading /\ readDone' = readDone
      /\ vms' = vms /\ request' = request
      /\ runs' = runs /\ outside' = outside /\ awaited' = awaited /\ aborted' = aborted
  BY DEF DrainEnd, promises, goroutines
<1>4. /\ Shape(Below) /\ Len(Below) = Len(stack) - 1
      /\ \A k : On(stack, k) <=> On(Below, k) \/ Top.k = k
      /\ \A k : AtMostOne(stack, k) => AtMostOne(Below, k) /\ (Top.k = k => ~On(Below, k))
  BY <1>1, BelowIs
<1>5. /\ Len(Below) \in Nat \ {0} /\ OnTop(Below[Len(Below)], Top)
      /\ Len(Below) = 1 => Below[1].k = "main"
  BY <1>1, CallerIs
<1>6. Below[Len(Below)].k \in Code /\ Below[Len(Below)].ph = "post"
  BY <1>1, <1>5 DEF OnTop
<1>7. Top.ph = "check" \/ q[1].pumping BY <1>2 DEF DrainEnd
<1>8. Shape(stack) /\ Len(stack) > 0 BY <1>2 DEF Page
<1>9. Top.ph = "check" \/ On(stack, "micro")
  <2>1. q[1].pumping => On(stack, "pump") BY DEF Page, Guards
  <2> QED BY <1>1, <1>2, <1>7, <1>8, <2>1, PumpBelow
<1>10. EndOK(Below, aborted, q[1].micro, kind)
  <2>1. CASE Len(Below) = 1
    <3>0. PICK N \in Nat : N = Len(stack) BY <1>2
    <3>1. N - 1 = 1 BY <1>4, <2>1, <3>0
    <3>2. Len(stack) = 2
      <4>1. N = 2 BY ONLY N \in Nat, <3>1
      <4> QED BY <3>0, <4>1
    <3>3. ~On(stack, "micro")
      <4>1. Below[1].k = "main" BY <1>5, <2>1
      <4>2. ~On(Below, "micro") BY <2>1, <4>1 DEF On
      <4> QED BY <1>1, <1>4, <4>2
    <3>4. Top.ph = "check" BY <1>9, <3>3
    <3>5. NoReactions(q[1].micro, kind) BY <1>1, <1>2, <3>2, <3>4 DEF Page, EndOK
    <3> QED BY <2>1, <3>5 DEF EndOK
  <2>2. CASE Len(Below) # 1
    <3>1. Len(Below) = 2 => Below[2].k # "drain" BY <1>6 DEF Code
    <3>2. Len(Below) = 3 => Below[3].k # "pump" BY <1>6 DEF Code
    <3> QED BY <1>5, <2>2, <3>1, <3>2 DEF EndOK
  <2> QED BY <2>1, <2>2
<1>11. TicksOK(Below, awaited, outside, kind, runs, q[1].tick, q[1].micro)
  <2>1. ~OnPage(stack) BY <1>1, <1>2, <1>9 DEF OnPage, PageCode
  <2> QED BY <2>1, TicksStay DEF Page
<1>12. Guards(Below, q[1]) BY <1>1, <1>4 DEF Page, Guards
<1> QED BY <1>3, <1>4, <1>10, <1>11, <1>12 DEF Page

\* A deadline passes, which nothing but the drain looks at.
LEMMA DeadlinePassesStep ==
  ASSUME Page, NEW i \in 1..Depth, DeadlinePasses(i)
  PROVE  Page'
<1>1. /\ q' = q /\ kind' = kind /\ pr' = pr /\ reactions' = reactions
      /\ items' = items /\ fired' = fired /\ reading' = reading /\ readDone' = readDone
      /\ vms' = vms /\ request' = request
      /\ runs' = runs /\ outside' = outside /\ awaited' = awaited /\ aborted' = aborted
  BY DEF DeadlinePasses, promises, goroutines, history
<1>2. PICK s : s = WithLate(stack, i) OBVIOUS
<1>3. stack' = s BY <1>2 DEF DeadlinePasses, WithLate
<1>4. Shape(stack) /\ i \in 1..Len(stack) BY DEF Page, Depth
<1>5. /\ Shape(s) /\ Len(s) = Len(stack)
      /\ \A j \in 1..Len(stack) : s[j].k = stack[j].k /\ s[j].ph = stack[j].ph
      /\ \A k : On(s, k) <=> On(stack, k)
      /\ \A k : AtMostOne(stack, k) => AtMostOne(s, k)
  BY <1>2, <1>4, LateShape
<1>6. Guards(s, q[1]) BY <1>5 DEF Page, Guards
<1>7. PICK N \in Nat : N = Len(stack) BY DEF Page, Shape
<1>8. Len(s) = N /\ \A j \in 1..N : s[j].k = stack[j].k /\ s[j].ph = stack[j].ph
  BY <1>5, <1>7
<1>9. EndOK(s, aborted, q[1].micro, kind)
  <2>1. EndOK(stack, aborted, q[1].micro, kind) BY DEF Page
  <2> QED BY <1>7, <1>8, <2>1 DEF EndOK
<1>10. OnPage(stack) => OnPage(s)
  <2>1. N > 0 => N \in 1..N OBVIOUS
  <2>2. PageCode(stack) => PageCode(s) BY <1>7, <1>8, <2>1 DEF PageCode
  <2> QED BY <1>5, <2>2 DEF OnPage
<1>11. TicksOK(s, awaited, outside, kind, runs, q[1].tick, q[1].micro)
  BY <1>10, TicksStay DEF Page
<1> QED BY <1>1, <1>3, <1>5, <1>6, <1>9, <1>11 DEF Page

-----------------------------------------------------------------------------
(***************************************************************************)
(* A piece of code returns, throws or is ended.                            *)
(***************************************************************************)

\* The stack without a piece of code that is done
LEMMA CodeLeaves ==
  ASSUME Page, ~Ended, Top.k \in Code, Top.k = "main" => Top.ph # "code"
  PROVE  /\ Shape(Below)
         /\ \A r : Guards(stack, r) => Guards(Below, r)
         /\ \A m : EndOK(stack, aborted, m, kind) => EndOK(Below, aborted, m, kind)
         /\ OnPage(stack) => OnPage(Below)
<1>1. Len(stack) \in Nat \ {0} /\ Top = stack[Len(stack)] BY TopIs
<1>2. Shape(stack) BY DEF Page
<1>3. /\ Shape(Below) /\ Len(Below) = Len(stack) - 1
      /\ \A k : On(stack, k) <=> On(Below, k) \/ Top.k = k
      /\ \A k : AtMostOne(stack, k) => AtMostOne(Below, k) /\ (Top.k = k => ~On(Below, k))
  BY BelowIs
<1>4. Top.k # "pump" /\ Top.k # "micro" BY DEF Code
<1>5. \A r : Guards(stack, r) => Guards(Below, r) BY <1>3, <1>4 DEF Guards
<1>6. CASE Top.k = "main"
  <2>1. Len(stack) = 1 BY <1>1, <1>2, <1>6, MainIsFirst
  <2>2. Len(Below) = 0 BY <1>3, <2>1
  <2>3. stack[1].ph # "code" BY <1>1, <1>6, <2>1
  <2>4. \A m : EndOK(stack, aborted, m, kind) => EndOK(Below, aborted, m, kind)
    BY <2>1, <2>2, <2>3 DEF EndOK
  <2>5. ~OnPage(stack) BY <1>1, <1>6, <2>1, <2>3 DEF OnPage, PageCode
  <2> QED BY <1>3, <1>5, <2>4, <2>5
<1>7. CASE Top.k # "main"
  <2>1. /\ Len(Below) \in Nat \ {0} /\ OnTop(Below[Len(Below)], Top)
        /\ Len(Below) = 1 => Below[1].k = "main"
    BY <1>7, CallerIs
  <2>2. \/ Below[Len(Below)].k \in Code /\ Below[Len(Below)].ph = "code"
        \/ Below[Len(Below)].k = "micro"
    BY <1>7, <2>1 DEF OnTop, Code
  <2>3. \A m : EndOK(Below, aborted, m, kind) BY <2>1, <2>2, CodeEnds
  <2>4. OnPage(stack) => OnPage(Below)
    <3> SUFFICES ASSUME OnPage(stack) PROVE OnPage(Below) OBVIOUS
    <3>1. ~On(Below, "micro") BY <1>3 DEF OnPage
    <3>2. Len(Below) \in 1..Len(Below) /\ Len(Below) > 0 BY <2>1
    <3>3. Below[Len(Below)].k # "micro" BY <3>1, <3>2 DEF On
    <3>4. Below[Len(Below)].k # "job"
      BY <1>3, <3>1, <3>2, JobBelow DEF On
    <3> QED BY <2>2, <3>1, <3>2, <3>3, <3>4 DEF OnPage, PageCode, Code
  <2> QED BY <1>3, <1>5, <2>3, <2>4
<1> QED BY <1>6, <1>7

\* A piece of code is left, and a promise callback settles its promise.
LEMMA LeaveStep ==
  ASSUME Page, ~Ended, Top.k \in Code, Top.k = "main" => Top.ph # "code",
         NEW outcome \in {"fulfilled", "rejected"}, NEW stays \in BOOLEAN,
         Leave(outcome, stays),
         UNCHANGED <<kind, goroutines, vms, request, history>>
  PROVE  Page'
<1>1. /\ VM = 1 /\ Top = stack[Len(stack)] /\ Len(stack) \in Nat \ {0} /\ Top \in Frames
  BY TopIs
<1>2. /\ stack' = Below /\ kind' = kind
      /\ items' = items /\ fired' = fired /\ reading' = reading /\ readDone' = readDone
      /\ vms' = vms /\ request' = request
      /\ runs' = runs /\ outside' = outside /\ awaited' = awaited /\ aborted' = aborted
  BY DEF Leave, goroutines, history
<1>3. /\ Shape(Below)
      /\ \A r : Guards(stack, r) => Guards(Below, r)
      /\ \A m : EndOK(stack, aborted, m, kind) => EndOK(Below, aborted, m, kind)
      /\ OnPage(stack) => OnPage(Below)
  BY CodeLeaves
<1>4. q \in [VMs -> Queues] /\ q[1] \in Queues /\ q[1].micro \in Seq(Jobs1) BY QueueIs DEF Page
<1>5. PICK x \in BOOLEAN : x = (q[1].leftover \/ stays)
  <2>1. q[1].leftover \in BOOLEAN BY <1>4 DEF Queues
  <2> QED BY <2>1
<1>6. PICK q1 : q1 = WithLeftover(q, x) OBVIOUS
<1>7. /\ q1 \in [VMs -> Queues]
      /\ q1[1].micro = q[1].micro /\ q1[1].tick = q[1].tick /\ q1[1].imm = q[1].imm
      /\ q1[1].pumping = q[1].pumping /\ q1[1].processing = q[1].processing
  BY ONLY <1>4, <1>6, x \in BOOLEAN, LeftoverSet
<1>8. q1 = [q EXCEPT ![VM].leftover = @ \/ stays] BY <1>1, <1>5, <1>6 DEF WithLeftover
<1>9. PICK m \in Seq(Jobs1) : m = q[1].micro BY <1>4
<1>10. /\ Data(kind, runs, m, q[1].tick, q[1].imm, pr, reactions, items, reading, readDone)
       /\ Guards(stack, q[1])
       /\ EndOK(stack, aborted, m, kind)
       /\ TicksOK(stack, awaited, outside, kind, runs, q[1].tick, m)
       /\ vms = 1 /\ request = 1 /\ fired \in Seq(Ids)
       /\ outside \subseteq {c \in Ids : kind[c] # "none"}
  BY <1>9 DEF Page
<1>11. CASE q' = q1 /\ pr' = pr /\ reactions' = reactions
  <2>1. Guards(Below, q1[1]) BY <1>3, <1>7, <1>10 DEF Guards
  <2>2. TicksOK(Below, awaited, outside, kind, runs, q[1].tick, m) BY <1>3, <1>10, TicksStay
  <2>3. EndOK(Below, aborted, m, kind) BY <1>3, <1>10
  <2> QED BY <1>2, <1>3, <1>7, <1>9, <1>10, <1>11, <2>1, <2>2, <2>3 DEF Page
<1>12. CASE Top.k = "job" /\ Settle(q1, 1, Top.id, outcome) /\ pr[Top.id] = "pending"
  <2>1. Top.id \in Ids
    <3>1. Len(stack) \in 1..Len(stack) BY <1>1
    <3> QED BY <1>1, <1>12, <3>1 DEF Page, Shape
  <2>2. PICK p \in Ids : p = Top.id BY <2>1
  <2>3. PICK l \in Seq(Ids) : l = reactions[p] BY DEF Page, Data, ReactionsOK
  <2>4. PICK j \in Seq(Jobs1) : j = Jobs(1, l)
    <3>1. Jobs(1, l) \in Seq(Jobs1) BY JobsIs
    <3> QED BY <3>1
  <2>5. PICK n \in Seq(Jobs1) : n = m \o j
    <3>1. m \o j \in Seq(Jobs1) OBVIOUS
    <3> QED BY <3>1
  <2>6. PICK q2 : q2 = WithMicro(q1, n) OBVIOUS
  <2>7. /\ q2 \in [VMs -> Queues]
        /\ q2[1].micro = n /\ q2[1].tick = q1[1].tick /\ q2[1].imm = q1[1].imm
        /\ q2[1].pumping = q1[1].pumping /\ q2[1].processing = q1[1].processing
    BY ONLY <1>7, <2>6, n \in Seq(Jobs1), MicroSet
  <2>8. /\ q' = q2 /\ pr' = [pr EXCEPT ![p] = outcome]
        /\ reactions' = [reactions EXCEPT ![p] = <<>>]
    BY <1>7, <1>9, <1>12, <2>2, <2>3, <2>4, <2>5, <2>6 DEF Settle, WithMicro
  <2>9. Data(kind, runs, n, q[1].tick, q[1].imm, pr', reactions', items, reading, readDone)
    <3>1. Data(kind, runs, m \o Jobs(1, reactions[p]), q[1].tick, q[1].imm,
               [pr EXCEPT ![p] = outcome], [reactions EXCEPT ![p] = <<>>], items, reading, readDone)
      BY <1>10, ReactionsMove
    <3> QED BY <2>3, <2>4, <2>5, <2>8, <3>1
  <2>10. Guards(Below, q2[1]) BY <1>3, <1>7, <1>10, <2>7 DEF Guards
  <2>11. TicksOK(Below, awaited, outside, kind, runs, q[1].tick, n)
    <3>1. \A u \in outside : Ahead(m, kind, u) => Ahead(n, kind, u) BY <2>5, AheadMore
    <3> QED BY <1>3, <1>10, <3>1, TicksStay
  <2>12. EndOK(Below, aborted, n, kind)
    <3>1. Top.k # "main" BY <1>12
    <3>2. /\ Len(Below) \in Nat \ {0} /\ OnTop(Below[Len(Below)], Top)
          /\ Len(Below) = 1 => Below[1].k = "main"
      BY <3>1, CallerIs
    <3>3. Below[Len(Below)].k = "micro" BY <1>12, <3>2 DEF OnTop
    <3> QED BY <3>2, <3>3, CodeEnds
  <2> QED BY <1>2, <1>3, <1>7, <1>10, <2>7, <2>8, <2>9, <2>10, <2>11, <2>12 DEF Page
<1>13. \/ q' = q1 /\ pr' = pr /\ reactions' = reactions
       \/ Top.k = "job" /\ Settle(q1, 1, Top.id, outcome) /\ pr[Top.id] = "pending"
  <2>1. Top.k # "async" BY DEF Code
  <2>2. CASE Top.k = "job" /\ kind[Top.id] = "reaction"
    <3>1. Settle(q1, 1, Top.id, outcome) BY <1>1, <1>8, <2>2 DEF Leave
    <3> QED BY <2>2, <3>1 DEF Settle
  <2>3. CASE ~(Top.k = "job" /\ kind[Top.id] = "reaction")
    BY <1>8, <2>1, <2>3 DEF Leave
  <2> QED BY <2>2, <2>3
<1> QED BY <1>11, <1>12, <1>13

\* A piece of code returns.
LEMMA ReturnStep ==
  ASSUME Page, Return
  PROVE  Page'
<1>1. ~Ended /\ Top.k \in CodeFrames /\ (Top.ph = "done" \/ Top.ph = "post") BY DEF Return
<1>2. Top \in Frames BY <1>1, TopIs
<1>3. Top.k \in Code /\ Top.ph # "code" BY <1>1, <1>2 DEF CodeFrames, Frames, Code
<1>4. /\ Leave("fulfilled", FALSE)
      /\ UNCHANGED <<kind, goroutines, vms, request, history>>
  BY DEF Return
<1> QED BY <1>1, <1>3, <1>4, LeaveStep

\* The page ends by an exception or Response.End.
LEMMA AbortStep ==
  ASSUME Page, InCode, Top.k = "main", Abort,
         UNCHANGED <<kind, goroutines, vms, request>>
  PROVE  Page'
<1>1. /\ Top = stack[Len(stack)] /\ Len(stack) \in Nat \ {0} BY CodeNow
<1>2. /\ stack' = <<>> /\ aborted' = TRUE /\ q' = q
      /\ kind' = kind /\ pr' = pr /\ reactions' = reactions
      /\ items' = items /\ fired' = fired /\ reading' = reading /\ readDone' = readDone
      /\ vms' = vms /\ request' = request
      /\ runs' = runs /\ outside' = outside /\ awaited' = awaited
  BY DEF Abort, goroutines
<1>3. Len(stack) = 1 BY <1>1, MainIsFirst DEF Page
<1>4. ~On(stack, "pump") /\ ~On(stack, "micro") BY <1>1, <1>3 DEF On
<1>5. PICK e : e = <<>> OBVIOUS
<1>6. Len(e) = 0 /\ e \in Seq(Frames) BY <1>5
<1>7. Shape(e) BY <1>6 DEF Shape
<1>8. \A k : ~On(e, k) /\ AtMostOne(e, k) BY <1>6 DEF On, AtMostOne
<1>9. Guards(e, q[1]) BY <1>4, <1>8 DEF Page, Guards
<1>10. EndOK(e, TRUE, q[1].micro, kind) BY <1>6 DEF EndOK
<1>11. OnPage(e) BY <1>6, <1>8 DEF OnPage, PageCode
<1>12. TicksOK(e, awaited, outside, kind, runs, q[1].tick, q[1].micro)
  BY <1>11, TicksStay DEF Page
<1>13. stack' = e BY <1>2, <1>5
<1> QED BY <1>2, <1>7, <1>9, <1>10, <1>12, <1>13 DEF Page

\* An exception or the script timeout stops a piece of code.
LEMMA ThrowStep ==
  ASSUME Page, Throw
  PROVE  Page'
<1>1. InCode /\ ~Ended /\ Top.k \in Code BY CodeNow DEF Throw
<1>2. UNCHANGED <<kind, goroutines, vms, request>> BY DEF Throw
<1>3. CASE Top.k = "main" /\ Abort BY <1>1, <1>2, <1>3, AbortStep
<1>4. CASE Top.k = "sync" /\ (\E stays \in BOOLEAN : Leave("rejected", stays)) /\ UNCHANGED history
  <2>1. PICK stays \in BOOLEAN : Leave("rejected", stays) BY <1>4
  <2>2. UNCHANGED <<kind, goroutines, vms, request, history>> BY <1>2, <1>4
  <2> QED BY <1>1, <1>4, <2>1, <2>2, LeaveStep
<1>5. CASE Top.k = "job" /\ Leave("rejected", TRUE) /\ UNCHANGED history
  <2>1. UNCHANGED <<kind, goroutines, vms, request, history>> BY <1>2, <1>5
  <2> QED BY <1>1, <1>5, <2>1, LeaveStep
<1> QED BY <1>1, <1>3, <1>4, <1>5 DEF Throw, Code

\* Response.End in a piece of code
LEMMA ResponseEndStep ==
  ASSUME Page, ResponseEnd
  PROVE  Page'
<1>1. InCode /\ ~Ended /\ Top.k \in Code BY CodeNow DEF ResponseEnd
<1>2. UNCHANGED <<kind, goroutines, vms, request>> BY DEF ResponseEnd
<1>3. CASE Top.k = "main" /\ Abort BY <1>1, <1>2, <1>3, AbortStep
<1>4. CASE Top.k \in {"sync", "job"} /\ Leave("fulfilled", TRUE) /\ UNCHANGED history
  <2>1. UNCHANGED <<kind, goroutines, vms, request, history>> BY <1>2, <1>4
  <2> QED BY <1>1, <1>4, <2>1, LeaveStep
<1> QED BY <1>1, <1>3, <1>4 DEF ResponseEnd, Code

\* await goes on once its promise is settled.
LEMMA AwaitEndStep ==
  ASSUME Page, AwaitEnd
  PROVE  Page'
<1>1. ~Ended /\ Top.k = "await" BY DEF AwaitEnd, In
<1>2. Top = stack[Len(stack)] /\ Len(stack) \in Nat \ {0} BY <1>1, TopIs
<1>3. /\ stack' = Below /\ q' = q /\ kind' = kind /\ pr' = pr /\ reactions' = reactions
      /\ items' = items /\ fired' = fired /\ reading' = reading /\ readDone' = readDone
      /\ vms' = vms /\ request' = request
      /\ runs' = runs /\ outside' = outside /\ awaited' = awaited /\ aborted' = aborted
  BY DEF AwaitEnd, promises, goroutines, history
<1>4. /\ Shape(Below)
      /\ \A k : On(stack, k) <=> On(Below, k) \/ Top.k = k
      /\ \A k : AtMostOne(stack, k) => AtMostOne(Below, k)
  BY <1>1, BelowIs
<1>5. /\ Len(Below) \in Nat \ {0} /\ OnTop(Below[Len(Below)], Top)
      /\ Len(Below) = 1 => Below[1].k = "main"
  BY <1>1, CallerIs
<1>6. Below[Len(Below)].k \in Code /\ Below[Len(Below)].ph = "code"
  BY <1>1, <1>5 DEF OnTop, Code
<1>7. EndOK(Below, aborted, q[1].micro, kind) BY <1>5, <1>6, CodeEnds
<1>8. ~OnPage(stack) BY <1>1, <1>2 DEF OnPage, PageCode
<1>9. TicksOK(Below, awaited, outside, kind, runs, q[1].tick, q[1].micro)
  BY <1>8, TicksStay DEF Page
<1>10. Guards(Below, q[1]) BY <1>1, <1>4 DEF Page, Guards
<1> QED BY <1>3, <1>4, <1>7, <1>9, <1>10 DEF Page

-----------------------------------------------------------------------------
(***************************************************************************)
(* What goes on beside the page.                                           *)
(***************************************************************************)
\* A timer puts its result into the channel, or drops it.
LEMMA FireStep ==
  ASSUME Page, NEW c \in Ids, Fire(c)
  PROVE  Page'
<1>1. /\ stack' = stack /\ q' = q /\ kind' = kind /\ pr' = pr /\ reactions' = reactions
      /\ items' = items /\ reading' = reading /\ readDone' = readDone
      /\ vms' = vms /\ request' = request
      /\ runs' = runs /\ outside' = outside /\ awaited' = awaited /\ aborted' = aborted
  BY DEF Fire, loop, promises, history
<1>2. fired' \in Seq(Ids) BY DEF Fire, Page
<1> QED BY <1>1, <1>2 DEF Page

\* A read puts its result into the channel.
LEMMA ReadEndsStep ==
  ASSUME Page, NEW r \in reading, ReadEnds(r)
  PROVE  Page'
<1>1. /\ stack' = stack /\ q' = q /\ kind' = kind /\ pr' = pr /\ reactions' = reactions
      /\ items' = items /\ fired' = fired /\ vms' = vms /\ request' = request
      /\ runs' = runs /\ outside' = outside /\ awaited' = awaited /\ aborted' = aborted
  BY DEF ReadEnds, loop, promises, history
<1>2. Data(kind, runs, q[1].micro, q[1].tick, q[1].imm, pr, reactions, items,
           reading \ {r}, Append(readDone, r))
  BY ReadDone DEF Page
<1>3. reading' = reading \ {r} /\ readDone' = Append(readDone, r) BY DEF ReadEnds
<1> QED BY <1>1, <1>2, <1>3 DEF Page

-----------------------------------------------------------------------------
(***************************************************************************)
(* The invariant is inductive.                                             *)
(***************************************************************************)
\* A page begins with nothing waiting.
LEMMA InitInv == Init => IInv
<1> SUFFICES ASSUME Init PROVE Page BY DEF IInv
<1>1. 1 \in VMs BY JSAssumption DEF VMs
<1>2. PICK e : e = <<>> OBVIOUS
<1>3. Len(e) = 0 /\ e \in Seq(Jobs1) /\ e \in Seq(Ids) /\ e \in Seq({1} \X Ids) BY <1>2
<1>4. Fresh \in Queues /\ Fresh.micro = e /\ Fresh.tick = e /\ Fresh.imm = e
      /\ Fresh.pumping = FALSE /\ Fresh.processing = FALSE
  BY <1>2, <1>3 DEF Fresh, Queues
<1>5. q \in [VMs -> Queues] /\ q[1] = Fresh BY <1>1, <1>4 DEF Init
<1>6. fired = e /\ reading = {} /\ readDone = e /\ outside = {} /\ vms = 1 /\ request = 1
  BY <1>2 DEF Init
<1>7. PICK f : f = Frame("main", 1, 0, "code") OBVIOUS
<1>8. f \in Frames /\ f.k = "main" /\ f.ph = "code"
  <2>1. 0 \in 0..MaxIds BY JSAssumption
  <2> QED BY <1>7, <2>1, FrameIs DEF Phases
<1>9. stack = <<f>> BY <1>7 DEF Init
<1>10. stack \in Seq(Frames) /\ Len(stack) = 1 /\ stack[1] = f BY <1>8, <1>9
<1>11. Shape(stack) BY <1>8, <1>10 DEF Shape
<1>12. Guards(stack, q[1]) BY <1>4, <1>5, <1>8, <1>10 DEF Guards, On, AtMostOne
<1>13. EndOK(stack, aborted, e, kind) BY <1>2, EmptyEnds
<1>14. TicksOK(stack, awaited, outside, kind, runs, e, e) BY <1>6 DEF TicksOK
<1>15. /\ kind = [c \in Ids |-> "none"] /\ pr = [c \in Ids |-> "none"]
       /\ reactions = [c \in Ids |-> e] /\ items = [c \in Ids |-> "none"]
       /\ runs = [c \in Ids |-> 0]
  BY <1>2 DEF Init
<1>16. /\ kind \in [Ids -> Kinds] /\ pr \in [Ids -> States] /\ runs \in [Ids -> 0..2]
       /\ \A c \in Ids : kind[c] = "none" /\ runs[c] = 0
  BY <1>15 DEF Kinds, States
<1>17. Numbered(kind, runs)
  <2>1. 0 \in 0..MaxIds /\ \A c \in Ids : ~(c <= 0) BY JSAssumption DEF Ids
  <2> QED BY <1>16, <2>1 DEF Numbered
<1>18. Once(kind, runs) BY <1>16 DEF Once
<1>19. MicroOK(e, kind, runs) BY <1>3 DEF MicroOK
<1>20. ListOK(e, "tick", e, kind, runs) /\ ListOK(e, "immediate", e, kind, runs)
  BY <1>3 DEF ListOK
<1>21. ReactionsOK(reactions, pr, e, kind, runs)
  <2>1. reactions \in [Ids -> Seq(Ids)] /\ \A c \in Ids : Len(reactions[c]) = 0
    BY <1>3, <1>15
  <2> QED BY <2>1 DEF ReactionsOK
<1>22. ItemsOK(items, e, kind, runs) BY <1>15 DEF ItemsOK
<1>23. ReadsOK(reading, readDone, e, kind, runs) BY <1>3, <1>6 DEF ReadsOK
<1>24. Kept(kind, runs, pr, reactions, e) BY <1>16 DEF Kept
<1>25. Data(kind, runs, e, e, e, pr, reactions, items, reading, readDone)
  BY <1>16, <1>17, <1>18, <1>19, <1>20, <1>21, <1>22, <1>23, <1>24 DEF Data
<1> QED BY <1>3, <1>4, <1>5, <1>6, <1>11, <1>12, <1>13, <1>14, <1>25 DEF Page

\* Whatever is not a call of an async function leaves the page as it was.
LEMMA CallInv == ASSUME Page, Call PROVE spoiled' \/ Page'
<1>1. CASE AsyncCall BY <1>1 DEF AsyncCall
<1>2. CASE \E k \in {"timeout", "interval"} : SetTimer(k) BY <1>2, SetTimerStep
<1>3. CASE SetImmediate BY <1>3, SetImmediateStep
<1>4. CASE NextTick BY <1>4, NextTickStep
<1>5. CASE NewPromise BY <1>5, NewPromiseStep
<1>6. CASE ReadFile BY <1>6, ReadFileStep
<1>7. CASE \E p \in {0} \cup Ids : Then(p) BY <1>7, ThenStep
<1>8. CASE \E c \in Ids : ClearTimer(c) BY <1>8, ClearTimerStep
<1>9. CASE \E c \in Ids : Refresh(c) BY <1>9, RefreshStep
<1>10. CASE \E c \in Ids : ClearImmediate(c) BY <1>10, ClearImmediateStep
<1>11. CASE \E c \in Ids : Await(c) BY <1>11, AwaitStep
<1>12. CASE \E c \in Ids : \E r \in {"ref", "unref"} : SetRef(c, r) BY <1>12, SetRefStep
<1>13. CASE \E c \in Ids : \E outcome \in {"fulfilled", "rejected"} : Resolve(c, outcome)
  BY <1>13, ResolveStep
<1>14. CASE SyncCall BY <1>14, SyncCallStep
<1> QED
  BY <1>1, <1>2, <1>3, <1>4, <1>5, <1>6, <1>7, <1>8, <1>9, <1>10, <1>11, <1>12, <1>13, <1>14
  DEF Call

\* A step of the loop
LEMMA LoopInv == ASSUME Page, Loop PROVE Page'
BY PumpMicroStep, PumpEndStep, StartJobStep, EndMicroStep, DrainPumpStep, DrainAgainStep,
   DrainEndStep, PostMicroStep, ReturnStep, AwaitMicroStep, AwaitEndStep DEF Loop

\* A step of a timer, a read or a clock
LEMMA BesideInv == ASSUME Page, Beside PROVE Page'
BY FireStep, ReadEndsStep, DeadlinePassesStep DEF Beside

\* Once a page is spoiled it stays so.
LEMMA SpoiledStays == ASSUME spoiled, [Next]_vars PROVE spoiled'
<1>1. CASE Call
  BY <1>1 DEF Call, SetTimer, SetImmediate, NextTick, NewPromise, ReadFile, Then, Create,
     ClearTimer, Refresh, ClearImmediate, Await, SetRef, Resolve, SyncCall, AsyncCall, history
<1>2. CASE Loop
  BY <1>2 DEF Loop, PumpMicro, PumpEnd, StartJob, EndMicro, DrainPump, DrainAgain, DrainEnd,
     PostMicro, Return, AwaitMicro, AwaitEnd, history
<1>3. CASE Beside BY <1>3 DEF Beside, Fire, ReadEnds, DeadlinePasses, history
<1>4. CASE Pump \/ EndCode \/ NextPage BY <1>4 DEF Pump, EndCode, NextPage, history
<1>5. CASE Throw \/ ResponseEnd BY <1>5 DEF Throw, ResponseEnd, Abort, history
<1>6. CASE UNCHANGED vars BY <1>6 DEF vars, history
<1> QED BY <1>1, <1>2, <1>3, <1>4, <1>5, <1>6 DEF Next

\* Every step preserves the invariant.
LEMMA NextInv == ASSUME IInv, [Next]_vars PROVE IInv'
<1> SUFFICES ASSUME ~spoiled' PROVE Page' BY DEF IInv
<1>1. Page BY SpoiledStays DEF IInv
<1>2. CASE Call BY <1>1, <1>2, CallInv
<1>3. CASE Loop BY <1>1, <1>3, LoopInv
<1>4. CASE Beside BY <1>1, <1>4, BesideInv
<1>5. CASE Pump BY <1>1, <1>5, PumpStep
<1>6. CASE EndCode BY <1>1, <1>6, EndCodeStep
<1>7. CASE Throw BY <1>1, <1>7, ThrowStep
<1>8. CASE ResponseEnd BY <1>1, <1>8, ResponseEndStep
<1>9. CASE NextPage BY <1>9 DEF NextPage
<1>10. CASE UNCHANGED vars
  BY <1>1, <1>10 DEF vars, loop, promises, goroutines, history, Page
<1> QED BY <1>2, <1>3, <1>4, <1>5, <1>6, <1>7, <1>8, <1>9, <1>10 DEF Next

-----------------------------------------------------------------------------
\* The invariant holds throughout, for any number of callbacks, timers, reads
\* and nested callbacks and channels of any capacity.
THEOREM LoopInvariance == Spec => []IInv
<1>1. Init => IInv BY InitInv
<1>2. IInv /\ [Next]_vars => IInv' BY NextInv
<1> QED BY <1>1, <1>2, PTL DEF Spec

\* A callback given once waits in one place at most until it is started: the
\* tick and immediate queues, the items and the channels hand over what they
\* held (jsProcessNextTickQueue, jsProcessImmediateQueue, jsHandleTimerFired).
THEOREM CallbacksStartOnce == Spec => []RunsOnce
<1>1. IInv => RunsOnce BY DEF IInv, Page, Data, Once, RunsOnce
<1> QED BY <1>1, LoopInvariance, PTL

\* The guards jsPumpingNodeTasks and jsProcessingMicrotasks keep the loop from
\* starting a job while another one is active.
THEOREM JobsDoNotNest == Spec => []OneJobAtATime
<1>1. IInv => OneJobAtATime
  <2> SUFFICES ASSUME Page
               PROVE  Cardinality({i \in 1..Depth : stack[i].k = "job"}) <= 1
    BY DEF IInv, OneJobAtATime
  <2>1. PICK S : S = {i \in 1..Depth : stack[i].k = "job"} OBVIOUS
  <2>2. Shape(stack) /\ AtMostOne(stack, "micro") BY DEF Page, Guards
  <2>3. PICK N \in Nat : N = Len(stack) BY <2>2 DEF Shape
  <2>4. S = {i \in 1..N : stack[i].k = "job"} BY <2>1, <2>3 DEF Depth
  <2>5. ASSUME NEW i \in S, NEW j \in S PROVE i = j
    <3>1. i \in 1..N /\ j \in 1..N /\ stack[i].k = "job" /\ stack[j].k = "job" BY <2>4
    <3>2. i - 1 \in 1..N /\ j - 1 \in 1..N /\ stack[i - 1].k = "micro" /\ stack[j - 1].k = "micro"
      BY <2>2, <2>3, <3>1, JobBelow
    <3>3. i - 1 = j - 1 BY <2>2, <2>3, <3>2 DEF AtMostOne
    <3> QED BY <3>1, <3>3
  <2>6. CASE S = {} BY <2>1, <2>6, FS_EmptySet
  <2>7. CASE S # {}
    <3>1. PICK i \in S : TRUE BY <2>7
    <3>2. S = {i} BY <2>5, <3>1
    <3>3. Cardinality({i}) = 1 BY FS_Singleton
    <3>4. Cardinality(S) = 1 BY <3>2, <3>3
    <3>5. Cardinality(S) <= 1 BY ONLY <3>4
    <3> QED BY <2>1, <3>5
  <2> QED BY <2>6, <2>7
<1> QED BY <1>1, LoopInvariance, PTL

\* Every entry of the loop puts the ticks before the jobs that wait, so that no
\* promise callback the page gives after a tick overtakes it.
THEOREM TicksRunFirst == Spec => []TicksFirst
<1>1. IInv => TicksFirst
  <2> SUFFICES ASSUME Page, ~awaited, NEW t \in outside, NEW c \in Ids,
                      kind[t] = "tick", kind[c] = "reaction", t < c, runs[c] > 0
               PROVE  runs[t] > 0
    BY DEF IInv, TicksFirst
  <2>1. t \in Ids BY DEF Page
  <2>2. runs[t] \in 0..2 /\ runs[c] \in 0..2 BY <2>1 DEF Page, Data
  <2>3. Later(kind, t, c)
    <3>1. t \in Nat /\ c \in Nat BY <2>1, JSAssumption DEF Ids
    <3> QED BY <3>1 DEF Later
  <2>4. runs[t] = 0 => runs[c] = 0
    <3>1. TicksOK(stack, awaited, outside, kind, runs, q[1].tick, q[1].micro) BY DEF Page
    <3> QED BY <2>3, <3>1 DEF TicksOK
  <2> QED BY <2>2, <2>4
<1> QED BY <1>1, LoopInvariance, PTL

\* A page that ends by itself leaves no promise callback in the queue of jobs:
\* one that has not run waits for a promise that is still pending.
THEOREM SettledReactionsRun == Spec => []ReactionsRun
<1>1. IInv => ReactionsRun
  <2> SUFFICES ASSUME Page, Ended, ~aborted, NEW c \in Ids,
                      kind[c] = "reaction", runs[c] = 0
               PROVE  \E p \in Ids : pr[p] = "pending" /\ c \in ToSet(reactions[p])
    BY DEF IInv, ReactionsRun
  <2>1. Len(stack) = 0 BY DEF Ended
  <2>2. NoReactions(q[1].micro, kind) BY <2>1 DEF Page, EndOK
  <2>3. ~InM(q[1].micro, c) BY <2>2 DEF NoReactions, InM
  <2>4. PICK p \in Ids : pr[p] = "pending" /\ InL(reactions[p], c)
    BY <2>3 DEF Page, Data, Kept
  <2>5. reactions[p] \in Seq(Ids) BY DEF Page, Data, ReactionsOK
  <2>6. c \in ToSet(reactions[p]) BY <2>4, <2>5 DEF InL, ToSet
  <2> QED BY <2>4, <2>6
<1> QED BY <1>1, LoopInvariance, PTL
=============================================================================
