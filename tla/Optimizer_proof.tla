-------------------------- MODULE Optimizer_proof ---------------------------
(***************************************************************************)
(* Proofs about Optimizer. The inductive invariant is that the code has a  *)
(* height of the stack at every instruction, the same whatever way leads   *)
(* there. Every rewrite of a pass keeps the heights, so no run of the code *)
(* finds the stack too short. Folding and pooling constants moreover keep  *)
(* the outcome: the run of the new code goes in step with the run of the   *)
(* old, turn by turn, with the same stack outside what was rewritten. And  *)
(* so does removing a dead branch that no jump gets around.                *)
(***************************************************************************)
EXTENDS Optimizer, FiniteSets, FiniteSetTheorems, WellFoundedInduction, SequenceTheorems, TLAPS

(***************************************************************************)
(* Induction over the natural numbers in a form the provers can use: over  *)
(* a set instead of a formula. It follows from the library's theorems that *)
(* proper inclusion of finite sets is well founded and that every nonempty *)
(* set has a minimal element for such an order.                            *)
(***************************************************************************)
\* Every nonempty set of natural numbers has a least element.
LEMMA LeastElement ==
    ASSUME NEW T \in SUBSET Nat, T # {}
    PROVE  \E n \in T : \A m \in T : n <= m
<1> DEFINE C == {1 .. n : n \in T}
           R == StrictSubsetOrdering(Nat)
<1>1. C \subseteq FiniteSubsetsOf(Nat)
  <2> SUFFICES ASSUME NEW n \in T PROVE (1 .. n) \in FiniteSubsetsOf(Nat) OBVIOUS
  <2>1. IsFiniteSet(1 .. n) BY FS_Interval
  <2> QED BY <2>1 DEF FiniteSubsetsOf
<1>2. C # {} OBVIOUS
<1>3. IsWellFoundedOn(R, FiniteSubsetsOf(Nat)) BY FS_StrictSubsetOrderingWellFounded
<1> HIDE DEF R
<1>4. PICK x \in C : \A y \in C : ~(<<y, x>> \in R)
  <2> HIDE DEF C
  <2> QED BY <1>1, <1>2, <1>3, WFMin
<1>5. PICK n \in T : x = 1 .. n OBVIOUS
<1>6. ASSUME NEW m \in T, ~(n <= m) PROVE FALSE
  <2>1. (1 .. m) \in C OBVIOUS
  <2>2. (1 .. m) \subseteq (1 .. n) /\ (1 .. m) # (1 .. n)
    <3>1. n \in 1 .. n /\ n \notin 1 .. m BY <1>6
    <3>2. (1 .. m) \subseteq (1 .. n) BY <1>6
    <3> QED BY <3>1, <3>2
  <2>3. <<1 .. m, 1 .. n>> \in R
    <3>1. (1 .. m) \in SUBSET Nat /\ (1 .. n) \in SUBSET Nat OBVIOUS
    <3> QED BY <2>2, <3>1 DEF R, StrictSubsetOrdering
  <2> QED BY <1>4, <1>5, <2>1, <2>3
<1> QED BY <1>6

\* Induction over a set: what contains 0 and each successor is Nat.
LEMMA SetInduction ==
    ASSUME NEW T \in SUBSET Nat, 0 \in T, \A n \in T : n + 1 \in T
    PROVE  T = Nat
<1> SUFFICES ASSUME Nat \ T # {} PROVE FALSE OBVIOUS
<1>1. PICK n \in Nat \ T : \A m \in Nat \ T : n <= m BY LeastElement
<1>2. n # 0 OBVIOUS
<1>3. n - 1 \in Nat /\ ~(n <= n - 1) BY <1>2
<1>4. n - 1 \in T BY <1>1, <1>3
<1>5. (n - 1) + 1 = n OBVIOUS
<1> QED BY <1>4, <1>5

(***************************************************************************)
(* The stack: n values, whatever they are.                                 *)
(***************************************************************************)
StackOf(st, n) == n \in Nat /\ st = [k \in 1 .. n |-> st[k]]

\* A stack is a sequence over some set, which may be taken to hold one more value.
LEMMA StackIsSeq ==
    ASSUME NEW st, NEW n, StackOf(st, n), NEW v
    PROVE  \E S : st \in Seq(S) /\ v \in S /\ Len(st) = n /\ n \in Nat
<1> DEFINE S == {st[k] : k \in 1 .. n} \cup {v}
<1>1. n \in Nat /\ st = [k \in 1 .. n |-> st[k]] BY DEF StackOf
<1>2. [k \in 1 .. n |-> st[k]] \in [1 .. n -> S] OBVIOUS
<1>3. st \in [1 .. n -> S] BY <1>1, <1>2
<1>4. st \in Seq(S) /\ Len(st) = n
  <2> HIDE DEF S
  <2> QED BY <1>1, <1>3
<1> QED BY <1>1, <1>4

\* A sequence is a stack of its length.
LEMMA SeqIsStack ==
    ASSUME NEW S, NEW st \in Seq(S)
    PROVE  StackOf(st, Len(st))
BY DEF StackOf

\* Nothing is a stack of height 0.
LEMMA EmptyStack == StackOf(<<>>, 0)
BY DEF StackOf

\* No value, one and two are stacks.
LEMMA ShortStacks ==
    ASSUME NEW x, NEW y
    PROVE  StackOf(<<>>, Len(<<>>)) /\ StackOf(<<x>>, Len(<<x>>)) /\ StackOf(<<x, y>>, Len(<<x, y>>))
<1>1. <<>> \in Seq({x, y}) /\ <<x>> \in Seq({x, y}) /\ <<x, y>> \in Seq({x, y}) OBVIOUS
<1> QED BY <1>1, SeqIsStack

\* Two values pushed one after the other.
LEMMA AppendPair == ASSUME NEW x, NEW y PROVE Append(<<x>>, y) = <<x, y>>
<1>1. PICK S : S = {x, y} OBVIOUS
<1>2. <<x>> \in Seq(S) /\ y \in S /\ Len(<<x>>) = 1 BY <1>1
<1>3. PICK t : t = Append(<<x>>, y) OBVIOUS
<1>4. t \in Seq(S) /\ Len(t) = 2 /\ t[1] = x /\ t[2] = y BY <1>2, <1>3
<1>5. PICK u : u = <<x, y>> OBVIOUS
<1>6. u \in Seq(S) /\ Len(u) = 2 /\ u[1] = x /\ u[2] = y BY <1>1, <1>5
<1>7. \A k \in 1 .. 2 : t[k] = u[k] BY <1>4, <1>6
<1>8. t = u BY ONLY <1>4, <1>6, <1>7
<1> QED BY <1>3, <1>5, <1>8

\* A stack of height 0 is empty.
LEMMA StackAtZero ==
    ASSUME NEW st, StackOf(st, 0)
    PROVE  st = <<>>
<1>1. PICK S : st \in Seq(S) /\ Len(st) = 0 BY StackIsSeq
<1> QED BY <1>1

\* The height of a stack is its length.
LEMMA StackLen ==
    ASSUME NEW st, NEW n, StackOf(st, n)
    PROVE  Len(st) = n /\ n \in Nat
BY StackIsSeq

\* A push adds one to the height.
LEMMA StackPush ==
    ASSUME NEW st, NEW n, StackOf(st, n), NEW v
    PROVE  StackOf(Append(st, v), n + 1)
<1>1. PICK S : st \in Seq(S) /\ v \in S /\ Len(st) = n /\ n \in Nat BY StackIsSeq
<1>2. Append(st, v) \in Seq(S) /\ Len(Append(st, v)) = n + 1 BY <1>1
<1> QED BY <1>2, SeqIsStack

\* The first k + 1 values of f are its first k and one more.
LEMMA PushBelow ==
    ASSUME NEW f, NEW k \in Nat
    PROVE  [m \in 1 .. k + 1 |-> f[m]] = Append([m \in 1 .. k |-> f[m]], f[k + 1])
<1>1. PICK u : u = [m \in 1 .. k |-> f[m]] OBVIOUS
<1>2. PICK w : w = [m \in 1 .. k + 1 |-> f[m]] OBVIOUS
<1>3. PICK S : S = {f[m] : m \in 1 .. k + 1} OBVIOUS
<1>4. u \in [1 .. k -> S] /\ w \in [1 .. k + 1 -> S] /\ f[k + 1] \in S BY <1>1, <1>2, <1>3
<1>5. u \in Seq(S) /\ Len(u) = k /\ w \in Seq(S) /\ Len(w) = k + 1 BY <1>4
<1>6. PICK t : t = Append(u, f[k + 1]) OBVIOUS
<1>7. t \in Seq(S) /\ Len(t) = k + 1 /\ t[k + 1] = f[k + 1] /\ \A m \in 1 .. k : t[m] = u[m] BY <1>4, <1>5, <1>6
<1>8. ASSUME NEW m \in 1 .. k + 1 PROVE w[m] = t[m]
  <2>1. CASE m = k + 1 BY <1>2, <1>7, <2>1
  <2>2. CASE m \in 1 .. k BY <1>1, <1>2, <1>7, <2>2
  <2> QED BY <2>1, <2>2
<1>9. w = t BY <1>5, <1>7, <1>8
<1> QED BY <1>1, <1>2, <1>6, <1>9

\* What a pop leaves is a stack.
LEMMA StackPop ==
    ASSUME NEW st, NEW n, StackOf(st, n), NEW m \in Nat, m <= n
    PROVE  StackOf(SubSeq(st, 1, m), m)
<1>1. PICK S : st \in Seq(S) /\ Len(st) = n /\ n \in Nat BY StackIsSeq
<1>2. SubSeq(st, 1, m) \in Seq(S) /\ Len(SubSeq(st, 1, m)) = m BY <1>1
<1> QED BY <1>2, SeqIsStack

\* Values above a stack make a stack.
LEMMA StackJoin ==
    ASSUME NEW st, NEW n, StackOf(st, n), NEW t, NEW m, StackOf(t, m)
    PROVE  StackOf(st \o t, n + m)
<1> DEFINE S == {st[k] : k \in 1 .. n} \cup {t[k] : k \in 1 .. m}
<1>1. n \in Nat /\ st = [k \in 1 .. n |-> st[k]] /\ m \in Nat /\ t = [k \in 1 .. m |-> t[k]] BY DEF StackOf
<1>2. [k \in 1 .. n |-> st[k]] \in [1 .. n -> S] /\ [k \in 1 .. m |-> t[k]] \in [1 .. m -> S] OBVIOUS
<1>3. st \in [1 .. n -> S] /\ t \in [1 .. m -> S] BY <1>1, <1>2
<1> HIDE DEF S
<1>4. st \in Seq(S) /\ Len(st) = n BY <1>1, <1>3
<1>5. t \in Seq(S) /\ Len(t) = m BY <1>1, <1>3
<1>6. st \o t \in Seq(S) /\ Len(st \o t) = n + m BY <1>1, <1>4, <1>5
<1> QED BY <1>6, SeqIsStack

\* A push above values above a stack.
LEMMA PushJoin ==
    ASSUME NEW st, NEW n, StackOf(st, n), NEW u, NEW m, StackOf(u, m), NEW v
    PROVE  Append(st \o u, v) = st \o Append(u, v)
<1>1. PICK R : st \in Seq(R) BY StackIsSeq
<1>2. PICK S : u \in Seq(S) /\ v \in S BY StackIsSeq
<1>3. PICK Q : st \in Seq(Q) /\ u \in Seq(Q) /\ v \in Q
  <2>1. st \in Seq(R \cup S) /\ u \in Seq(R \cup S) /\ v \in R \cup S BY <1>1, <1>2
  <2> QED BY <2>1
<1> QED BY <1>3

\* Values above values above a stack.
LEMMA JoinJoin ==
    ASSUME NEW st, NEW n, StackOf(st, n), NEW u, NEW m, StackOf(u, m), NEW w, NEW k, StackOf(w, k)
    PROVE  (st \o u) \o w = st \o (u \o w)
<1>1. PICK P : st \in Seq(P) BY StackIsSeq
<1>2. PICK R : u \in Seq(R) BY StackIsSeq
<1>3. PICK S : w \in Seq(S) BY StackIsSeq
<1>4. PICK Q : st \in Seq(Q) /\ u \in Seq(Q) /\ w \in Seq(Q)
  <2>1. st \in Seq(P \cup R \cup S) /\ u \in Seq(P \cup R \cup S) /\ w \in Seq(P \cup R \cup S) BY <1>1, <1>2, <1>3
  <2> QED BY <2>1
<1> QED BY <1>4

\* The two values above a stack.
IsPair(t, st, x, y) == t = st \o <<x, y>>

\* A turn that takes two values takes the two above the stack.
LEMMA PairAbove ==
    ASSUME NEW st, NEW n, StackOf(st, n), NEW x, NEW y, NEW t, IsPair(t, st, x, y)
    PROVE  SubSeq(t, 1, n) = st /\ SubSeq(t, n + 1, n + 2)[1] = x /\ SubSeq(t, n + 1, n + 2)[2] = y
<1>1. PICK S : st \in Seq(S) /\ Len(st) = n /\ n \in Nat BY StackIsSeq
<1>2. PICK Q : st \in Seq(Q) /\ x \in Q /\ y \in Q
  <2>1. st \in Seq(S \cup {x, y}) BY <1>1
  <2> QED BY <2>1
<1>3. t = st \o <<x, y>> BY DEF IsPair
<1>4. t \in Seq(Q) /\ Len(t) = n + 2 BY <1>1, <1>2, <1>3
<1>5. \A k \in 1 .. n : t[k] = st[k] BY <1>1, <1>2, <1>3
<1>6. t[n + 1] = x /\ t[n + 2] = y BY <1>1, <1>2, <1>3
<1>7. SubSeq(t, 1, n) \in Seq(Q) /\ Len(SubSeq(t, 1, n)) = n /\ \A k \in 1 .. n : SubSeq(t, 1, n)[k] = t[k] BY <1>1, <1>4
<1>8. SubSeq(t, 1, n) = st BY <1>1, <1>2, <1>5, <1>7
<1>9. SubSeq(t, n + 1, n + 2)[1] = t[n + 1] /\ SubSeq(t, n + 1, n + 2)[2] = t[n + 2] BY <1>1, <1>4
<1> QED BY <1>6, <1>8, <1>9

(***************************************************************************)
(* One turn of the VM's loop.                                              *)
(***************************************************************************)
IsState(s) ==
    s = [ip |-> s.ip, stack |-> s.stack, env |-> s.env, out |-> s.out, line |-> s.line, status |-> s.status]

\* Where instruction i may leave the state s past it, with m values on its
\* stack.
Lands(i, s, m, r) ==
    /\ IsState(r)
    /\ r.status \in {"running", "ok", "error"}
    /\ r.status = "running" => /\ i.op # "Halt"
                               /\ StackOf(r.stack, m + Results(i))
                               /\ \/ r.ip = s.ip /\ i.op # "Jump"
                                  \/ r.ip = i.to /\ i.op \in TargetOps
    /\ r.status = "ok" => i.op = "Halt" /\ r.stack = s.stack

\* Another status changes nothing else of the state.
LEMMA SetStatus ==
    ASSUME NEW s, IsState(s), NEW x
    PROVE  LET r == [s EXCEPT !.status = x]
           IN  /\ IsState(r) /\ r.status = x /\ r.ip = s.ip /\ r.stack = s.stack
               /\ r.env = s.env /\ r.out = s.out /\ r.line = s.line
BY DEF IsState

\* Another stack changes nothing else of the state.
LEMMA SetStack ==
    ASSUME NEW s, IsState(s), NEW x
    PROVE  LET r == [s EXCEPT !.stack = x]
           IN  /\ IsState(r) /\ r.status = s.status /\ r.ip = s.ip /\ r.stack = x
               /\ r.env = s.env /\ r.out = s.out /\ r.line = s.line
BY DEF IsState

\* Another place changes nothing else of the state.
LEMMA SetIp ==
    ASSUME NEW s, IsState(s), NEW x
    PROVE  LET r == [s EXCEPT !.ip = x]
           IN  /\ IsState(r) /\ r.status = s.status /\ r.ip = x /\ r.stack = s.stack
               /\ r.env = s.env /\ r.out = s.out /\ r.line = s.line
BY DEF IsState

\* Other variables change nothing else of the state.
LEMMA SetEnv ==
    ASSUME NEW s, IsState(s), NEW x
    PROVE  LET r == [s EXCEPT !.env = x]
           IN  IsState(r) /\ r.status = s.status /\ r.ip = s.ip /\ r.stack = s.stack
BY DEF IsState

\* Other output changes nothing else of the state.
LEMMA SetOut ==
    ASSUME NEW s, IsState(s), NEW x
    PROVE  LET r == [s EXCEPT !.out = x]
           IN  IsState(r) /\ r.status = s.status /\ r.ip = s.ip /\ r.stack = s.stack
BY DEF IsState

\* Another line changes nothing else of the state.
LEMMA SetLine ==
    ASSUME NEW s, IsState(s), NEW x
    PROVE  LET r == [s EXCEPT !.line = x]
           IN  IsState(r) /\ r.status = s.status /\ r.ip = s.ip /\ r.stack = s.stack
BY DEF IsState

\* An instruction that raises an error may land anywhere.
LEMMA FailureLands ==
    ASSUME NEW i, NEW s, IsState(s), NEW m
    PROVE  Lands(i, s, m, [s EXCEPT !.status = "error"])
<1>1. PICK r : r = [s EXCEPT !.status = "error"] OBVIOUS
<1>2. IsState(r) /\ r.status = "error" BY SMTT(30), <1>1, SetStatus
<1> QED BY <1>1, <1>2 DEF Lands

\* An instruction that leaves one value, or raises an error.
LEMMA ResultLands ==
    ASSUME NEW i, NEW s, IsState(s), s.status = "running", NEW m, StackOf(s.stack, m), NEW v,
           Results(i) = 1, i.op # "Halt", i.op # "Jump"
    PROVE  Lands(i, s, m, Result(s, v))
<1>1. CASE v = Raise BY <1>1, FailureLands DEF Result
<1>2. CASE v # Raise
  <2>1. PICK r : r = [s EXCEPT !.stack = Append(s.stack, v)] OBVIOUS
  <2>2. IsState(r) /\ r.status = "running" /\ r.ip = s.ip /\ r.stack = Append(s.stack, v) BY ZenonT(60), <2>1, SetStack
  <2>3. StackOf(r.stack, m + 1) BY <2>2, StackPush
  <2>4. Result(s, v) = r BY <1>2, <2>1 DEF Result
  <2> QED BY <2>2, <2>3, <2>4 DEF Lands
<1> QED BY <1>1, <1>2

\* A step that touches neither the stack nor the place.
LEMMA QuietLands ==
    ASSUME NEW i, NEW s, NEW m, StackOf(s.stack, m), NEW r, IsState(r), r.status = "running",
           r.ip = s.ip, r.stack = s.stack, Results(i) = 0, i.op # "Halt", i.op # "Jump"
    PROVE  Lands(i, s, m, r)
BY StackLen DEF Lands

\* An instruction that stores in a variable, or raises an error.
LEMMA StoreLands ==
    ASSUME NEW i, NEW s, IsState(s), s.status = "running", NEW m, StackOf(s.stack, m), NEW x, NEW v,
           Results(i) = 0, i.op # "Halt", i.op # "Jump"
    PROVE  Lands(i, s, m, Store(s, x, v)) /\ Lands(i, s, m, StoreResult(s, x, v))
<1>1. PICK e : e = (x :> v) @@ s.env OBVIOUS
<1>2. PICK r : r = [s EXCEPT !.env = e] OBVIOUS
<1>3. Store(s, x, v) = r BY <1>1, <1>2 DEF Store
<1>4. IsState(r) /\ r.status = "running" /\ r.ip = s.ip /\ r.stack = s.stack BY <1>2, SetEnv
<1>5. Lands(i, s, m, r) BY <1>4, QuietLands
<1>6. CASE v = Raise
  <2>1. StoreResult(s, x, v) = [s EXCEPT !.status = "error"] BY <1>6 DEF StoreResult
  <2> QED BY <1>3, <1>5, <2>1, FailureLands
<1>7. CASE v # Raise
  <2>1. StoreResult(s, x, v) = r BY <1>3, <1>7 DEF StoreResult
  <2> QED BY <1>3, <1>5, <2>1
<1> QED BY <1>6, <1>7

\* An instruction that may jump.
LEMMA JumpLands ==
    ASSUME NEW i, NEW s, NEW m, StackOf(s.stack, m), NEW r, IsState(r), r.status = "running",
           r.ip = s.ip, r.stack = s.stack, Results(i) = 0, i.op \in TargetOps, NEW taken, i.op = "Jump" => taken
    PROVE  Lands(i, s, m, JumpWhen(r, i, taken))
<1>1. i.op # "Halt" BY DEF TargetOps, CompareJumps
<1>2. CASE ~taken
  <2>1. JumpWhen(r, i, taken) = r BY <1>2 DEF JumpWhen
  <2> QED BY <1>1, <1>2, <2>1, QuietLands
<1>3. CASE taken
  <2>1. PICK t : t = [r EXCEPT !.ip = i.to] OBVIOUS
  <2>2. JumpWhen(r, i, taken) = t BY <1>3, <2>1 DEF JumpWhen
  <2>3. IsState(t) /\ t.status = "running" /\ t.ip = i.to /\ t.stack = s.stack BY <2>1, SetIp
  <2> QED BY <1>1, <2>2, <2>3, StackLen DEF Lands
<1> QED BY <1>2, <1>3

\* The end of a For loop, which stores and may jump.
LEMMA ForNextLands ==
    ASSUME NEW i, NEW s, IsState(s), s.status = "running", NEW m, StackOf(s.stack, m),
           i.op = "ForNextFastGlobalInt"
    PROVE  Lands(i, s, m, ForNextStep(s, i))
<1>1. Results(i) = 0 /\ i.op \in TargetOps BY DEF Results, TargetOps, BinaryOps, IntegerOps
<1>2. PICK x, y : x = GlobalOf(s, i.x) /\ y = GlobalOf(s, i.y) OBVIOUS
<1> DEFINE exact == IsInteger(x) /\ IsInteger(y)
           Read(w) == IF exact THEN w.Num ELSE asFloat(w)
<1>3. PICK v : v = CASE i.step < 0 -> subtractValues(x, Integer(1))
                    [] i.step > 0 /\ exact -> Incremented(x)
                    [] OTHER -> addValues(x, Integer(1))
  OBVIOUS
<1>4. PICK after : after = StoreResult(s, i.x, v) OBVIOUS
<1>5. Lands(i, s, m, after) BY <1>1, <1>4, StoreLands
<1>6. PICK taken : taken = (IF i.step > 0 THEN Read(v) <= Read(y) ELSE Read(v) >= Read(y)) OBVIOUS
<1>7. ForNextStep(s, i) = IF v = Raise THEN after ELSE JumpWhen(after, i, taken)
  BY <1>2, <1>3, <1>4, <1>6 DEF ForNextStep
<1>8. CASE v = Raise BY <1>5, <1>7, <1>8
<1>9. CASE v # Raise
  <2>1. PICK e : e = (i.x :> v) @@ s.env OBVIOUS
  <2>2. after = [s EXCEPT !.env = e] BY <1>4, <1>9, <2>1 DEF StoreResult, Store
  <2>3. IsState(after) /\ after.status = "running" /\ after.ip = s.ip /\ after.stack = s.stack BY <2>2, SetEnv
  <2>4. Lands(i, s, m, JumpWhen(after, i, taken)) BY <1>1, <2>3, JumpLands
  <2> QED BY <1>7, <1>9, <2>4
<1> QED BY <1>8, <1>9

\* Every instruction lands where Successors and Results say (the loop of Run, vm.go).
LEMMA EffectLands ==
    ASSUME NEW i, IsInstruction(i), NEW args, NEW s, IsState(s), s.status = "running",
           NEW m, StackOf(s.stack, m)
    PROVE  Lands(i, s, m, Effect(i, args, s))
<1>1. CASE i.op = "Halt"
  <2>1. Effect(i, args, s) = [s EXCEPT !.status = "ok"] BY <1>1 DEF Effect, BinaryOps, IntegerOps, CompareJumps
  <2>2. PICK r : r = [s EXCEPT !.status = "ok"] OBVIOUS
  <2>3. IsState(r) /\ r.status = "ok" /\ r.stack = s.stack BY <2>2, SetStatus
  <2> QED BY <1>1, <2>1, <2>2, <2>3 DEF Lands
<1>2. CASE i.op = "Nop"
  <2>1. Results(i) = 0 BY <1>2 DEF Results, BinaryOps, IntegerOps
  <2>2. Effect(i, args, s) = s BY <1>2 DEF Effect, BinaryOps, IntegerOps, CompareJumps
  <2> QED BY <1>2, <2>1, <2>2, QuietLands
<1>3. CASE i.op = "Line"
  <2>1. Results(i) = 0 BY <1>3 DEF Results, BinaryOps, IntegerOps
  <2>2. PICK r : r = [s EXCEPT !.line = i.n] OBVIOUS
  <2>3. Effect(i, args, s) = r BY <1>3, <2>2 DEF Effect, BinaryOps, IntegerOps, CompareJumps
  <2>4. IsState(r) /\ r.status = s.status /\ r.ip = s.ip /\ r.stack = s.stack BY <2>2, SetLine
  <2> QED BY <1>3, <2>1, <2>3, <2>4, QuietLands
<1>4. CASE i.op = "Constant"
  <2>1. Results(i) = 1 BY <1>4 DEF Results
  <2>2. Effect(i, args, s) = Result(s, i.v) BY <1>4 DEF Effect, BinaryOps, IntegerOps, CompareJumps
  <2> QED BY <1>4, <2>1, <2>2, ResultLands
<1>5. CASE i.op = "ConstantN"
  <2>1. PICK n : n = Len(i.vs) OBVIOUS
  <2>2. Results(i) = n BY <1>5, <2>1 DEF Results, BinaryOps, IntegerOps
  <2>3. StackOf(i.vs, n) BY <1>5, <2>1 DEF IsInstruction, StackOf
  <2>4. PICK t : t = s.stack \o i.vs OBVIOUS
  <2>5. PICK r : r = [s EXCEPT !.stack = t] OBVIOUS
  <2>6. Effect(i, args, s) = r BY <1>5, <2>4, <2>5 DEF Effect, BinaryOps, IntegerOps, CompareJumps
  <2>7. IsState(r) /\ r.status = "running" /\ r.ip = s.ip /\ r.stack = t BY <2>5, SetStack
  <2>8. StackOf(t, m + n) BY <2>3, <2>4, StackJoin
  <2> QED BY <1>5, <2>2, <2>6, <2>7, <2>8 DEF Lands
<1>6. CASE i.op = "GetGlobal"
  <2>1. Results(i) = 1 BY <1>6 DEF Results
  <2>2. Effect(i, args, s) = Result(s, GlobalOf(s, i.x)) BY <1>6 DEF Effect, BinaryOps, IntegerOps, CompareJumps
  <2> QED BY <1>6, <2>1, <2>2, ResultLands
<1>7. CASE i.op = "CoerceToValue"
  <2>1. Results(i) = 1 BY <1>7 DEF Results
  <2>2. Effect(i, args, s) = Result(s, args[1]) BY <1>7 DEF Effect, BinaryOps, IntegerOps, CompareJumps
  <2> QED BY <1>7, <2>1, <2>2, ResultLands
<1>8. CASE i.op \in {"SetGlobal", "LetGlobal"}
  <2>1. Results(i) = 0 BY <1>8 DEF Results, BinaryOps, IntegerOps
  <2>2. Effect(i, args, s) = Store(s, i.x, args[1]) BY <1>8 DEF Effect, BinaryOps, IntegerOps, CompareJumps
  <2> QED BY <1>8, <2>1, <2>2, StoreLands
<1>9. CASE i.op \in {"IncGlobalInt", "DecGlobalInt"}
  <2>1. Results(i) = 0 BY <1>9 DEF Results, BinaryOps, IntegerOps
  <2>2. CASE i.op = "IncGlobalInt"
    <3>1. Effect(i, args, s) = StoreResult(s, i.x, Incremented(GlobalOf(s, i.x))) BY <2>2 DEF Effect, BinaryOps, IntegerOps, CompareJumps
    <3> QED BY <2>1, <2>2, <3>1, StoreLands
  <2>3. CASE i.op = "DecGlobalInt"
    <3>1. Effect(i, args, s) = StoreResult(s, i.x, subtractValues(GlobalOf(s, i.x), Integer(1))) BY <2>3 DEF Effect, BinaryOps, IntegerOps, CompareJumps
    <3> QED BY <2>1, <2>3, <3>1, StoreLands
  <2> QED BY <1>9, <2>2, <2>3
<1>10. CASE i.op = "ForNextFastGlobalInt"
  <2>1. Effect(i, args, s) = ForNextStep(s, i) BY <1>10 DEF Effect, BinaryOps, IntegerOps, CompareJumps
  <2> QED BY <1>10, <2>1, ForNextLands
<1>11. CASE i.op \in BinaryOps
  <2>1. Results(i) = 1 /\ i.op # "Halt" /\ i.op # "Jump" BY <1>11 DEF Results, BinaryOps
  <2>2. Effect(i, args, s) = Result(s, BinaryOp(i.op, args[1], args[2])) BY <1>11 DEF Effect, BinaryOps, IntegerOps, CompareJumps
  <2> QED BY <2>1, <2>2, ResultLands
<1>12. CASE i.op \in IntegerOps
  <2>1. Results(i) = 1 /\ i.op # "Halt" /\ i.op # "Jump" BY <1>12 DEF Results, IntegerOps
  <2>2. Effect(i, args, s) = Result(s, IntegerOp(i.op, coerceInt64(args[1]), coerceInt64(args[2])))
    BY <1>12 DEF Effect, BinaryOps, IntegerOps, CompareJumps
  <2> QED BY <2>1, <2>2, ResultLands
<1>13. CASE i.op \in {"Neg", "Not"}
  <2>1. Results(i) = 1 BY <1>13 DEF Results
  <2>2. Effect(i, args, s) = Result(s, UnaryOp(i.op, args[1])) BY <1>13 DEF Effect, BinaryOps, IntegerOps, CompareJumps
  <2> QED BY <1>13, <2>1, <2>2, ResultLands
<1>14. CASE i.op \in {"Jump", "JumpIfFalse", "JumpIfTrue"} \cup CompareJumps
  <2>1. Results(i) = 0 /\ i.op \in TargetOps BY <1>14 DEF Results, TargetOps, CompareJumps, BinaryOps, IntegerOps
  <2>2. PICK taken : Effect(i, args, s) = JumpWhen(s, i, taken) /\ (i.op = "Jump" => taken)
    <3>1. CASE i.op = "Jump" BY <3>1 DEF Effect, BinaryOps, IntegerOps, CompareJumps
    <3>2. CASE i.op = "JumpIfFalse" BY <3>2 DEF Effect, BinaryOps, IntegerOps, CompareJumps
    <3>3. CASE i.op = "JumpIfTrue" BY <3>3 DEF Effect, BinaryOps, IntegerOps, CompareJumps
    <3>4. CASE i.op \in CompareJumps BY <3>4 DEF Effect, BinaryOps, IntegerOps, CompareJumps
    <3> QED BY <1>14, <3>1, <3>2, <3>3, <3>4
  <2> QED BY <2>1, <2>2, JumpLands
<1>15. CASE i.op \in {"Write", "WriteN"}
  <2>1. Results(i) = 0 BY <1>15 DEF Results, BinaryOps, IntegerOps
  <2>2. PICK o : o = Written(s.out, args) OBVIOUS
  <2>3. PICK r : r = [s EXCEPT !.out = o] OBVIOUS
  <2>4. Effect(i, args, s) = r BY <1>15, <2>2, <2>3 DEF Effect, BinaryOps, IntegerOps, CompareJumps
  <2>5. IsState(r) /\ r.status = s.status /\ r.ip = s.ip /\ r.stack = s.stack BY <2>3, SetOut
  <2> QED BY <1>15, <2>1, <2>4, <2>5, QuietLands
<1> QED BY <1>1, <1>2, <1>3, <1>4, <1>5, <1>6, <1>7, <1>8, <1>9, <1>10, <1>11, <1>12, <1>13, <1>14, <1>15
    DEF IsInstruction, Opcodes, TargetOps
(***************************************************************************)
(* The run.                                                                *)
(***************************************************************************)
\* What holds of every state of a run of the code c with the heights h.
OnTrack(c, h, s) ==
    /\ IsState(s)
    /\ s.status \in {"running", "ok", "error"}
    /\ s.status = "running" => s.ip \in 1 .. Len(c) /\ StackOf(s.stack, h[s.ip])
    /\ s.status = "ok" => s.stack = <<>>

\* An instruction takes a number of values.
LEMMA OperandsType ==
    ASSUME NEW i, IsInstruction(i)
    PROVE  Operands(i) \in Nat
BY DEF Operands, IsInstruction

\* A turn stays on track, and goes to a successor of the instruction.
LEMMA TurnOnTrack ==
    ASSUME NEW c, NEW h, IsHeight(c, h), NEW s, OnTrack(c, h, s), s.status = "running"
    PROVE  /\ OnTrack(c, h, Turn(c, s))
           /\ Turn(c, s).status = "running" => Turn(c, s).ip \in Successors(c, s.ip)
<1>1. PICK p \in 1 .. Len(c) : p = s.ip BY DEF OnTrack
<1>2. IsState(s) /\ StackOf(s.stack, h[p]) /\ DOMAIN c = 1 .. Len(c) /\ Len(c) \in Nat BY <1>1 DEF OnTrack, IsHeight
<1>3. PICK i : i = c[p] OBVIOUS
<1>4. /\ IsInstruction(i) /\ h[p] >= Operands(i) /\ (i.op = "Halt" => h[p] = 0)
      /\ \A q \in Successors(c, p) : q \in 1 .. Len(c) /\ h[q] = h[p] - Operands(i) + Results(i)
  BY <1>2, <1>3 DEF IsHeight
<1>5. PICK o \in Nat : o = Operands(i) BY <1>4, OperandsType
<1>6. Len(s.stack) = h[p] /\ h[p] \in Nat BY <1>2, StackLen
<1>7. PICK m \in Nat : m = h[p] - o BY <1>4, <1>5, <1>6
<1>8. PICK t : t = SubSeq(s.stack, 1, m) OBVIOUS
<1>9. StackOf(t, m) BY <1>2, <1>5, <1>6, <1>7, <1>8, StackPop
<1>10. PICK args : args = SubSeq(s.stack, m + 1, Len(s.stack)) OBVIOUS
<1>11. PICK u : u = [s EXCEPT !.ip = p + 1, !.stack = t] OBVIOUS
<1>12. IsState(u) /\ u.ip = p + 1 /\ u.stack = t /\ u.status = "running" BY <1>2, <1>11 DEF IsState
<1>13. Turn(c, s) = Effect(i, args, u)
  <2>1. ~(s.ip > Len(c)) /\ c[s.ip] = i /\ Len(s.stack) - Operands(i) = m /\ ~(m < 0)
    BY <1>1, <1>2, <1>3, <1>5, <1>6, <1>7
  <2> QED BY <1>1, <1>8, <1>10, <1>11, <2>1 DEF Turn
<1>14. PICK r : r = Turn(c, s) OBVIOUS
<1>15. Lands(i, u, m, r) BY <1>4, <1>9, <1>12, <1>13, <1>14, EffectLands
<1>16. CASE r.status = "running"
  <2>1. r.ip \in Successors(c, p)
    <3>1. CASE r.ip = i.to /\ i.op \in TargetOps BY <1>3, <3>1 DEF Successors
    <3>2. CASE r.ip = p + 1 /\ i.op # "Jump"
      <4>1. i.op # "Halt" BY <1>15, <1>16 DEF Lands
      <4> QED BY <1>3, <3>2, <4>1 DEF Successors
    <3> QED BY <1>12, <1>15, <1>16, <3>1, <3>2 DEF Lands
  <2>2. r.ip \in 1 .. Len(c) /\ h[r.ip] = h[p] - Operands(i) + Results(i) BY <1>4, <2>1
  <2>3. h[r.ip] = m + Results(i) BY <1>5, <1>7, <2>2
  <2> QED BY <1>1, <1>14, <1>15, <1>16, <2>1, <2>2, <2>3 DEF Lands, OnTrack
<1>17. CASE r.status = "ok"
  <2>1. i.op = "Halt" /\ r.stack = t BY <1>12, <1>15, <1>17 DEF Lands
  <2>2. h[p] = 0 BY <1>4, <2>1
  <2>3. m = 0 BY <1>5, <1>7, <2>2
  <2>4. t = <<>> BY <1>9, <2>3, StackAtZero
  <2> QED BY <1>14, <1>15, <1>17, <2>1, <2>4 DEF Lands, OnTrack
<1>18. CASE r.status = "error" BY <1>14, <1>15, <1>18 DEF Lands, OnTrack
<1> QED BY <1>15, <1>16, <1>17, <1>18 DEF Lands

\* The states of a slice.
LEMMA SliceTable ==
    ASSUME NEW c, NEW s
    PROVE  \E g : /\ g[0] = s /\ Slice(c, s) = g[Interval]
                  /\ \A i \in 1 .. Interval : g[i] = IF g[i - 1].status = "running" THEN Turn(c, g[i - 1]) ELSE g[i - 1]
<1> DEFINE Table(g, n) == g = [i \in 0 .. n |-> IF i = 0 THEN s ELSE IF g[i - 1].status = "running" THEN Turn(c, g[i - 1]) ELSE g[i - 1]]
           T == {n \in Nat : \E g : Table(g, n)}
           g0 == CHOOSE g : Table(g, Interval)
<1>1. Interval \in Nat BY BoundsAssumption
<1>2. 0 \in T
  <2>1. Table([i \in 0 .. 0 |-> s], 0) OBVIOUS
  <2> QED BY <2>1
<1>3. ASSUME NEW n \in T PROVE n + 1 \in T
  <2>1. PICK g : Table(g, n) OBVIOUS
  <2> DEFINE k == [i \in 0 .. n + 1 |-> IF i = n + 1 THEN IF g[n].status = "running" THEN Turn(c, g[n]) ELSE g[n] ELSE g[i]]
  <2>2. ASSUME NEW i \in 0 .. n + 1 PROVE k[i] = IF i = 0 THEN s ELSE IF k[i - 1].status = "running" THEN Turn(c, k[i - 1]) ELSE k[i - 1]
    <3>1. CASE i = n + 1
      <4>1. i # 0 /\ i - 1 = n /\ i - 1 # n + 1 /\ i - 1 \in 0 .. n + 1 BY <3>1
      <4>2. k[i - 1] = g[n] BY <4>1
      <4> QED BY <3>1, <4>1, <4>2
    <3>2. CASE i = 0 BY <2>1, <3>2
    <3>3. CASE i \in 1 .. n
      <4>1. i \in 0 .. n /\ i # 0 /\ i # n + 1 /\ i - 1 # n + 1 /\ i - 1 \in 0 .. n + 1 BY <3>3
      <4>2. k[i - 1] = g[i - 1] /\ k[i] = g[i] BY <4>1
      <4>3. g[i] = IF g[i - 1].status = "running" THEN Turn(c, g[i - 1]) ELSE g[i - 1] BY <2>1, <4>1
      <4> QED BY <4>1, <4>2, <4>3
    <3> QED BY <3>1, <3>2, <3>3
  <2>3. Table(k, n + 1)
    <3> HIDE DEF k
    <3>1. k = [i \in 0 .. n + 1 |-> k[i]] BY DEF k
    <3> QED BY <2>2, <3>1
  <2>4. n + 1 \in Nat OBVIOUS
  <2> HIDE DEF Table, k
  <2> QED BY <2>3, <2>4
<1>4. T = Nat
  <2> HIDE DEF T
  <2>1. T \in SUBSET Nat BY SMTT(30) DEF T
  <2> QED BY <1>2, <1>3, <2>1, SetInduction
<1>5. Table(g0, Interval) BY <1>1, <1>4
<1>6. Slice(c, s) = g0[Interval] BY DEF Slice, Repeat
<1> HIDE DEF g0
<1>7. g0[0] = s BY <1>1, <1>5
<1>8. ASSUME NEW i \in 1 .. Interval PROVE g0[i] = IF g0[i - 1].status = "running" THEN Turn(c, g0[i - 1]) ELSE g0[i - 1]
  <2>1. i \in 0 .. Interval /\ i # 0 BY <1>1
  <2> QED BY <1>5, <2>1
<1> QED BY <1>6, <1>7, <1>8

\* The states of a run, slice by slice.
LEMMA RunTable ==
    ASSUME NEW c
    PROVE  \E g : /\ g[0] = Loaded /\ Executed(c) = g[Slices]
                  /\ \A i \in 1 .. Slices : g[i] = IF g[i - 1].status = "running" THEN Slice(c, g[i - 1]) ELSE g[i - 1]
<1> DEFINE Table(g, n) == g = [i \in 0 .. n |-> IF i = 0 THEN Loaded ELSE IF g[i - 1].status = "running" THEN Slice(c, g[i - 1]) ELSE g[i - 1]]
           T == {n \in Nat : \E g : Table(g, n)}
           g0 == CHOOSE g : Table(g, Slices)
<1>1. Slices \in Nat BY BoundsAssumption
<1>2. 0 \in T
  <2>1. Table([i \in 0 .. 0 |-> Loaded], 0) OBVIOUS
  <2> QED BY <2>1
<1>3. ASSUME NEW n \in T PROVE n + 1 \in T
  <2>1. PICK g : Table(g, n) OBVIOUS
  <2> DEFINE k == [i \in 0 .. n + 1 |-> IF i = n + 1 THEN IF g[n].status = "running" THEN Slice(c, g[n]) ELSE g[n] ELSE g[i]]
  <2>2. ASSUME NEW i \in 0 .. n + 1 PROVE k[i] = IF i = 0 THEN Loaded ELSE IF k[i - 1].status = "running" THEN Slice(c, k[i - 1]) ELSE k[i - 1]
    <3>1. CASE i = n + 1
      <4>1. i # 0 /\ i - 1 = n /\ i - 1 # n + 1 /\ i - 1 \in 0 .. n + 1 BY <3>1
      <4>2. k[i - 1] = g[n] BY <4>1
      <4> QED BY <3>1, <4>1, <4>2
    <3>2. CASE i = 0 BY <2>1, <3>2
    <3>3. CASE i \in 1 .. n
      <4>1. i \in 0 .. n /\ i # 0 /\ i # n + 1 /\ i - 1 # n + 1 /\ i - 1 \in 0 .. n + 1 BY <3>3
      <4>2. k[i - 1] = g[i - 1] /\ k[i] = g[i] BY <4>1
      <4>3. g[i] = IF g[i - 1].status = "running" THEN Slice(c, g[i - 1]) ELSE g[i - 1] BY <2>1, <4>1
      <4> QED BY <4>1, <4>2, <4>3
    <3> QED BY <3>1, <3>2, <3>3
  <2>3. Table(k, n + 1)
    <3> HIDE DEF k
    <3>1. k = [i \in 0 .. n + 1 |-> k[i]] BY DEF k
    <3> QED BY <2>2, <3>1
  <2>4. n + 1 \in Nat OBVIOUS
  <2> HIDE DEF Table, k
  <2> QED BY <2>3, <2>4
<1>4. T = Nat
  <2> HIDE DEF T
  <2>1. T \in SUBSET Nat BY SMTT(30) DEF T
  <2> QED BY <1>2, <1>3, <2>1, SetInduction
<1>5. Table(g0, Slices) BY <1>1, <1>4
<1>6. Executed(c) = g0[Slices] BY DEF Executed, Repeat
<1> HIDE DEF g0
<1>7. g0[0] = Loaded BY <1>1, <1>5
<1>8. ASSUME NEW i \in 1 .. Slices PROVE g0[i] = IF g0[i - 1].status = "running" THEN Slice(c, g0[i - 1]) ELSE g0[i - 1]
  <2>1. i \in 0 .. Slices /\ i # 0 BY <1>1
  <2> QED BY <1>5, <2>1
<1> QED BY <1>6, <1>7, <1>8

\* A slice stays on track.
LEMMA SliceOnTrack ==
    ASSUME NEW c, NEW h, IsHeight(c, h), NEW s, OnTrack(c, h, s)
    PROVE  OnTrack(c, h, Slice(c, s))
<1>1. PICK g : /\ g[0] = s /\ Slice(c, s) = g[Interval]
               /\ \A i \in 1 .. Interval : g[i] = IF g[i - 1].status = "running" THEN Turn(c, g[i - 1]) ELSE g[i - 1]
  BY SliceTable
<1> DEFINE T == {n \in Nat : n <= Interval => OnTrack(c, h, g[n])}
<1>2. 0 \in T BY <1>1
<1>3. ASSUME NEW n \in T PROVE n + 1 \in T
  <2> SUFFICES ASSUME n + 1 <= Interval PROVE OnTrack(c, h, g[n + 1]) OBVIOUS
  <2>1. OnTrack(c, h, g[n]) BY BoundsAssumption
  <2>2. PICK i \in 1 .. Interval : i = n + 1 /\ i - 1 = n BY BoundsAssumption
  <2>3. g[i] = IF g[n].status = "running" THEN Turn(c, g[n]) ELSE g[n] BY <1>1, <2>2
  <2>4. CASE g[n].status = "running" BY <2>1, <2>2, <2>3, <2>4, TurnOnTrack
  <2>5. CASE g[n].status # "running" BY <2>1, <2>2, <2>3, <2>5
  <2> QED BY <2>4, <2>5
<1>4. T = Nat
  <2> HIDE DEF T
  <2>1. T \in SUBSET Nat BY DEF T
  <2> QED BY <1>2, <1>3, <2>1, SetInduction
<1>5. Interval \in T BY <1>4, BoundsAssumption
<1> QED BY <1>1, <1>5, BoundsAssumption

\* A run, from the state a page is loaded in, stays on track.
LEMMA RunOnTrack ==
    ASSUME NEW c, NEW h, IsHeight(c, h)
    PROVE  OnTrack(c, h, Executed(c))
<1>1. PICK g : /\ g[0] = Loaded /\ Executed(c) = g[Slices]
               /\ \A i \in 1 .. Slices : g[i] = IF g[i - 1].status = "running" THEN Slice(c, g[i - 1]) ELSE g[i - 1]
  BY RunTable
<1> DEFINE T == {n \in Nat : n <= Slices => OnTrack(c, h, g[n])}
<1>2. 0 \in T
  <2>1. IsState(Loaded) /\ Loaded.status = "running" /\ Loaded.ip = 1 /\ Loaded.stack = <<>> BY DEF Loaded, IsState
  <2>2. 1 \in 1 .. Len(c) /\ h[1] = 0 BY DEF IsHeight
  <2> QED BY <1>1, <2>1, <2>2, EmptyStack DEF OnTrack
<1>3. ASSUME NEW n \in T PROVE n + 1 \in T
  <2> SUFFICES ASSUME n + 1 <= Slices PROVE OnTrack(c, h, g[n + 1]) OBVIOUS
  <2>1. OnTrack(c, h, g[n]) BY BoundsAssumption
  <2>2. PICK i \in 1 .. Slices : i = n + 1 /\ i - 1 = n BY BoundsAssumption
  <2>3. g[i] = IF g[n].status = "running" THEN Slice(c, g[n]) ELSE g[n] BY <1>1, <2>2
  <2> QED BY <2>1, <2>2, <2>3, SliceOnTrack
<1>4. T = Nat
  <2> HIDE DEF T
  <2>1. T \in SUBSET Nat BY DEF T
  <2> QED BY <1>2, <1>3, <2>1, SetInduction
<1>5. Slices \in T BY <1>4, BoundsAssumption
<1> QED BY <1>1, <1>5, BoundsAssumption

\* Code with the same height of the stack on every way runs without a panic,
\* and leaves nothing on the stack when it ends.
LEMMA BalancedRun ==
    ASSUME NEW c, NEW h, IsHeight(c, h)
    PROVE  Run(c).status # "panic" /\ (Run(c).status = "ok" => Run(c).stack = <<>>)
<1>1. PICK s : s = Executed(c) OBVIOUS
<1>2. OnTrack(c, h, s) BY <1>1, RunOnTrack
<1>3. CASE s.status = "running"
  <2>1. PICK r : r = [s EXCEPT !.status = "timeout"] OBVIOUS
  <2>2. Run(c) = r BY <1>1, <1>3, <2>1 DEF Run
  <2>3. r.status = "timeout" BY <1>2, <2>1, SetStatus DEF OnTrack
  <2> QED BY <2>2, <2>3
<1>4. CASE s.status # "running"
  <2>1. Run(c) = s BY <1>1, <1>4 DEF Run
  <2> QED BY <1>2, <2>1 DEF OnTrack
<1> QED BY <1>3, <1>4

(***************************************************************************)
(* A rewrite: instruction a becomes x, and what follows it up to b padding. *)
(***************************************************************************)
IsRewrite(c, a, b, x, d) ==
    /\ Len(d) = Len(c) /\ DOMAIN d = 1 .. Len(c)
    /\ d[a] = x
    /\ \A p \in a + 1 .. b : d[p] = Nop
    /\ \A p \in 1 .. Len(c) : p \notin a .. b => d[p] = c[p]

\* Padding does nothing.
LEMMA NopFacts == IsInstruction(Nop) /\ Operands(Nop) = 0 /\ Results(Nop) = 0 /\ Nop.op = "Nop" /\ Nop.op \notin TargetOps
BY DEF Nop, Op, IsInstruction, Operands, Results, Opcodes, BinaryOps, IntegerOps, CompareJumps, TargetOps

\* What an instruction jumps to is a jump target.
LEMMA TargetOf ==
    ASSUME NEW c, NEW p \in DOMAIN c, c[p].op \in TargetOps
    PROVE  c[p].to \in collectJumpTargets(c)
BY DEF collectJumpTargets

\* What IsHeight says of one instruction.
LEMMA HeightAt ==
    ASSUME NEW c, NEW h, IsHeight(c, h), NEW p \in 1 .. Len(c)
    PROVE  /\ h[p] \in Nat /\ IsInstruction(c[p]) /\ h[p] >= Operands(c[p]) /\ Operands(c[p]) \in Nat
           /\ c[p].op = "Halt" => h[p] = 0
           /\ c[p].op \in TargetOps =>
                 c[p].to \in 1 .. Len(c) /\ h[c[p].to] = h[p] - Operands(c[p]) + Results(c[p])
           /\ c[p].op \notin {"Jump", "Halt"} =>
                 p + 1 \in 1 .. Len(c) /\ h[p + 1] = h[p] - Operands(c[p]) + Results(c[p])
<1>1. DOMAIN c = 1 .. Len(c) BY DEF IsHeight
<1>2. h[p] \in Nat /\ IsInstruction(c[p]) /\ h[p] >= Operands(c[p]) /\ (c[p].op = "Halt" => h[p] = 0)
  BY <1>1 DEF IsHeight
<1>3. \A q \in Successors(c, p) : q \in 1 .. Len(c) /\ h[q] = h[p] - Operands(c[p]) + Results(c[p])
  BY <1>1 DEF IsHeight
<1>4. c[p].op \in TargetOps => c[p].to \in Successors(c, p) BY DEF Successors
<1>5. c[p].op \notin {"Jump", "Halt"} => p + 1 \in Successors(c, p) BY DEF Successors
<1>6. Operands(c[p]) \in Nat BY <1>2, OperandsType
<1> QED BY <1>2, <1>3, <1>4, <1>5, <1>6

\* What is to be shown of one instruction for the heights.
FitsAt(d, g, N, p) ==
    /\ IsInstruction(d[p]) /\ g[p] >= Operands(d[p]) /\ (d[p].op = "Halt" => g[p] = 0)
    /\ d[p].op \in TargetOps => d[p].to \in 1 .. N /\ g[d[p].to] = g[p] - Operands(d[p]) + Results(d[p])
    /\ d[p].op \notin {"Jump", "Halt"} => p + 1 \in 1 .. N /\ g[p + 1] = g[p] - Operands(d[p]) + Results(d[p])

\* Heights that fit at every instruction are heights of the code.
LEMMA HeightOf ==
    ASSUME NEW d, NEW N \in Nat \ {0}, Len(d) = N, DOMAIN d = 1 .. N, NEW g \in [1 .. N -> Nat], g[1] = 0,
           \A p \in 1 .. N : FitsAt(d, g, N, p)
    PROVE  IsHeight(d, g)
<1>1. ASSUME NEW p \in 1 .. N, NEW q \in Successors(d, p)
      PROVE  q \in 1 .. N /\ g[q] = g[p] - Operands(d[p]) + Results(d[p])
  <2>1. (d[p].op \in TargetOps /\ q = d[p].to) \/ (d[p].op \notin {"Jump", "Halt"} /\ q = p + 1) BY <1>1 DEF Successors
  <2> QED BY <2>1 DEF FitsAt
<1> QED BY <1>1 DEF IsHeight, FitsAt

\* A rewrite has heights, if the instruction x fits at a and at what follows the
\* padding, and no jump lands in the padding; its jumps lead to places in T.
LEMMA RewriteHeight ==
    ASSUME NEW c, NEW h, IsHeight(c, h), NEW T, collectJumpTargets(c) \subseteq T,
           NEW a \in 1 .. Len(c), NEW b \in 1 .. Len(c), a <= b, b + 1 <= Len(c),
           ~hasTargetInRange(T, a + 1, b),
           NEW x, IsInstruction(x), x.op \notin {"Jump", "Halt"}, h[a] >= Operands(x),
           NEW v \in Nat, v = h[a] - Operands(x) + Results(x), h[b + 1] = v,
           x.op \in TargetOps => x.to \in T /\ x.to \in 1 .. Len(c) /\ h[x.to] = v,
           NEW d, IsRewrite(c, a, b, x, d)
    PROVE  (\E g : IsHeight(d, g)) /\ collectJumpTargets(d) \subseteq T
<1>1. PICK N \in Nat \ {0} : N = Len(c) BY DEF IsHeight
<1>2. DOMAIN c = 1 .. N /\ h \in [1 .. N -> Nat] /\ h[1] = 0 BY <1>1 DEF IsHeight
<1>3. Len(d) = N /\ DOMAIN d = 1 .. N BY <1>1 DEF IsRewrite
<1>4. a \in 1 .. N /\ b \in 1 .. N /\ b + 1 \in 1 .. N BY <1>1
<1> DEFINE g == [p \in 1 .. N |-> IF p \in a + 1 .. b THEN v ELSE h[p]]
<1>5. g \in [1 .. N -> Nat] BY <1>2
<1>6. g[1] = 0 BY <1>2, <1>4
<1>7. ASSUME NEW t \in T, t \in 1 .. N PROVE g[t] = h[t] BY <1>7 DEF hasTargetInRange
<1>8. g[a] = h[a] /\ g[b + 1] = v /\ \A p \in a + 1 .. b : g[p] = v BY <1>4
<1>9. \A p \in 1 .. N : p \notin a + 1 .. b => g[p] = h[p] OBVIOUS
<1> HIDE DEF g
<1>10. ASSUME NEW p \in 1 .. N
       PROVE  /\ IsInstruction(d[p]) /\ g[p] >= Operands(d[p]) /\ (d[p].op = "Halt" => g[p] = 0)
              /\ d[p].op \in TargetOps => d[p].to \in 1 .. N /\ g[d[p].to] = g[p] - Operands(d[p]) + Results(d[p])
              /\ d[p].op \notin {"Jump", "Halt"} =>
                    p + 1 \in 1 .. N /\ g[p + 1] = g[p] - Operands(d[p]) + Results(d[p])
              /\ d[p].op \in TargetOps => d[p].to \in T
  <2>1. CASE p = a
    <3>1. d[p] = x BY <2>1 DEF IsRewrite
    <3>2. p + 1 \in 1 .. N /\ g[p + 1] = v
      <4>1. CASE a = b BY <1>4, <1>8, <2>1, <4>1
      <4>2. CASE a # b
        <5>1. a + 1 \in a + 1 .. b /\ a + 1 \in 1 .. N BY <1>4, <4>2
        <5> QED BY <1>8, <2>1, <5>1
      <4> QED BY <4>1, <4>2
    <3>3. x.op \in TargetOps => x.to \in 1 .. N /\ g[x.to] = v /\ x.to \in T BY <1>1, <1>7
    <3>4. g[p] = h[a] BY <1>8, <2>1
    <3> QED BY <3>1, <3>2, <3>3, <3>4
  <2>2. CASE p \in a + 1 .. b
    <3>1. d[p] = Nop BY <2>2 DEF IsRewrite
    <3>2. g[p] = v BY <1>8, <2>2
    <3>3. p + 1 \in 1 .. N /\ g[p + 1] = v
      <4>1. p + 1 = b + 1 \/ p + 1 \in a + 1 .. b BY <2>2, <1>4
      <4> QED BY <1>4, <1>8, <4>1
    <3>4. v >= 0 /\ v - 0 + 0 = v OBVIOUS
    <3> QED BY <3>1, <3>2, <3>3, <3>4, NopFacts
  <2>3. CASE p \notin a .. b
    <3>1. d[p] = c[p] BY <1>1, <2>3 DEF IsRewrite
    <3>2. p \notin a + 1 .. b BY <2>3, <1>4
    <3>3. g[p] = h[p] BY <1>9, <3>2
    <3>4. /\ IsInstruction(c[p]) /\ h[p] >= Operands(c[p])
          /\ c[p].op = "Halt" => h[p] = 0
          /\ c[p].op \in TargetOps => c[p].to \in 1 .. N /\ h[c[p].to] = h[p] - Operands(c[p]) + Results(c[p])
          /\ c[p].op \notin {"Jump", "Halt"} => p + 1 \in 1 .. N /\ h[p + 1] = h[p] - Operands(c[p]) + Results(c[p])
      BY SMTT(30), <1>1, HeightAt
    <3>5. p + 1 \notin a + 1 .. b BY <2>3, <1>4
    <3>6. c[p].op \in TargetOps => c[p].to \in T BY <1>2, TargetOf
    <3>7. c[p].op \in TargetOps => g[c[p].to] = h[c[p].to] BY <1>7, <3>4, <3>6
    <3>8. p + 1 \in 1 .. N => g[p + 1] = h[p + 1] BY <1>9, <3>5
    <3> QED BY <3>1, <3>3, <3>4, <3>6, <3>7, <3>8
  <2> QED BY <2>1, <2>2, <2>3, <1>4
<1>11. IsHeight(d, g)
  <2>1. \A p \in 1 .. N : FitsAt(d, g, N, p) BY <1>10 DEF FitsAt
  <2> QED BY <1>3, <1>5, <1>6, <2>1, HeightOf
<1>12. collectJumpTargets(d) \subseteq T BY <1>3, <1>10 DEF collectJumpTargets
<1> QED BY SMTT(30), <1>11, <1>12

(***************************************************************************)
(* The next instruction that is not padding.                               *)
(***************************************************************************)
\* NextOp finds an instruction with only padding before it.
LEMMA NextOpIs ==
    ASSUME NEW c, Len(c) \in Nat, NEW p \in Nat, NEW j, j = NextOp(c, p), j # 0
    PROVE  j \in p + 1 .. Len(c) /\ c[j].op # "Nop" /\ \A q \in p + 1 .. j - 1 : c[q].op = "Nop"
<1> DEFINE I == {q \in p + 1 .. Len(c) : c[q].op # "Nop"}
<1>1. NextOp(c, p) = IF I # {} THEN Min(I) ELSE 0 BY DEF NextOp, SelectInSubSeq
<1>2. I # {} /\ j = Min(I) BY <1>1
<1>3. I \in SUBSET Nat OBVIOUS
<1> HIDE DEF I
<1>4. PICK n \in I : \A m \in I : n <= m BY <1>2, <1>3, LeastElement
<1>5. j \in I /\ \A m \in I : j <= m BY <1>2, <1>4 DEF Min
<1>6. ASSUME NEW q \in p + 1 .. j - 1, c[q].op # "Nop" PROVE FALSE
  <2>1. j \in Nat /\ j <= Len(c) BY <1>5 DEF I
  <2>2. q \in p + 1 .. Len(c) BY <2>1
  <2>3. q \in I BY <1>6, <2>2 DEF I
  <2> QED BY <1>5, <2>1, <2>3
<1> QED BY <1>5, <1>6 DEF I

\* Padding does not change the height.
LEMMA PaddingHeight ==
    ASSUME NEW c, NEW h, IsHeight(c, h), NEW a \in 1 .. Len(c), NEW b \in 1 .. Len(c), a <= b,
           \A q \in a .. b - 1 : c[q].op = "Nop"
    PROVE  h[b] = h[a]
<1>1. Len(c) \in Nat BY DEF IsHeight
<1> DEFINE T == {n \in Nat : a + n <= b => h[a + n] = h[a]}
<1>2. 0 \in T
  <2>1. a + 0 = a OBVIOUS
  <2> QED BY <2>1
<1>3. ASSUME NEW n \in T PROVE n + 1 \in T
  <2> SUFFICES ASSUME a + (n + 1) <= b PROVE h[a + (n + 1)] = h[a] OBVIOUS
  <2>1. PICK q \in 1 .. Len(c) : q = a + n BY <1>1
  <2>2. q \in a .. b - 1 /\ q + 1 = a + (n + 1) BY <1>1, <2>1
  <2>3. h[q] = h[a] BY <1>1, <2>1
  <2>4. c[q].op = "Nop" BY <2>2
  <2>5. Operands(c[q]) = 0 /\ Results(c[q]) = 0
    BY <2>4 DEF Operands, Results, BinaryOps, IntegerOps, CompareJumps
  <2>6. h[q + 1] = h[q] - Operands(c[q]) + Results(c[q]) /\ h[q] \in Nat
    <3> HIDE DEF T
    <3>1. c[q].op \notin {"Jump", "Halt"} BY <2>4
    <3> QED BY <3>1, HeightAt
  <2>7. h[q + 1] = h[q] BY <2>5, <2>6
  <2> QED BY <2>2, <2>3, <2>7
<1>4. T = Nat
  <2> HIDE DEF T
  <2>1. T \in SUBSET Nat BY DEF T
  <2> QED BY <1>2, <1>3, <2>1, SetInduction
<1>5. PICK n \in Nat : a + n = b
  <2>1. b - a \in Nat /\ a + (b - a) = b BY <1>1
  <2> QED BY <2>1
<1>6. n \in T BY <1>4
<1> QED BY <1>1, <1>5, <1>6

\* The height at the next instruction.
LEMMA NextHeight ==
    ASSUME NEW c, NEW h, IsHeight(c, h), NEW p \in 1 .. Len(c), c[p].op \notin {"Jump", "Halt"},
           NEW j, j = NextOp(c, p), j # 0
    PROVE  /\ j \in 1 .. Len(c) /\ p < j /\ c[j].op # "Nop" /\ \A q \in p + 1 .. j - 1 : c[q].op = "Nop"
           /\ h[j] = h[p] - Operands(c[p]) + Results(c[p])
<1>1. Len(c) \in Nat BY DEF IsHeight
<1>2. j \in p + 1 .. Len(c) /\ c[j].op # "Nop" /\ \A q \in p + 1 .. j - 1 : c[q].op = "Nop" BY <1>1, NextOpIs
<1>3. PICK n \in 1 .. Len(c) : n = p + 1 /\ h[n] = h[p] - Operands(c[p]) + Results(c[p]) BY HeightAt
<1>4. j \in 1 .. Len(c) /\ n <= j /\ p < j BY <1>1, <1>2, <1>3
<1>5. h[j] = h[n] BY <1>2, <1>3, <1>4, PaddingHeight
<1> QED BY <1>2, <1>3, <1>4, <1>5

(***************************************************************************)
(* The passes keep the heights.                                            *)
(***************************************************************************)
\* The heights of c exist; and its jumps lead to places in T.
Level(c) == \E h : IsHeight(c, h)
Balanced(c, T) == Level(c) /\ collectJumpTargets(c) \subseteq T

\* Code with heights has a length and the places up to it.
LEMMA LevelLen ==
    ASSUME NEW c, Level(c)
    PROVE  Len(c) \in Nat /\ DOMAIN c = 1 .. Len(c)
BY DEF Level, IsHeight

\* What a folder computes is a value.
LEMMA FoldNotRaise ==
    ASSUME NEW a, NEW b, NEW op \in FoldableOps
    PROVE  foldVBSBinaryOp(a, b, op) # Raise
<1>1. \A s : String(s) # Raise BY DEF String, Raise, Value
<1>2. \A n : Integer(n) # Raise BY DEF Integer, Raise, Value
<1>3. \/ \E s : foldVBSBinaryOp(a, b, op) = String(s)
      \/ \E n : foldVBSBinaryOp(a, b, op) = Integer(n)
  <2>1. CASE op = "Concat" BY <2>1 DEF foldVBSBinaryOp
  <2>2. CASE op \in {"Add", "Sub", "Mul", "IDiv"} BY <2>2 DEF foldVBSBinaryOp
  <2>3. CASE op = "Mod" BY <2>3 DEF foldVBSBinaryOp
  <2> QED BY <2>1, <2>2, <2>3 DEF FoldableOps
<1> QED BY <1>1, <1>2, <1>3

\* The form the passes give a rewrite.
LEMMA RewriteIs ==
    ASSUME NEW c, Len(c) \in Nat, DOMAIN c = 1 .. Len(c), NEW a \in 1 .. Len(c), NEW b \in 1 .. Len(c), a <= b, NEW x
    PROVE  IsRewrite(c, a, b, x, [Blank(c, a + 1 .. b) EXCEPT ![a] = x])
<1>1. PICK d : d = [Blank(c, a + 1 .. b) EXCEPT ![a] = x] OBVIOUS
<1>2. PICK e : e = Blank(c, a + 1 .. b) OBVIOUS
<1>3. e = [p \in 1 .. Len(c) |-> IF p \in a + 1 .. b THEN Nop ELSE c[p]] BY <1>2 DEF Blank
<1>4. d = [e EXCEPT ![a] = x] BY <1>1, <1>2
<1>5. DOMAIN d = 1 .. Len(c) BY <1>3, <1>4
<1>6. Len(d) = Len(c)
  <2>1. d = [p \in 1 .. Len(c) |-> d[p]] BY <1>3, <1>4
  <2>2. StackOf(d, Len(c)) BY <2>1 DEF StackOf
  <2> QED BY <2>2, StackLen
<1>7. d[a] = x BY <1>3, <1>4
<1>8. \A p \in a + 1 .. b : d[p] = Nop BY <1>3, <1>4
<1>9. \A p \in 1 .. Len(c) : p \notin a .. b => d[p] = c[p] BY <1>3, <1>4
<1> QED BY <1>1, <1>5, <1>6, <1>7, <1>8, <1>9 DEF IsRewrite

\* A Constant pushes one value.
LEMMA ConstantFacts ==
    ASSUME NEW v, v # Raise
    PROVE  /\ IsInstruction(Constant(v)) /\ Operands(Constant(v)) = 0 /\ Results(Constant(v)) = 1
           /\ Constant(v).op \notin {"Jump", "Halt"} /\ Constant(v).op \notin TargetOps
<1>1. PICK i : i = Constant(v) OBVIOUS
<1>2. i.op = "Constant" /\ i.v = v BY <1>1 DEF Constant
<1>3. IsInstruction(i) BY <1>2 DEF IsInstruction, Opcodes
<1>4. Operands(i) = 0 /\ Results(i) = 1 BY <1>2 DEF Operands, Results, BinaryOps, IntegerOps, CompareJumps
<1>5. i.op \notin TargetOps BY <1>2 DEF TargetOps, CompareJumps
<1> QED BY <1>1, <1>2, <1>3, <1>4, <1>5

\* What a pass takes for a constant is an instruction that pushes one value.
LEMMA ConstantHeight ==
    ASSUME NEW c, NEW h, IsHeight(c, h), NEW p, IsConstant(c, p)
    PROVE  /\ p \in 1 .. Len(c) /\ c[p].op = "Constant" /\ c[p].v # Raise
           /\ Operands(c[p]) = 0 /\ Results(c[p]) = 1 /\ h[p] \in Nat
<1>1. p \in 1 .. Len(c) /\ c[p].op = "Constant" BY DEF IsConstant, IsHeight
<1>2. IsInstruction(c[p]) /\ h[p] \in Nat BY <1>1, HeightAt
<1>3. Operands(c[p]) = 0 /\ Results(c[p]) = 1 BY <1>1 DEF Operands, Results, BinaryOps, IntegerOps, CompareJumps
<1> QED BY <1>1, <1>2, <1>3 DEF IsInstruction

\* What Foldable says, and the heights on the way.
LEMMA FoldableIs ==
    ASSUME NEW c, NEW h, IsHeight(c, h), NEW T, NEW i, Foldable(c, i, T),
           NEW j, j = NextOp(c, i), NEW k, k = NextOp(c, j)
    PROVE  /\ i \in 1 .. Len(c) /\ j \in 1 .. Len(c) /\ k \in 1 .. Len(c) /\ i < j /\ j < k /\ k + 1 <= Len(c)
           /\ IsConstant(c, i) /\ IsConstant(c, j) /\ c[k].op \in FoldableOps
           /\ \A q \in i + 1 .. j - 1 : c[q].op = "Nop"
           /\ \A q \in j + 1 .. k - 1 : c[q].op = "Nop"
           /\ ~hasTargetInRange(T, i + 1, k) /\ CanFold(c[i].v, c[j].v, c[k].op)
           /\ h[i] \in Nat /\ h[j] = h[i] + 1 /\ h[k] = h[i] + 2 /\ h[k + 1] = h[i] + 1
<1>1. /\ IsConstant(c, i) /\ IsConstant(c, j) /\ k \in DOMAIN c /\ c[k].op \in FoldableOps
      /\ ~hasTargetInRange(T, i + 1, k) /\ CanFold(c[i].v, c[j].v, c[k].op)
  BY DEF Foldable
<1>2. /\ i \in 1 .. Len(c) /\ c[i].op = "Constant" /\ Operands(c[i]) = 0 /\ Results(c[i]) = 1 /\ h[i] \in Nat
  BY <1>1, ConstantHeight
<1>3. /\ j \in 1 .. Len(c) /\ c[j].op = "Constant" /\ Operands(c[j]) = 0 /\ Results(c[j]) = 1 /\ h[j] \in Nat
  BY <1>1, ConstantHeight
<1>4. k \in 1 .. Len(c) /\ Len(c) \in Nat BY <1>1 DEF IsHeight
<1>5. j # 0 /\ k # 0 BY <1>3, <1>4
<1>6. i < j /\ (\A q \in i + 1 .. j - 1 : c[q].op = "Nop") /\ h[j] = h[i] - 0 + 1
  <2>1. c[i].op \notin {"Jump", "Halt"} BY <1>2
  <2> QED BY <1>2, <1>5, <2>1, NextHeight
<1>7. j < k /\ (\A q \in j + 1 .. k - 1 : c[q].op = "Nop") /\ h[k] = h[j] - 0 + 1
  <2>1. c[j].op \notin {"Jump", "Halt"} BY <1>3
  <2> QED BY <1>3, <1>5, <2>1, NextHeight
<1>8. Operands(c[k]) = 2 /\ Results(c[k]) = 1 /\ c[k].op \notin {"Jump", "Halt"}
  BY <1>1 DEF FoldableOps, Operands, Results, BinaryOps
<1>9. k + 1 \in 1 .. Len(c) /\ h[k + 1] = h[k] - 2 + 1 BY <1>4, <1>8, HeightAt
<1>10. h[j] = h[i] + 1 BY <1>2, <1>6
<1>11. h[k] = h[i] + 2 BY <1>2, <1>7, <1>10
<1>12. h[k + 1] = h[i] + 1 BY <1>2, <1>9, <1>11
<1> QED BY <1>1, <1>2, <1>3, <1>4, <1>6, <1>7, <1>9, <1>10, <1>11, <1>12

\* Folding two constants and an operator keeps the heights.
LEMMA FoldedBalanced ==
    ASSUME NEW c, NEW T, Balanced(c, T), NEW i, Foldable(c, i, T)
    PROVE  Balanced(Folded(c, i), T)
<1>1. PICK h : IsHeight(c, h) BY DEF Balanced, Level
<1>2. PICK j : j = NextOp(c, i) OBVIOUS
<1>3. PICK k : k = NextOp(c, j) OBVIOUS
<1>4. /\ i \in 1 .. Len(c) /\ k \in 1 .. Len(c) /\ i <= k /\ k + 1 <= Len(c) /\ c[k].op \in FoldableOps
      /\ ~hasTargetInRange(T, i + 1, k) /\ CanFold(c[i].v, c[j].v, c[k].op)
      /\ h[i] \in Nat /\ h[k + 1] = h[i] + 1
  BY <1>1, <1>2, <1>3, FoldableIs
<1>5. PICK w : w = foldVBSBinaryOp(c[i].v, c[j].v, c[k].op) OBVIOUS
<1>6. w # Raise BY <1>4, <1>5, FoldNotRaise
<1>7. PICK x : x = Constant(w) OBVIOUS
<1>8. IsInstruction(x) /\ Operands(x) = 0 /\ Results(x) = 1 /\ x.op \notin {"Jump", "Halt"} /\ x.op \notin TargetOps
  BY <1>6, <1>7, ConstantFacts
<1>9. PICK d : d = [Blank(c, i + 1 .. k) EXCEPT ![i] = x] OBVIOUS
<1>10. Folded(c, i) = d BY <1>2, <1>3, <1>5, <1>7, <1>9 DEF Folded
<1>11. IsRewrite(c, i, k, x, d)
  <2>1. Len(c) \in Nat /\ DOMAIN c = 1 .. Len(c) BY <1>1 DEF IsHeight
  <2> QED BY <1>4, <1>9, <2>1, RewriteIs
<1>12. PICK v \in Nat : v = h[i] - Operands(x) + Results(x) /\ h[k + 1] = v /\ h[i] >= Operands(x) BY <1>4, <1>8
<1>13. collectJumpTargets(c) \subseteq T BY DEF Balanced, Level
<1>14. (\E g : IsHeight(d, g)) /\ collectJumpTargets(d) \subseteq T
  BY <1>1, <1>4, <1>8, <1>11, <1>12, <1>13, RewriteHeight
<1> QED BY <1>10, <1>14 DEF Balanced, Level

\* A fused instruction takes the operands of its comparison.
LEMMA FusedJump ==
    ASSUME NEW op \in DOMAIN FusedBranchOp
    PROVE  FusedBranchOp[op] \in CompareJumps /\ op \in BinaryOps
<1>1. op \in {"Eq", "Neq", "Lt", "Gt"} BY DEF FusedBranchOp
<1>2. CASE op = "Eq" BY <1>2 DEF FusedBranchOp, CompareJumps, BinaryOps
<1>3. CASE op = "Neq" BY <1>3 DEF FusedBranchOp, CompareJumps, BinaryOps
<1>4. CASE op = "Lt" BY <1>4 DEF FusedBranchOp, CompareJumps, BinaryOps
<1>5. CASE op = "Gt" BY <1>5 DEF FusedBranchOp, CompareJumps, BinaryOps
<1> QED BY <1>1, <1>2, <1>3, <1>4, <1>5

\* Fusing a comparison and a JumpIfFalse keeps the heights.
LEMMA FusedBalanced ==
    ASSUME NEW c, NEW T, Balanced(c, T), NEW p \in 1 .. Len(c), IsFusable(c, p, T)
    PROVE  Balanced(Fused(c, p), T) /\ Len(Fused(c, p)) = Len(c)
<1>1. PICK h : IsHeight(c, h) BY DEF Balanced, Level
<1>2. Len(c) \in Nat /\ DOMAIN c = 1 .. Len(c) BY <1>1 DEF IsHeight
<1>3. PICK j : j = NextOp(c, p) OBVIOUS
<1>4. /\ c[p].op \in DOMAIN FusedBranchOp /\ j \in 1 .. Len(c) /\ c[j].op = "JumpIfFalse"
      /\ ~hasTargetInRange(T, p + 1, j)
  BY <1>2, <1>3 DEF IsFusable
<1>5. FusedBranchOp[c[p].op] \in CompareJumps /\ c[p].op \in BinaryOps BY <1>4, FusedJump
<1>6. Operands(c[p]) = 2 /\ Results(c[p]) = 1 /\ c[p].op \notin {"Jump", "Halt"} BY <1>5 DEF Operands, Results, BinaryOps
<1>7. Operands(c[j]) = 1 /\ Results(c[j]) = 0 /\ c[j].op \in TargetOps /\ c[j].op \notin {"Jump", "Halt"}
  BY <1>4 DEF Operands, Results, BinaryOps, IntegerOps, CompareJumps, TargetOps
<1>8. h[p] \in Nat /\ h[p] >= 2
  <2>1. h[p] \in Nat /\ h[p] >= Operands(c[p]) BY <1>1, HeightAt
  <2> QED BY <1>6, <2>1
<1>9. p < j /\ h[j] = h[p] - 2 + 1
  <2>1. j # 0 BY <1>4
  <2> QED BY <1>1, <1>3, <1>6, <2>1, NextHeight
<1>10. j + 1 \in 1 .. Len(c) /\ h[j + 1] = h[j] - 1 + 0 /\ c[j].to \in 1 .. Len(c) /\ h[c[j].to] = h[j] - 1 + 0
  <2>1. j \in 1 .. Len(c) BY <1>4
  <2>2. c[j].to \in 1 .. Len(c) /\ h[c[j].to] = h[j] - Operands(c[j]) + Results(c[j]) BY <1>1, <1>7, <2>1, HeightAt
  <2>3. j + 1 \in 1 .. Len(c) /\ h[j + 1] = h[j] - Operands(c[j]) + Results(c[j]) BY <1>1, <1>7, <2>1, HeightAt
  <2> QED BY <1>7, <2>2, <2>3
<1>11. PICK x : x = Jump(FusedBranchOp[c[p].op], c[j].to) OBVIOUS
<1>12. x.op \in CompareJumps /\ x.to = c[j].to BY <1>5, <1>11 DEF Jump
<1>13. /\ IsInstruction(x) /\ Operands(x) = 2 /\ Results(x) = 0 /\ x.op \notin {"Jump", "Halt"} /\ x.op \in TargetOps
  BY <1>12 DEF IsInstruction, Opcodes, Operands, Results, BinaryOps, IntegerOps, CompareJumps, TargetOps
<1>14. PICK d : d = [Blank(c, p + 1 .. j) EXCEPT ![p] = x] OBVIOUS
<1>15. Fused(c, p) = d BY <1>3, <1>11, <1>14 DEF Fused
<1>16. IsRewrite(c, p, j, x, d) BY <1>2, <1>4, <1>9, <1>14, RewriteIs
<1>17. PICK v \in Nat : v = h[p] - Operands(x) + Results(x) /\ h[j + 1] = v /\ h[x.to] = v /\ h[p] >= Operands(x)
  BY <1>8, <1>9, <1>10, <1>12, <1>13
<1>18. collectJumpTargets(c) \subseteq T BY DEF Balanced, Level
<1>19. x.to \in T /\ x.to \in 1 .. Len(c)
  <2>1. c[j].to \in collectJumpTargets(c) BY <1>2, <1>4, <1>7, TargetOf
  <2> QED BY <1>10, <1>12, <1>18, <2>1
<1>20. p <= j /\ j + 1 <= Len(c) BY <1>2, <1>4, <1>9, <1>10
<1>21. (\E g : IsHeight(d, g)) /\ collectJumpTargets(d) \subseteq T
  BY <1>1, <1>4, <1>13, <1>16, <1>17, <1>18, <1>19, <1>20, RewriteHeight
<1> QED BY <1>15, <1>16, <1>21 DEF Balanced, Level, IsRewrite

\* A turn of the fused branch pass keeps the heights, fused or not.
LEMMA FuseAtBalanced ==
    ASSUME NEW c, NEW T, Balanced(c, T), NEW p \in 1 .. Len(c)
    PROVE  Balanced(FuseAt(c, p, T), T) /\ Len(FuseAt(c, p, T)) = Len(c)
BY FusedBalanced DEF FuseAt

\* Removing a dead branch keeps the heights: the height at its end is the one
\* after the JumpIfFalse.
LEMMA BranchRemovedBalanced ==
    ASSUME NEW c, NEW T, Balanced(c, T), NEW p \in 1 .. Len(c), c[p].op = "JumpIfFalse",
           NEW prev, IsDeadJump(c, p, prev, T)
    PROVE  Balanced(BranchRemoved(c, p), T) /\ Len(BranchRemoved(c, p)) = Len(c)
<1>1. PICK h : IsHeight(c, h) BY DEF Balanced, Level
<1>2. Len(c) \in Nat /\ DOMAIN c = 1 .. Len(c) BY <1>1 DEF IsHeight
<1>3. Operands(c[p]) = 1 /\ Results(c[p]) = 0 /\ c[p].op \in TargetOps /\ c[p].op \notin {"Jump", "Halt"}
  BY DEF Operands, Results, BinaryOps, IntegerOps, CompareJumps, TargetOps
<1>4. PICK to \in 1 .. Len(c) : /\ to = c[p].to /\ h[to] = h[p] - 1 + 0 /\ IsInstruction(c[p]) /\ h[p] \in Nat /\ h[p] >= 1
  BY <1>1, <1>3, HeightAt
<1>5. to > p + 1 /\ ~hasTargetInRange(T, p + 1, to - 1) BY <1>4 DEF IsDeadJump
<1>6. PICK b \in 1 .. Len(c) : b = to - 1 /\ b + 1 = to /\ p <= b /\ b + 1 <= Len(c) BY <1>2, <1>4, <1>5
<1>7. PICK d : d = BranchRemoved(c, p) OBVIOUS
<1>8. d = [q \in 1 .. Len(c) |-> IF q \in p + 1 .. b THEN Nop ELSE c[q]] BY <1>2, <1>4, <1>6, <1>7 DEF BranchRemoved, Blank
<1>9. Len(d) = Len(c)
  <2>1. d = [q \in 1 .. Len(c) |-> d[q]] BY <1>8
  <2>2. StackOf(d, Len(c)) BY <1>2, <2>1 DEF StackOf
  <2> QED BY <2>2, StackLen
<1>10. PICK x : x = c[p] OBVIOUS
<1>11. IsRewrite(c, p, b, x, d) BY <1>6, <1>8, <1>9, <1>10 DEF IsRewrite
<1>12. PICK v \in Nat : v = h[p] - Operands(x) + Results(x) /\ h[b + 1] = v /\ h[x.to] = v /\ h[p] >= Operands(x)
  BY <1>3, <1>4, <1>6, <1>10
<1>13. collectJumpTargets(c) \subseteq T BY DEF Balanced, Level
<1>14. x.to \in T /\ x.to \in 1 .. Len(c) BY <1>2, <1>3, <1>4, <1>10, <1>13, TargetOf
<1>15. (\E g : IsHeight(d, g)) /\ collectJumpTargets(d) \subseteq T
  <2>1. IsInstruction(x) /\ x.op \notin {"Jump", "Halt"} /\ ~hasTargetInRange(T, p + 1, b) BY <1>3, <1>4, <1>5, <1>6, <1>10
  <2> QED BY <1>1, <1>6, <1>11, <1>12, <1>13, <1>14, <2>1, RewriteHeight
<1> QED BY <1>7, <1>9, <1>15 DEF Balanced, Level

(***************************************************************************)
(* Pools.                                                                  *)
(***************************************************************************)
\* The constants ps follow one another from p on, and no jump lands between.
IsPool(c, T, p, ps) ==
    /\ ps \in Seq(1 .. Len(c)) /\ Len(ps) >= 1 /\ ps[1] = p
    /\ \A m \in 1 .. Len(ps) : IsConstant(c, ps[m])
    /\ \A m \in 1 .. Len(ps) : m > 1 => ps[m] = NextOp(c, ps[m - 1])
    /\ ps[Len(ps)] >= p
    /\ ~hasTargetInRange(T, p + 1, ps[Len(ps)])
    /\ \A q \in p .. ps[Len(ps)] : c[q].op = "Nop" \/ \E m \in 1 .. Len(ps) : q = ps[m]

\* One more constant, if one follows, makes a longer row.
LEMMA GatherPool ==
    ASSUME NEW c, Len(c) \in Nat, DOMAIN c = 1 .. Len(c), NEW T, NEW p \in 1 .. Len(c), NEW ps, IsPool(c, T, p, ps)
    PROVE  IsPool(c, T, p, Gather(c, ps, T))
<1>1. PICK n \in Nat : n = Len(ps) /\ n >= 1 BY DEF IsPool
<1>2. PICK e \in 1 .. Len(c) : e = ps[n] /\ e = Last(ps) /\ e >= p BY <1>1 DEF IsPool, Last
<1>3. PICK next : next = NextOp(c, e) OBVIOUS
<1>4. CASE IsConstant(c, next) /\ ~hasTargetInRange(T, e + 1, next)
  <2>1. PICK qs : qs = Append(ps, next) OBVIOUS
  <2>2. Gather(c, ps, T) = qs BY <1>2, <1>3, <1>4, <2>1 DEF Gather
  <2>3. next \in 1 .. Len(c) BY <1>4 DEF IsConstant
  <2>4. next >= e + 1
    <3>1. next # 0 BY <2>3
    <3> QED BY <1>2, <1>3, <3>1, NextOpIs
  <2>5. ps \in Seq(1 .. Len(c)) BY DEF IsPool
  <2>6. qs \in Seq(1 .. Len(c)) /\ Len(qs) = n + 1 /\ qs[n + 1] = next /\ \A m \in 1 .. n : qs[m] = ps[m]
    BY <1>1, <2>1, <2>3, <2>5
  <2>7. ~hasTargetInRange(T, p + 1, next)
    <3>1. ASSUME NEW t \in T, t \in p + 1 .. next PROVE FALSE
      <4>1. t \in p + 1 .. e \/ t \in e + 1 .. next BY <1>2, <2>3, <3>1
      <4> QED BY <1>1, <1>2, <1>4, <4>1 DEF IsPool, hasTargetInRange
    <3> QED BY <3>1 DEF hasTargetInRange
  <2>8. ASSUME NEW m \in 1 .. n + 1 PROVE IsConstant(c, qs[m])
    <3>1. CASE m = n + 1 BY <1>4, <2>6, <3>1
    <3>2. CASE m \in 1 .. n
      <4>1. IsConstant(c, ps[m]) BY <1>1, <3>2 DEF IsPool
      <4> QED BY <2>6, <3>2, <4>1
    <3> QED BY <3>1, <3>2
  <2>9. ASSUME NEW m \in 1 .. n + 1, m > 1 PROVE qs[m] = NextOp(c, qs[m - 1])
    <3>1. m - 1 \in 1 .. n /\ qs[m - 1] = ps[m - 1] BY <2>6, <2>9
    <3>2. CASE m = n + 1
      <4>1. m - 1 = n BY <3>2
      <4> QED BY <1>2, <1>3, <2>6, <3>1, <3>2, <4>1
    <3>3. CASE m \in 1 .. n BY <1>1, <2>6, <2>9, <3>1, <3>3 DEF IsPool
    <3> QED BY <3>2, <3>3
  <2>10. qs[1] = p /\ next >= p
    <3>1. 1 \in 1 .. n /\ ps[1] = p BY <1>1 DEF IsPool
    <3> QED BY <1>2, <2>3, <2>4, <2>6, <3>1
  <2>11. ASSUME NEW q \in p .. next PROVE c[q].op = "Nop" \/ \E m \in 1 .. n + 1 : q = qs[m]
    <3>1. CASE q = next BY <1>1, <2>6, <3>1
    <3>2. CASE q \in e + 1 .. next - 1
      <4>1. next # 0 BY <2>3
      <4> QED BY <1>2, <1>3, <3>2, <4>1, NextOpIs
    <3>3. CASE q \in p .. e
      <4>1. c[q].op = "Nop" \/ \E m \in 1 .. n : q = ps[m] BY <1>1, <1>2, <3>3 DEF IsPool
      <4>2. ASSUME NEW m \in 1 .. n, q = ps[m] PROVE m \in 1 .. n + 1 /\ q = qs[m] BY <1>1, <2>6, <4>2
      <4> QED BY <4>1, <4>2
    <3> QED BY <1>2, <2>3, <2>4, <3>1, <3>2, <3>3
  <2> QED BY <1>1, <2>2, <2>6, <2>7, <2>8, <2>9, <2>10, <2>11 DEF IsPool
<1>5. CASE ~(IsConstant(c, next) /\ ~hasTargetInRange(T, e + 1, next))
  <2>1. Gather(c, ps, T) = ps BY <1>2, <1>3, <1>5 DEF Gather
  <2> QED BY <2>1
<1> QED BY <1>4, <1>5

\* What the pass gathers from p is a row.
LEMMA GatheredPool ==
    ASSUME NEW c, Len(c) \in Nat, DOMAIN c = 1 .. Len(c), NEW T, NEW p \in 1 .. Len(c), IsConstant(c, p)
    PROVE  IsPool(c, T, p, Gathered(c, p, T))
<1>1. IsPool(c, T, p, <<p>>)
  <2>1. ~hasTargetInRange(T, p + 1, p) BY DEF hasTargetInRange
  <2> QED BY <2>1 DEF IsPool
<1>2. PICK a : a = Gather(c, <<p>>, T) OBVIOUS
<1>3. IsPool(c, T, p, a) BY <1>1, <1>2, GatherPool
<1>4. PICK b : b = Gather(c, a, T) OBVIOUS
<1>5. IsPool(c, T, p, b) BY <1>3, <1>4, GatherPool
<1> QED BY <1>2, <1>4, <1>5, GatherPool DEF Gathered

\* Every constant of a row finds the stack one higher.
LEMMA PoolHeight ==
    ASSUME NEW c, NEW h, IsHeight(c, h), NEW T, NEW p \in 1 .. Len(c), NEW ps, IsPool(c, T, p, ps),
           NEW k \in 1 .. Len(ps)
    PROVE  h[ps[k]] = h[p] + k - 1
<1>1. PICK n \in Nat : n = Len(ps) /\ n >= 1 BY DEF IsPool
<1>2. h[p] \in Nat BY HeightAt
<1> DEFINE A == {m \in Nat : m + 1 <= n => h[ps[m + 1]] = h[p] + m}
<1>3. 0 \in A
  <2>1. ps[0 + 1] = p BY DEF IsPool
  <2> QED BY <1>2, <2>1
<1>4. ASSUME NEW m \in A PROVE m + 1 \in A
  <2> SUFFICES ASSUME (m + 1) + 1 <= n PROVE h[ps[(m + 1) + 1]] = h[p] + (m + 1) OBVIOUS
  <2>1. PICK u \in 1 .. n : u = m + 1 /\ m \in Nat BY <1>1
  <2>2. PICK w \in 1 .. n : w = u + 1 /\ w - 1 = u /\ w > 1 BY <1>1, <2>1
  <2>3. h[ps[u]] = h[p] + m BY <1>1, <2>1
  <2> HIDE DEF A
  <2>4. PICK e : e = ps[u] OBVIOUS
  <2>5. IsConstant(c, e) /\ ps[w] = NextOp(c, e) /\ IsConstant(c, ps[w]) BY <1>1, <2>2, <2>4 DEF IsPool
  <2>6. e \in 1 .. Len(c) /\ c[e].op = "Constant" /\ Operands(c[e]) = 0 /\ Results(c[e]) = 1 /\ h[e] \in Nat BY <2>5, ConstantHeight
  <2>7. ps[w] \in 1 .. Len(c) BY <2>5, ConstantHeight
  <2>8. ps[w] # 0 /\ c[e].op \notin {"Jump", "Halt"} BY <2>6, <2>7
  <2>9. h[ps[w]] = h[e] - 0 + 1 BY SMTT(30), <2>5, <2>6, <2>8, NextHeight
  <2>10. h[ps[w]] = h[p] + (m + 1) BY <1>2, <2>1, <2>3, <2>4, <2>9
  <2> QED BY <2>1, <2>2, <2>10
<1>5. A = Nat
  <2> HIDE DEF A
  <2>1. A \in SUBSET Nat BY DEF A
  <2> QED BY <1>3, <1>4, <2>1, SetInduction
<1>6. k - 1 \in A /\ (k - 1) + 1 = k /\ k <= n BY <1>1, <1>5
<1> QED BY <1>2, <1>6

\* Pooling a row keeps the heights.
LEMMA PooledBalanced ==
    ASSUME NEW c, NEW T, Balanced(c, T), NEW p \in 1 .. Len(c), NEW ps, IsPool(c, T, p, ps)
    PROVE  Balanced(Pooled(c, ps), T) /\ Len(Pooled(c, ps)) = Len(c)
<1>1. PICK h : IsHeight(c, h) BY DEF Balanced, Level
<1>2. Len(c) \in Nat /\ DOMAIN c = 1 .. Len(c) BY <1>1 DEF IsHeight
<1>3. PICK n \in Nat : n = Len(ps) /\ n >= 1 /\ DOMAIN ps = 1 .. n BY DEF IsPool
<1>4. PICK e \in 1 .. Len(c) : e = ps[n] /\ e = Last(ps) /\ p <= e BY <1>3 DEF IsPool, Last
<1>5. ps[1] = p /\ ~hasTargetInRange(T, p + 1, e) /\ IsConstant(c, e)
  <2>1. n \in 1 .. n BY <1>3
  <2>2. IsConstant(c, ps[n]) BY <1>3, <2>1 DEF IsPool
  <2> QED BY <1>3, <1>4, <2>2 DEF IsPool
<1>6. c[e].op = "Constant" /\ Operands(c[e]) = 0 /\ Results(c[e]) = 1 /\ h[e] \in Nat BY <1>1, <1>5, ConstantHeight
<1>7. h[p] \in Nat /\ h[e] = h[p] + n - 1
  <2>1. h[p] \in Nat BY <1>1, HeightAt
  <2>2. n \in 1 .. Len(ps) BY <1>3
  <2>3. h[ps[n]] = h[p] + n - 1 BY <1>1, <2>2, PoolHeight
  <2> QED BY <1>4, <2>1, <2>3
<1>8. e + 1 \in 1 .. Len(c) /\ h[e + 1] = h[e] - 0 + 1
  <2>1. c[e].op \notin {"Jump", "Halt"} BY <1>6
  <2> QED BY <1>1, <1>6, <2>1, HeightAt
<1>9. PICK vs : vs = [m \in 1 .. n |-> c[ps[m]].v] OBVIOUS
<1>10. vs = [m \in 1 .. n |-> vs[m]] BY <1>9
<1>11. StackOf(vs, n) BY <1>10 DEF StackOf
<1>12. Len(vs) = n BY <1>11, StackLen
<1>13. PICK x : x = ConstantN(vs) OBVIOUS
<1>14. x.op = "ConstantN" /\ x.vs = vs BY <1>13 DEF ConstantN
<1>15. IsInstruction(x) BY <1>10, <1>12, <1>14 DEF IsInstruction, Opcodes
<1>16. Operands(x) = 0 /\ Results(x) = n /\ x.op \notin {"Jump", "Halt"} /\ x.op \notin TargetOps
  BY <1>12, <1>14 DEF Operands, Results, BinaryOps, IntegerOps, CompareJumps, TargetOps
<1>17. PICK d : d = [Blank(c, p + 1 .. e) EXCEPT ![p] = x] OBVIOUS
<1>18. Pooled(c, ps) = d BY <1>3, <1>4, <1>5, <1>9, <1>13, <1>17 DEF Pooled
<1>19. IsRewrite(c, p, e, x, d) BY <1>2, <1>4, <1>17, RewriteIs
<1>20. PICK v \in Nat : v = h[p] - Operands(x) + Results(x) /\ h[e + 1] = v /\ h[p] >= Operands(x) BY <1>7, <1>8, <1>16
<1>21. collectJumpTargets(c) \subseteq T /\ e + 1 <= Len(c) BY <1>2, <1>8 DEF Balanced, Level
<1>22. (\E g : IsHeight(d, g)) /\ collectJumpTargets(d) \subseteq T
  BY <1>1, <1>4, <1>5, <1>15, <1>16, <1>19, <1>20, <1>21, RewriteHeight
<1> QED BY <1>18, <1>19, <1>22 DEF Balanced, Level, IsRewrite

(***************************************************************************)
(* A rewrite that keeps the outcome: the code between a and b pushes, from *)
(* any stack, the same values before and after it, in as many turns.       *)
(***************************************************************************)
\* Instruction i takes the values u above some stack to w, and cannot fail.
PushStep(i, u, w) ==
    \/ i.op = "Nop" /\ w = u
    \/ i.op = "Constant" /\ i.v # Raise /\ w = Append(u, i.v)
    \/ i.op = "ConstantN" /\ StackOf(i.vs, Len(i.vs)) /\ w = u \o i.vs
    \/ i.op \in BinaryOps /\ \E x, y, z : u = <<x, y>> /\ z = BinaryOp(i.op, x, y) /\ z # Raise /\ w = <<z>>

\* pre[q] is what instructions a .. q - 1 have pushed.
Pushes(c, a, b, pre) ==
    /\ pre[a] = <<>>
    /\ \A q \in a .. b + 1 : StackOf(pre[q], Len(pre[q]))
    /\ \A q \in a .. b : PushStep(c[q], pre[q], pre[q + 1])

Window(c, d, a, b, pre, post) ==
    /\ Len(d) = Len(c)
    /\ a \in 1 .. Len(c) /\ b \in 1 .. Len(c) /\ a <= b
    /\ \A q \in 1 .. Len(c) : q \notin a .. b => d[q] = c[q]
    /\ \A t \in collectJumpTargets(c) : t \notin a + 1 .. b
    /\ Pushes(c, a, b, pre) /\ Pushes(d, a, b, post)
    /\ pre[b + 1] = post[b + 1]

\* The state past instruction q, with the stack st.
Past(s, q, st) == [s EXCEPT !.ip = q + 1, !.stack = st]

\* What Past leaves as it is.
LEMMA PastState ==
    ASSUME NEW s, IsState(s), NEW q, NEW st, NEW e, e = Past(s, q, st)
    PROVE  /\ IsState(e) /\ e.ip = q + 1 /\ e.stack = st /\ e.status = s.status
           /\ e.env = s.env /\ e.out = s.out /\ e.line = s.line
<1>1. PICK m : m = q + 1 OBVIOUS
<1>2. e = [s EXCEPT !.ip = m, !.stack = st] BY <1>1 DEF Past
<1>3. s = [ip |-> s.ip, stack |-> s.stack, env |-> s.env, out |-> s.out, line |-> s.line, status |-> s.status] BY DEF IsState
<1>4. e = [ip |-> m, stack |-> st, env |-> s.env, out |-> s.out, line |-> s.line, status |-> s.status] BY <1>2, <1>3
<1>5. e.ip = m /\ e.stack = st /\ e.status = s.status /\ e.env = s.env /\ e.out = s.out /\ e.line = s.line BY <1>4
<1> QED BY <1>1, <1>4, <1>5 DEF IsState

\* The state with the stack st.
WithStack(s, st) == [s EXCEPT !.stack = st]

\* What WithStack leaves as it is.
LEMMA WithStackState ==
    ASSUME NEW s, IsState(s), NEW st, NEW e, e = WithStack(s, st)
    PROVE  /\ IsState(e) /\ e.ip = s.ip /\ e.stack = st /\ e.status = s.status
           /\ e.env = s.env /\ e.out = s.out /\ e.line = s.line
BY SetStack DEF WithStack

\* A turn at an instruction that finds its operands.
LEMMA TurnIs ==
    ASSUME NEW c, Len(c) \in Nat, NEW q \in 1 .. Len(c), NEW s, s.ip = q, NEW i, i = c[q], NEW l \in Nat, l = Len(s.stack),
           NEW o \in Nat, o = Operands(i), NEW k \in Nat, k + o = l
    PROVE  Turn(c, s) = Effect(i, SubSeq(s.stack, k + 1, l), Past(s, q, SubSeq(s.stack, 1, k)))
<1>1. ~(s.ip > Len(c)) OBVIOUS
<1>2. Len(s.stack) - Operands(i) = k /\ ~(k < 0) OBVIOUS
<1>3. Turn(c, s) = LET rest == Len(s.stack) - Operands(i)
                   IN  IF rest < 0 THEN [s EXCEPT !.status = "panic"]
                       ELSE Effect(i, SubSeq(s.stack, rest + 1, Len(s.stack)),
                                   [s EXCEPT !.ip = @ + 1, !.stack = SubSeq(@, 1, rest)])
  BY <1>1 DEF Turn
<1>4. Turn(c, s) = Effect(i, SubSeq(s.stack, k + 1, Len(s.stack)), [s EXCEPT !.ip = @ + 1, !.stack = SubSeq(@, 1, k)])
  BY <1>2, <1>3
<1> QED BY <1>4 DEF Past

\* The run of s is at q with the values u above base; e is past q, with w.
IsAt(s, q, base, u) == IsState(s) /\ s.status = "running" /\ s.ip = q /\ s.stack = base \o u
Pushed(s, e, q, base, w) ==
    IsAt(e, q + 1, base, w) /\ e.env = s.env /\ e.out = s.out /\ e.line = s.line

\* One instruction that pushes.
LEMMA PushTurn ==
    ASSUME NEW c, Len(c) \in Nat, NEW q \in 1 .. Len(c), NEW s, NEW base, NEW n, StackOf(base, n), NEW u, NEW m, StackOf(u, m),
           IsAt(s, q, base, u), NEW w, PushStep(c[q], u, w)
    PROVE  Pushed(s, Turn(c, s), q, base, w)
<1> SUFFICES ASSUME IsState(s), s.status = "running", s.ip = q, s.stack = base \o u
               PROVE  /\ IsState(Turn(c, s)) /\ Turn(c, s).ip = q + 1 /\ Turn(c, s).stack = base \o w
                      /\ Turn(c, s).status = "running"
                      /\ Turn(c, s).env = s.env /\ Turn(c, s).out = s.out /\ Turn(c, s).line = s.line
  BY DEF IsAt, Pushed
<1>1. PICK i : i = c[q] OBVIOUS
<1>2. StackOf(s.stack, n + m) /\ n \in Nat /\ m \in Nat /\ Len(base) = n /\ Len(u) = m BY StackJoin, StackLen
<1>3. PICK l \in Nat : l = n + m /\ Len(s.stack) = l BY <1>2, StackLen
<1>4. CASE i.op \in {"Nop", "Constant", "ConstantN"}
  <2>1. Operands(i) = 0 BY <1>4 DEF Operands, BinaryOps, IntegerOps, CompareJumps
  <2>2. SubSeq(s.stack, 1, l) = s.stack
    <3>1. PICK S : s.stack \in Seq(S) BY <1>2, StackIsSeq
    <3> QED BY <1>3, <3>1
  <2>3. PICK args : args = SubSeq(s.stack, l + 1, l) OBVIOUS
  <2>4. PICK e : e = Past(s, q, SubSeq(s.stack, 1, l)) OBVIOUS
  <2>5. Turn(c, s) = Effect(i, args, e)
    <3>1. l + 0 = l BY <1>3
    <3>2. Turn(c, s) = Effect(i, SubSeq(s.stack, l + 1, l), Past(s, q, SubSeq(s.stack, 1, l)))
      BY ONLY Len(c) \in Nat, q \in 1 .. Len(c), s.ip = q, <1>1, <1>3, <2>1, <3>1, 0 \in Nat, TurnIs
    <3> QED BY <2>3, <2>4, <3>2
  <2>6. /\ IsState(e) /\ e.ip = q + 1 /\ e.stack = base \o u /\ e.status = "running"
        /\ e.env = s.env /\ e.out = s.out /\ e.line = s.line
    <3>1. e = Past(s, q, s.stack) BY <2>2, <2>4
    <3>2. /\ IsState(e) /\ e.ip = q + 1 /\ e.stack = s.stack /\ e.status = s.status
          /\ e.env = s.env /\ e.out = s.out /\ e.line = s.line
      BY ONLY IsState(s), <3>1, PastState
    <3> QED BY <3>2
  <2>7. CASE i.op = "Nop"
    <3>1. Effect(i, args, e) = e BY <2>7 DEF Effect, BinaryOps, IntegerOps, CompareJumps
    <3>2. w = u BY <1>1, <2>7 DEF PushStep, BinaryOps
    <3> QED BY <2>5, <2>6, <3>1, <3>2
  <2>8. CASE i.op = "Constant"
    <3>1. i.v # Raise /\ w = Append(u, i.v) BY <1>1, <2>8 DEF PushStep, BinaryOps
    <3>2. PICK t : t = Append(e.stack, i.v) OBVIOUS
    <3>3. PICK f : f = WithStack(e, t) OBVIOUS
    <3>4. Effect(i, args, e) = f BY <2>8, <3>1, <3>2, <3>3 DEF WithStack, Effect, Result, BinaryOps, IntegerOps, CompareJumps
    <3>5. t = base \o w
      <4>1. PICK v : v = i.v OBVIOUS
      <4>2. Append(base \o u, v) = base \o Append(u, v) BY ONLY StackOf(base, n), StackOf(u, m), PushJoin
      <4> QED BY <2>6, <3>1, <3>2, <4>1, <4>2
    <3>6. /\ IsState(f) /\ f.status = e.status /\ f.ip = e.ip /\ f.stack = t
          /\ f.env = e.env /\ f.out = e.out /\ f.line = e.line
      BY <2>6, <3>3, WithStackState
    <3> QED BY <2>5, <2>6, <3>4, <3>5, <3>6
  <2>9. CASE i.op = "ConstantN"
    <3>1. StackOf(i.vs, Len(i.vs)) /\ w = u \o i.vs BY <1>1, <2>9 DEF PushStep, BinaryOps
    <3>2. PICK t : t = e.stack \o i.vs OBVIOUS
    <3>3. PICK f : f = WithStack(e, t) OBVIOUS
    <3>4. Effect(i, args, e) = f BY <2>9, <3>2, <3>3 DEF WithStack, Effect, BinaryOps, IntegerOps, CompareJumps
    <3>5. t = base \o w
      <4>1. t = (base \o u) \o i.vs BY <2>6, <3>2
      <4>2. PICK vs : vs = i.vs OBVIOUS
      <4>3. PICK k : StackOf(vs, k) BY <3>1, <4>2
      <4>4. (base \o u) \o vs = base \o (u \o vs) BY ONLY SMTT(30), StackOf(base, n), StackOf(u, m), <4>3, JoinJoin
      <4> QED BY <3>1, <4>1, <4>2, <4>4
    <3>6. /\ IsState(f) /\ f.status = e.status /\ f.ip = e.ip /\ f.stack = t
          /\ f.env = e.env /\ f.out = e.out /\ f.line = e.line
      BY <2>6, <3>3, WithStackState
    <3> QED BY <2>5, <2>6, <3>4, <3>5, <3>6
  <2> QED BY <1>4, <2>7, <2>8, <2>9
<1>5. CASE i.op \in BinaryOps
  <2>1. PICK x, y, z : u = <<x, y>> /\ z = BinaryOp(i.op, x, y) /\ z # Raise /\ w = <<z>>
    BY <1>1, <1>5 DEF PushStep, BinaryOps
  <2>2. Operands(i) = 2 BY <1>5 DEF Operands, BinaryOps
  <2>3. l = n + 2 BY <1>2, <1>3, <2>1
  <2>4. SubSeq(s.stack, 1, n) = base /\ SubSeq(s.stack, n + 1, l)[1] = x /\ SubSeq(s.stack, n + 1, l)[2] = y
    <3>1. s.stack = base \o <<x, y>> BY <2>1
    <3>2. PICK t : t = s.stack OBVIOUS
    <3>3. SubSeq(t, 1, n) = base /\ SubSeq(t, n + 1, n + 2)[1] = x /\ SubSeq(t, n + 1, n + 2)[2] = y
      <4>1. IsPair(t, base, x, y) BY <3>1, <3>2 DEF IsPair
      <4>2. n \in Nat BY <1>2
      <4> QED BY ONLY StackOf(base, n), <4>1, <4>2, PairAbove
    <3> QED BY <2>3, <3>2, <3>3
  <2>5. PICK args : args = SubSeq(s.stack, n + 1, l) OBVIOUS
  <2>6. PICK e : e = Past(s, q, SubSeq(s.stack, 1, n)) OBVIOUS
  <2>7. Turn(c, s) = Effect(i, args, e)
    <3>1. Turn(c, s) = Effect(i, SubSeq(s.stack, n + 1, l), Past(s, q, SubSeq(s.stack, 1, n)))
      BY ONLY Len(c) \in Nat, q \in 1 .. Len(c), s.ip = q, <1>1, <1>2, <1>3, <2>2, <2>3, 2 \in Nat, TurnIs
    <3> QED BY <2>5, <2>6, <3>1
  <2>8. /\ IsState(e) /\ e.ip = q + 1 /\ e.stack = base /\ e.status = "running"
        /\ e.env = s.env /\ e.out = s.out /\ e.line = s.line
    <3>1. e = Past(s, q, base) BY <2>4, <2>6
    <3> QED BY <3>1, PastState
  <2>9. PICK t : t = Append(base, z) OBVIOUS
  <2>10. PICK f : f = WithStack(e, t) OBVIOUS
  <2>11. args[1] = x /\ args[2] = y BY <2>4, <2>5
  <2>12. Effect(i, args, e) = Result(e, BinaryOp(i.op, args[1], args[2]))
    BY <1>5 DEF Effect, BinaryOps, IntegerOps, CompareJumps
  <2>13. Effect(i, args, e) = f BY <2>1, <2>8, <2>9, <2>10, <2>11, <2>12 DEF Result, WithStack
  <2>14. t = base \o w
    <3>1. PICK S : base \in Seq(S) /\ z \in S BY StackIsSeq
    <3> QED BY <2>1, <2>9, <3>1
  <2>15. /\ IsState(f) /\ f.status = e.status /\ f.ip = e.ip /\ f.stack = t
         /\ f.env = e.env /\ f.out = e.out /\ f.line = e.line
    BY <2>8, <2>10, WithStackState
  <2> QED BY <2>7, <2>8, <2>13, <2>14, <2>15
<1> QED BY <1>1, <1>4, <1>5 DEF PushStep

\* Two runs, of c and of d, side by side.
Lockstep(a, b, pre, post, s, t) ==
    /\ IsState(s) /\ IsState(t)
    /\ s.status = t.status /\ s.ip = t.ip /\ s.env = t.env /\ s.out = t.out /\ s.line = t.line
    /\ s.stack # t.stack => s.status = "running" /\ s.ip \in a + 1 .. b
    /\ s.status = "running" /\ s.ip \in a + 1 .. b =>
          \E base, n : StackOf(base, n) /\ s.stack = base \o pre[s.ip] /\ t.stack = base \o post[s.ip]

\* Two runs in step take a turn and are in step again.
LEMMA LockstepTurn ==
    ASSUME NEW c, NEW h, IsHeight(c, h), NEW d, NEW a, NEW b, NEW pre, NEW post, Window(c, d, a, b, pre, post),
           NEW s, OnTrack(c, h, s), NEW t, Lockstep(a, b, pre, post, s, t), s.status = "running"
    PROVE  Lockstep(a, b, pre, post, Turn(c, s), Turn(d, t))
<1>1. PICK N \in Nat : N = Len(c) /\ DOMAIN c = 1 .. N BY DEF IsHeight
<1>2. a \in 1 .. N /\ b \in 1 .. N /\ a <= b /\ Len(d) = N BY <1>1 DEF Window
<1>3. PICK p \in 1 .. N : p = s.ip /\ StackOf(s.stack, h[p]) BY <1>1 DEF OnTrack
<1>4. IsState(s) /\ IsState(t) /\ t.status = "running" /\ t.ip = p BY <1>3 DEF Lockstep
<1>5. PICK e : e = Turn(c, s) OBVIOUS
<1>6. PICK f : f = Turn(d, t) OBVIOUS
<1>7. CASE p \notin a .. b
  <2>1. s.stack = t.stack
    <3>1. p \notin a + 1 .. b BY <1>2, <1>7
    <3> QED BY <1>3, <3>1 DEF Lockstep
  <2>2. s = t BY <1>4, <2>1 DEF Lockstep, IsState
  <2>3. d[p] = c[p] BY <1>1, <1>7 DEF Window
  <2>4. f = e BY <1>1, <1>2, <1>3, <1>5, <1>6, <2>2, <2>3 DEF Turn
  <2>5. OnTrack(c, h, e) /\ (e.status = "running" => e.ip \in Successors(c, p)) BY <1>3, <1>5, TurnOnTrack
  <2>6. ASSUME e.status = "running", e.ip \in a + 1 .. b PROVE FALSE
    <3>1. e.ip \in Successors(c, p) BY <2>5, <2>6
    <3>2. CASE c[p].op \in TargetOps /\ e.ip = c[p].to
      <4>1. e.ip \in collectJumpTargets(c) BY <1>1, <3>2, TargetOf
      <4> QED BY <2>6, <4>1 DEF Window
    <3>3. CASE e.ip = p + 1 BY <1>2, <1>7, <2>6, <3>3
    <3> QED BY <3>1, <3>2, <3>3 DEF Successors
  <2>7. IsState(e) BY <2>5 DEF OnTrack
  <2>8. Lockstep(a, b, pre, post, e, e) BY <2>6, <2>7 DEF Lockstep
  <2> QED BY <1>5, <1>6, <2>4, <2>8
<1>8. CASE p \in a .. b
  <2>1. Pushes(c, a, b, pre) /\ Pushes(d, a, b, post) /\ pre[b + 1] = post[b + 1] BY DEF Window
  <2>2. p \in a .. b + 1 /\ p + 1 \in a .. b + 1 BY <1>2, <1>8
  <2>3. PICK base, n : StackOf(base, n) /\ s.stack = base \o pre[p] /\ t.stack = base \o post[p]
    <3>1. CASE p \in a + 1 .. b BY <1>3, <3>1 DEF Lockstep
    <3>2. CASE p = a
      <4>1. p \notin a + 1 .. b BY <3>2
      <4>2. s.stack = t.stack BY <1>3, <4>1 DEF Lockstep
      <4>3. pre[p] = <<>> /\ post[p] = <<>> BY <2>1, <3>2 DEF Pushes
      <4>4. s.stack \o <<>> = s.stack
        <5>1. PICK S : s.stack \in Seq(S) BY <1>3, StackIsSeq
        <5> QED BY <5>1
      <4> QED BY <1>3, <4>2, <4>3, <4>4
    <3>3. p = a \/ p \in a + 1 .. b BY <1>2, <1>8
    <3> QED BY <3>1, <3>2, <3>3
  <2>4. PICK u, m, w, v, k, y : /\ u = pre[p] /\ StackOf(u, m) /\ w = pre[p + 1] /\ v = post[p] /\ StackOf(v, k) /\ y = post[p + 1]
    BY <2>1, <2>2 DEF Pushes
  <2>5. PushStep(c[p], u, w) /\ PushStep(d[p], v, y) BY <1>8, <2>1, <2>4 DEF Pushes
  <2>6. /\ IsState(e) /\ e.ip = p + 1 /\ e.stack = base \o w /\ e.status = "running"
        /\ e.env = s.env /\ e.out = s.out /\ e.line = s.line
    <3>1. Len(c) \in Nat /\ p \in 1 .. Len(c) /\ s.ip = p /\ s.stack = base \o u BY <1>1, <1>3, <2>3, <2>4
    <3>2. StackOf(base, n) /\ StackOf(u, m) BY <2>3, <2>4
    <3>3. IsAt(s, p, base, u) BY <1>4, <3>1 DEF IsAt
    <3>4. Pushed(s, Turn(c, s), p, base, w) BY ONLY <2>5, <3>1, <3>2, <3>3, PushTurn
    <3> QED BY <1>5, <3>4 DEF Pushed, IsAt
  <2>7. /\ IsState(f) /\ f.ip = p + 1 /\ f.stack = base \o y /\ f.status = "running"
        /\ f.env = t.env /\ f.out = t.out /\ f.line = t.line
    <3>1. Len(d) \in Nat /\ p \in 1 .. Len(d) /\ t.stack = base \o v BY <1>2, <1>3, <2>3, <2>4
    <3>2. StackOf(base, n) /\ StackOf(v, k) BY <2>3, <2>4
    <3>3. IsAt(t, p, base, v) BY <1>4, <3>1 DEF IsAt
    <3>4. Pushed(t, Turn(d, t), p, base, y) BY ONLY <2>5, <3>1, <3>2, <3>3, PushTurn
    <3> QED BY <1>6, <3>4 DEF Pushed, IsAt
  <2>8. e.env = f.env /\ e.out = f.out /\ e.line = f.line BY <2>6, <2>7 DEF Lockstep
  <2>9. CASE p = b
    <3>1. e.stack = f.stack BY <2>1, <2>4, <2>6, <2>7, <2>9
    <3>2. p + 1 \notin a + 1 .. b BY <1>2, <2>9
    <3> QED BY <1>5, <1>6, <2>6, <2>7, <2>8, <3>1, <3>2 DEF Lockstep
  <2>10. CASE p # b
    <3>1. p + 1 \in a + 1 .. b BY <1>2, <1>8, <2>10
    <3> QED BY <1>5, <1>6, <2>3, <2>4, <2>6, <2>7, <2>8, <3>1 DEF Lockstep
  <2> QED BY <2>9, <2>10
<1> QED BY SMTT(30), <1>7, <1>8

\* As long as a slice lasts, and as long as the run lasts.
LEMMA LockstepSlice ==
    ASSUME NEW c, NEW h, IsHeight(c, h), NEW d, NEW a, NEW b, NEW pre, NEW post, Window(c, d, a, b, pre, post),
           NEW s, OnTrack(c, h, s), NEW t, Lockstep(a, b, pre, post, s, t)
    PROVE  Lockstep(a, b, pre, post, Slice(c, s), Slice(d, t))
<1>1. PICK g : /\ g[0] = s /\ Slice(c, s) = g[Interval]
               /\ \A i \in 1 .. Interval : g[i] = IF g[i - 1].status = "running" THEN Turn(c, g[i - 1]) ELSE g[i - 1]
  BY SliceTable
<1>2. PICK f : /\ f[0] = t /\ Slice(d, t) = f[Interval]
               /\ \A i \in 1 .. Interval : f[i] = IF f[i - 1].status = "running" THEN Turn(d, f[i - 1]) ELSE f[i - 1]
  BY SliceTable
<1> DEFINE T == {n \in Nat : n <= Interval => OnTrack(c, h, g[n]) /\ Lockstep(a, b, pre, post, g[n], f[n])}
<1>3. 0 \in T BY <1>1, <1>2
<1>4. ASSUME NEW n \in T PROVE n + 1 \in T
  <2> SUFFICES ASSUME n + 1 <= Interval PROVE OnTrack(c, h, g[n + 1]) /\ Lockstep(a, b, pre, post, g[n + 1], f[n + 1]) OBVIOUS
  <2>1. PICK u, v : u = g[n] /\ v = f[n] /\ OnTrack(c, h, u) /\ Lockstep(a, b, pre, post, u, v) BY BoundsAssumption
  <2>2. PICK i \in 1 .. Interval : i = n + 1 /\ i - 1 = n BY BoundsAssumption
  <2>3. g[n + 1] = IF u.status = "running" THEN Turn(c, u) ELSE u BY <1>1, <2>1, <2>2
  <2>4. f[n + 1] = IF v.status = "running" THEN Turn(d, v) ELSE v BY <1>2, <2>1, <2>2
  <2>5. u.status = v.status BY <2>1 DEF Lockstep
  <2> HIDE DEF T
  <2>6. CASE u.status = "running"
    <3>1. OnTrack(c, h, Turn(c, u)) BY <2>1, <2>6, TurnOnTrack
    <3>2. Lockstep(a, b, pre, post, Turn(c, u), Turn(d, v)) BY <2>1, <2>6, LockstepTurn
    <3> QED BY <2>3, <2>4, <2>5, <2>6, <3>1, <3>2
  <2>7. CASE u.status # "running" BY <2>1, <2>3, <2>4, <2>5, <2>7
  <2> QED BY <2>6, <2>7
<1>5. T = Nat
  <2> HIDE DEF T
  <2>1. T \in SUBSET Nat BY DEF T
  <2> QED BY <1>3, <1>4, <2>1, SetInduction
<1>6. Interval \in T BY <1>5, BoundsAssumption
<1> QED BY <1>1, <1>2, <1>6, BoundsAssumption

\* Two runs stay in step to the end.
LEMMA LockstepRun ==
    ASSUME NEW c, NEW h, IsHeight(c, h), NEW d, NEW a, NEW b, NEW pre, NEW post, Window(c, d, a, b, pre, post)
    PROVE  Lockstep(a, b, pre, post, Executed(c), Executed(d))
<1>1. PICK g : /\ g[0] = Loaded /\ Executed(c) = g[Slices]
               /\ \A i \in 1 .. Slices : g[i] = IF g[i - 1].status = "running" THEN Slice(c, g[i - 1]) ELSE g[i - 1]
  BY RunTable
<1>2. PICK f : /\ f[0] = Loaded /\ Executed(d) = f[Slices]
               /\ \A i \in 1 .. Slices : f[i] = IF f[i - 1].status = "running" THEN Slice(d, f[i - 1]) ELSE f[i - 1]
  BY RunTable
<1> DEFINE T == {n \in Nat : n <= Slices => OnTrack(c, h, g[n]) /\ Lockstep(a, b, pre, post, g[n], f[n])}
<1>3. 0 \in T
  <2>1. IsState(Loaded) /\ Loaded.status = "running" /\ Loaded.ip = 1 /\ Loaded.stack = <<>> BY DEF Loaded, IsState
  <2>2. 1 \in 1 .. Len(c) /\ h[1] = 0 BY DEF IsHeight
  <2>3. OnTrack(c, h, Loaded) BY <2>1, <2>2, EmptyStack DEF OnTrack
  <2>4. 1 \notin a + 1 .. b BY DEF Window
  <2>5. Lockstep(a, b, pre, post, Loaded, Loaded) BY <2>1, <2>4 DEF Lockstep
  <2> QED BY <1>1, <1>2, <2>3, <2>5
<1>4. ASSUME NEW n \in T PROVE n + 1 \in T
  <2> SUFFICES ASSUME n + 1 <= Slices PROVE OnTrack(c, h, g[n + 1]) /\ Lockstep(a, b, pre, post, g[n + 1], f[n + 1]) OBVIOUS
  <2>1. PICK u, v : u = g[n] /\ v = f[n] /\ OnTrack(c, h, u) /\ Lockstep(a, b, pre, post, u, v) BY BoundsAssumption
  <2>2. PICK i \in 1 .. Slices : i = n + 1 /\ i - 1 = n BY BoundsAssumption
  <2>3. g[n + 1] = IF u.status = "running" THEN Slice(c, u) ELSE u BY <1>1, <2>1, <2>2
  <2>4. f[n + 1] = IF v.status = "running" THEN Slice(d, v) ELSE v BY <1>2, <2>1, <2>2
  <2>5. u.status = v.status BY <2>1 DEF Lockstep
  <2> HIDE DEF T
  <2>6. CASE u.status = "running"
    <3>1. OnTrack(c, h, Slice(c, u)) BY <2>1, SliceOnTrack
    <3>2. Lockstep(a, b, pre, post, Slice(c, u), Slice(d, v)) BY <2>1, LockstepSlice
    <3> QED BY <2>3, <2>4, <2>5, <2>6, <3>1, <3>2
  <2>7. CASE u.status # "running" BY <2>1, <2>3, <2>4, <2>5, <2>7
  <2> QED BY <2>6, <2>7
<1>5. T = Nat
  <2> HIDE DEF T
  <2>1. T \in SUBSET Nat BY DEF T
  <2> QED BY <1>3, <1>4, <2>1, SetInduction
<1>6. Slices \in T BY <1>5, BoundsAssumption
<1> QED BY <1>1, <1>2, <1>6, BoundsAssumption

\* A run that has ended, or been stopped, as its page's visitor sees it.
LEMMA WindowOutcome ==
    ASSUME NEW c, NEW h, IsHeight(c, h), NEW d, NEW a, NEW b, NEW pre, NEW post, Window(c, d, a, b, pre, post)
    PROVE  Outcome(d) = Outcome(c)
<1>1. PICK s : s = Executed(c) OBVIOUS
<1>2. PICK t : t = Executed(d) OBVIOUS
<1>3. Lockstep(a, b, pre, post, s, t) BY <1>1, <1>2, LockstepRun
<1>4. /\ IsState(s) /\ IsState(t)
      /\ s.status = t.status /\ s.env = t.env /\ s.out = t.out /\ s.line = t.line
  BY <1>3 DEF Lockstep
<1>5. CASE s.status = "running"
  <2>1. PICK u : u = [s EXCEPT !.status = "timeout"] OBVIOUS
  <2>2. PICK v : v = [t EXCEPT !.status = "timeout"] OBVIOUS
  <2>3. Run(c) = u /\ Run(d) = v BY <1>1, <1>2, <1>4, <1>5, <2>1, <2>2 DEF Run
  <2>4. u.status = "timeout" /\ u.env = s.env /\ u.out = s.out /\ u.line = s.line BY <1>4, <2>1, SetStatus
  <2>5. v.status = "timeout" /\ v.env = t.env /\ v.out = t.out /\ v.line = t.line BY <1>4, <2>2, SetStatus
  <2> QED BY <1>4, <2>3, <2>4, <2>5 DEF Outcome
<1>6. CASE s.status # "running"
  <2>1. Run(c) = s /\ Run(d) = t BY <1>1, <1>2, <1>4, <1>6 DEF Run
  <2> QED BY <1>4, <2>1 DEF Outcome
<1> QED BY <1>5, <1>6

\* Folding two constants and an operator keeps the outcome, if the fold is
\* what the operator gives.
LEMMA FoldedOutcome ==
    ASSUME NEW c, NEW T, Balanced(c, T), NEW i, Foldable(c, i, T), FoldIsExact(c, i)
    PROVE  Outcome(Folded(c, i)) = Outcome(c)
<1>1. PICK h : IsHeight(c, h) BY DEF Balanced, Level
<1>2. PICK j : j = NextOp(c, i) OBVIOUS
<1>3. PICK k : k = NextOp(c, j) OBVIOUS
<1>4. /\ i \in 1 .. Len(c) /\ j \in 1 .. Len(c) /\ k \in 1 .. Len(c) /\ i < j /\ j < k /\ k + 1 <= Len(c)
      /\ IsConstant(c, i) /\ IsConstant(c, j) /\ c[k].op \in FoldableOps
      /\ \A q \in i + 1 .. j - 1 : c[q].op = "Nop"
      /\ \A q \in j + 1 .. k - 1 : c[q].op = "Nop"
      /\ ~hasTargetInRange(T, i + 1, k) /\ CanFold(c[i].v, c[j].v, c[k].op)
  BY <1>1, <1>2, <1>3, FoldableIs
<1>5. PICK x, y, z : x = c[i].v /\ y = c[j].v /\ z = foldVBSBinaryOp(x, y, c[k].op) OBVIOUS
<1>6. z # Raise /\ z = BinaryOp(c[k].op, x, y)
  <2>1. z = BinaryOp(c[k].op, x, y) BY <1>2, <1>3, <1>5 DEF FoldIsExact
  <2> QED BY <1>4, <1>5, <2>1, FoldNotRaise
<1>7. c[i].op = "Constant" /\ c[j].op = "Constant" /\ x # Raise /\ y # Raise BY <1>1, <1>4, <1>5, ConstantHeight
<1>8. PICK d : d = [Blank(c, i + 1 .. k) EXCEPT ![i] = Constant(z)] OBVIOUS
<1>9. Folded(c, i) = d BY <1>2, <1>3, <1>5, <1>8 DEF Folded
<1>10. Len(c) \in Nat /\ DOMAIN c = 1 .. Len(c) BY <1>1 DEF IsHeight
<1>11. IsRewrite(c, i, k, Constant(z), d)
  <2>1. i <= k BY <1>4
  <2> QED BY <1>4, <1>8, <1>10, <2>1, RewriteIs
<1> DEFINE pre == [q \in i .. k + 1 |-> IF q = i THEN <<>> ELSE IF q <= j THEN <<x>> ELSE IF q <= k THEN <<x, y>> ELSE <<z>>]
           post == [q \in i .. k + 1 |-> IF q = i THEN <<>> ELSE <<z>>]
<1>12. Pushes(c, i, k, pre)
  <2>1. pre[i] = <<>> BY <1>4
  <2>2. ASSUME NEW q \in i .. k + 1 PROVE StackOf(pre[q], Len(pre[q]))
    <3>1. pre[q] = <<>> \/ pre[q] = <<x>> \/ pre[q] = <<x, y>> \/ pre[q] = <<z>> OBVIOUS
    <3> HIDE DEF pre
    <3> QED BY <3>1, ShortStacks
  <2>3. ASSUME NEW q \in i .. k PROVE PushStep(c[q], pre[q], pre[q + 1])
    <3>1. CASE q = i
      <4>1. pre[q] = <<>> /\ pre[q + 1] = <<x>> BY <1>4, <3>1
      <4>2. Append(<<>>, x) = <<x>> OBVIOUS
      <4> HIDE DEF pre
      <4> QED BY <1>5, <1>7, <3>1, <4>1, <4>2 DEF PushStep
    <3>2. CASE q \in i + 1 .. j - 1
      <4>1. pre[q] = <<x>> /\ pre[q + 1] = <<x>> BY <1>4, <3>2
      <4> HIDE DEF pre
      <4> QED BY <1>4, <3>2, <4>1 DEF PushStep
    <3>3. CASE q = j
      <4>1. pre[q] = <<x>> /\ pre[q + 1] = <<x, y>> BY <1>4, <3>3
      <4>2. Append(<<x>>, y) = <<x, y>> BY AppendPair
      <4> HIDE DEF pre
      <4> QED BY <1>5, <1>7, <3>3, <4>1, <4>2 DEF PushStep
    <3>4. CASE q \in j + 1 .. k - 1
      <4>1. pre[q] = <<x, y>> /\ pre[q + 1] = <<x, y>> BY <1>4, <3>4
      <4> HIDE DEF pre
      <4> QED BY <1>4, <3>4, <4>1 DEF PushStep
    <3>5. CASE q = k
      <4>1. pre[q] = <<x, y>> /\ pre[q + 1] = <<z>> BY <1>4, <3>5
      <4>2. c[k].op \in BinaryOps BY <1>4 DEF FoldableOps, BinaryOps
      <4> HIDE DEF pre
      <4> QED BY <1>6, <3>5, <4>1, <4>2 DEF PushStep
    <3> QED BY <1>4, <3>1, <3>2, <3>3, <3>4, <3>5
  <2> HIDE DEF pre
  <2> QED BY <2>1, <2>2, <2>3 DEF Pushes
<1>13. Pushes(d, i, k, post)
  <2>1. post[i] = <<>> BY <1>4
  <2>2. ASSUME NEW q \in i .. k + 1 PROVE StackOf(post[q], Len(post[q]))
    <3>1. post[q] = <<>> \/ post[q] = <<z>> OBVIOUS
    <3> HIDE DEF post
    <3> QED BY <3>1, ShortStacks
  <2>3. ASSUME NEW q \in i .. k PROVE PushStep(d[q], post[q], post[q + 1])
    <3>1. CASE q = i
      <4>1. post[q] = <<>> /\ post[q + 1] = <<z>> BY <1>4, <3>1
      <4>2. d[q] = Constant(z) BY <1>11, <3>1 DEF IsRewrite
      <4>3. d[q].op = "Constant" /\ d[q].v = z BY <4>2 DEF Constant
      <4>4. Append(<<>>, z) = <<z>> OBVIOUS
      <4> HIDE DEF post
      <4> QED BY <1>6, <4>1, <4>3, <4>4 DEF PushStep
    <3>2. CASE q \in i + 1 .. k
      <4>1. post[q] = <<z>> /\ post[q + 1] = <<z>> BY <1>4, <3>2
      <4>2. d[q].op = "Nop" BY <1>11, <3>2, NopFacts DEF IsRewrite
      <4> HIDE DEF post
      <4> QED BY <4>1, <4>2 DEF PushStep
    <3> QED BY <1>4, <3>1, <3>2
  <2> HIDE DEF post
  <2> QED BY <2>1, <2>2, <2>3 DEF Pushes
<1>14. pre[k + 1] = post[k + 1] BY <1>4
<1> HIDE DEF pre, post
<1>15. Window(c, d, i, k, pre, post)
  <2>1. \A t \in collectJumpTargets(c) : t \notin i + 1 .. k BY <1>4 DEF Balanced, hasTargetInRange
  <2>2. Len(d) = Len(c) /\ \A q \in 1 .. Len(c) : q \notin i .. k => d[q] = c[q] BY <1>11 DEF IsRewrite
  <2>3. i <= k BY <1>4
  <2> QED BY <1>4, <1>12, <1>13, <1>14, <2>1, <2>2, <2>3 DEF Window
<1> QED BY <1>1, <1>9, <1>15, WindowOutcome

\* Pooling the constants of a row keeps the outcome.
LEMMA PooledOutcome ==
    ASSUME NEW c, NEW T, Balanced(c, T), NEW p \in 1 .. Len(c), NEW ps, IsPool(c, T, p, ps)
    PROVE  Outcome(Pooled(c, ps)) = Outcome(c)
<1>1. PICK h : IsHeight(c, h) BY DEF Balanced, Level
<1>2. Len(c) \in Nat /\ DOMAIN c = 1 .. Len(c) BY <1>1 DEF IsHeight
<1>3. PICK n \in Nat : n = Len(ps) /\ n >= 1 /\ DOMAIN ps = 1 .. n BY DEF IsPool
<1>4. PICK e \in 1 .. Len(c) : e = ps[n] /\ e = Last(ps) /\ p <= e BY <1>3 DEF IsPool, Last
<1>5. ps[1] = p /\ ~hasTargetInRange(T, p + 1, e) BY <1>3, <1>4 DEF IsPool
<1>6. ASSUME NEW m \in 1 .. n
      PROVE  /\ ps[m] \in 1 .. Len(c) /\ c[ps[m]].op = "Constant" /\ c[ps[m]].v # Raise
             /\ h[ps[m]] = h[p] + m - 1 /\ h[ps[m] + 1] = h[ps[m]] + 1
  <2>1. IsConstant(c, ps[m]) BY <1>3, <1>6 DEF IsPool
  <2>2. PICK q : q = ps[m] OBVIOUS
  <2>3. /\ q \in 1 .. Len(c) /\ c[q].op = "Constant" /\ c[q].v # Raise /\ Operands(c[q]) = 0 /\ Results(c[q]) = 1
        /\ h[q] \in Nat
    BY <1>1, <2>1, <2>2, ConstantHeight
  <2>4. c[q].op \notin {"Jump", "Halt"} BY <2>3
  <2>5. h[q + 1] = h[q] - 0 + 1 BY <1>1, <2>3, <2>4, HeightAt
  <2>6. m \in 1 .. Len(ps) BY <1>3
  <2>7. h[ps[m]] = h[p] + m - 1 BY <1>1, <2>6, PoolHeight
  <2> QED BY <2>2, <2>3, <2>5, <2>7
<1>7. h[p] \in Nat BY <1>1, HeightAt
<1>8. PICK vs : vs = [m \in 1 .. n |-> c[ps[m]].v] OBVIOUS
<1>9. StackOf(vs, n) /\ Len(vs) = n
  <2>1. vs = [m \in 1 .. n |-> vs[m]] BY <1>8
  <2>2. StackOf(vs, n) BY <2>1 DEF StackOf
  <2> QED BY <2>2, StackLen
<1>10. PICK d : d = [Blank(c, p + 1 .. e) EXCEPT ![p] = ConstantN(vs)] OBVIOUS
<1>11. Pooled(c, ps) = d BY <1>3, <1>4, <1>5, <1>8, <1>10 DEF Pooled
<1>12. IsRewrite(c, p, e, ConstantN(vs), d) BY <1>2, <1>4, <1>10, RewriteIs
<1> DEFINE Below(k) == [m \in 1 .. k |-> vs[m]]
           pre == [q \in p .. e + 1 |-> Below(h[q] - h[p])]
           post == [q \in p .. e + 1 |-> IF q = p THEN <<>> ELSE vs]
<1>13. ASSUME NEW k \in Int PROVE StackOf(Below(k), Len(Below(k)))
  <2>1. PICK l \in Nat : 1 .. k = 1 .. l
    <3>1. CASE k >= 0 BY <3>1
    <3>2. CASE ~(k >= 0)
      <4>1. 1 .. k = 1 .. 0 BY <3>2
      <4> QED BY <4>1
    <3> QED BY <3>1, <3>2
  <2>2. PICK b : b = Below(k) OBVIOUS
  <2>3. b = [m \in 1 .. l |-> b[m]] BY <2>1, <2>2
  <2> HIDE DEF Below
  <2>4. StackOf(b, l) BY <2>3 DEF StackOf
  <2>5. Len(b) = l BY <2>4, StackLen
  <2> QED BY <2>2, <2>4, <2>5
<1>14. \A q \in p .. e + 1 : q \in 1 .. Len(c) /\ h[q] \in Nat
  <2>1. e + 1 \in 1 .. Len(c)
    <3>1. n \in 1 .. n BY <1>3
    <3>2. c[e].op = "Constant" BY <1>4, <1>6, <3>1
    <3>3. c[e].op \notin {"Jump", "Halt"} BY <3>2
    <3> QED BY <1>1, <3>3, HeightAt
  <2>2. ASSUME NEW q \in p .. e + 1 PROVE q \in 1 .. Len(c) BY <1>2, <1>4, <2>1
  <2> QED BY <1>1, <2>2, HeightAt
<1>15. Pushes(c, p, e, pre)
  <2>1. pre[p] = <<>>
    <3>1. p \in p .. e + 1 /\ h[p] - h[p] = 0 BY <1>4, <1>7
    <3>2. pre[p] = Below(0) BY <3>1
    <3>3. Below(0) = <<>> OBVIOUS
    <3> QED BY <3>2, <3>3
  <2>2. ASSUME NEW q \in p .. e + 1 PROVE StackOf(pre[q], Len(pre[q]))
    <3>1. h[q] - h[p] \in Int BY <1>7, <1>14
    <3>2. pre[q] = Below(h[q] - h[p]) OBVIOUS
    <3> HIDE DEF pre, Below
    <3> QED BY <1>13, <3>1, <3>2
  <2>3. ASSUME NEW q \in p .. e PROVE PushStep(c[q], pre[q], pre[q + 1])
    <3>1. q \in p .. e + 1 /\ q + 1 \in p .. e + 1 BY <1>4
    <3>2. pre[q] = Below(h[q] - h[p]) /\ pre[q + 1] = Below(h[q + 1] - h[p]) BY <3>1
    <3> HIDE DEF pre
    <3>3. CASE c[q].op = "Nop"
      <4>1. Operands(c[q]) = 0 /\ Results(c[q]) = 0 /\ c[q].op \notin {"Jump", "Halt"}
        BY <3>3 DEF Operands, Results, BinaryOps, IntegerOps, CompareJumps
      <4>2. q \in 1 .. Len(c) /\ h[q] \in Nat BY <1>14, <3>1
      <4>3. h[q + 1] = h[q] - 0 + 0 BY <1>1, <4>1, <4>2, HeightAt
      <4>4. h[q + 1] = h[q] BY <4>2, <4>3
      <4> QED BY <3>2, <3>3, <4>4 DEF PushStep
    <3>4. ASSUME NEW m \in 1 .. n, q = ps[m] PROVE PushStep(c[q], pre[q], pre[q + 1])
      <4>1. /\ c[q].op = "Constant" /\ c[q].v # Raise /\ h[q] = h[p] + m - 1 /\ h[q + 1] = h[q] + 1 BY <1>6, <3>4
      <4>2. PICK k \in Nat : k + 1 = m BY <1>3
      <4>3. h[q] - h[p] = k /\ h[q + 1] - h[p] = k + 1
        <5>1. PICK x, y, z : x = h[p] /\ y = h[q] /\ z = h[q + 1] OBVIOUS
        <5>2. x \in Nat /\ y = x + m - 1 /\ z = y + 1 BY <1>7, <4>1, <5>1
        <5>3. y - x = k /\ z - x = k + 1 BY <4>2, <5>2
        <5> QED BY <5>1, <5>3
      <4>4. Below(k + 1) = Append(Below(k), vs[k + 1]) BY PushBelow
      <4>5. vs[m] = c[q].v BY <1>8, <3>4
      <4> HIDE DEF Below
      <4> QED BY <3>2, <4>1, <4>2, <4>3, <4>4, <4>5 DEF PushStep
    <3>5. c[q].op = "Nop" \/ \E m \in 1 .. n : q = ps[m] BY <1>3, <1>4 DEF IsPool
    <3> QED BY <3>3, <3>4, <3>5
  <2> HIDE DEF pre, Below
  <2> QED BY <2>1, <2>2, <2>3 DEF Pushes
<1>16. Pushes(d, p, e, post)
  <2>1. post[p] = <<>> BY <1>4
  <2>2. ASSUME NEW q \in p .. e + 1 PROVE StackOf(post[q], Len(post[q]))
    <3>1. post[q] = <<>> \/ post[q] = vs OBVIOUS
    <3> HIDE DEF post
    <3> QED BY <1>9, <3>1, ShortStacks
  <2>3. ASSUME NEW q \in p .. e PROVE PushStep(d[q], post[q], post[q + 1])
    <3>1. CASE q = p
      <4>1. post[q] = <<>> /\ post[q + 1] = vs BY <1>4, <3>1
      <4>2. d[q] = ConstantN(vs) BY <1>12, <3>1 DEF IsRewrite
      <4>3. d[q].op = "ConstantN" /\ d[q].vs = vs BY <4>2 DEF ConstantN
      <4>4. <<>> \o vs = vs
        <5>1. PICK S : vs \in Seq(S) BY <1>9, StackIsSeq
        <5> QED BY <5>1
      <4> HIDE DEF post
      <4> QED BY <1>9, <4>1, <4>3, <4>4 DEF PushStep
    <3>2. CASE q \in p + 1 .. e
      <4>1. post[q] = vs /\ post[q + 1] = vs BY <1>4, <3>2
      <4>2. d[q].op = "Nop" BY <1>12, <3>2, NopFacts DEF IsRewrite
      <4> HIDE DEF post
      <4> QED BY <4>1, <4>2 DEF PushStep
    <3> QED BY <1>4, <3>1, <3>2
  <2> HIDE DEF post
  <2> QED BY <2>1, <2>2, <2>3 DEF Pushes
<1>17. pre[e + 1] = post[e + 1]
  <2>1. n \in 1 .. n BY <1>3
  <2>2. h[e] = h[p] + n - 1 /\ h[e + 1] = h[e] + 1 BY <1>4, <1>6, <2>1
  <2>3. h[e + 1] - h[p] = n BY <1>3, <1>7, <2>2
  <2>4. e + 1 \in p .. e + 1 /\ e + 1 # p BY <1>4
  <2>5. pre[e + 1] = Below(n) /\ post[e + 1] = vs BY <2>3, <2>4
  <2> HIDE DEF pre, post
  <2>6. Below(n) = vs BY <1>8
  <2> QED BY <2>5, <2>6
<1> HIDE DEF pre, post, Below
<1>18. Window(c, d, p, e, pre, post)
  <2>1. \A t \in collectJumpTargets(c) : t \notin p + 1 .. e BY <1>5 DEF Balanced, hasTargetInRange
  <2>2. Len(d) = Len(c) /\ \A q \in 1 .. Len(c) : q \notin p .. e => d[q] = c[q] BY <1>12 DEF IsRewrite
  <2> QED BY <1>4, <1>15, <1>16, <1>17, <2>1, <2>2 DEF Window
<1> QED BY <1>1, <1>11, <1>18, WindowOutcome

(***************************************************************************)
(* A dead branch: the run never gets into it.                              *)
(***************************************************************************)
\* A constant the compiler takes for false is false to the JumpIfFalse.
LEMMA FalseIsFalse ==
    ASSUME NEW v, isCompileTimeFalseValue(v)
    PROVE  ~isTruthy(v)
<1>1. CASE v.Type \in {"Bool", "Integer"} BY <1>1 DEF isCompileTimeFalseValue, isTruthy
<1>2. CASE v.Type = "String" BY <1>2 DEF isCompileTimeFalseValue, isTruthy
<1>3. CASE v.Type \notin {"Bool", "Integer", "String"} BY <1>3 DEF isTruthy
<1> QED BY <1>1, <1>2, <1>3

\* The constant at prev is false, the JumpIfFalse at p is the next
\* instruction, and no jump of c gets between or into the branch.
DeadBranch(c, p, prev, to) ==
    /\ prev \in 1 .. Len(c) /\ p \in 1 .. Len(c) /\ to \in 1 .. Len(c) /\ prev < p /\ p < to
    /\ c[prev].op = "Constant" /\ c[prev].v # Raise /\ ~isTruthy(c[prev].v)
    /\ \A q \in prev + 1 .. p - 1 : c[q].op = "Nop"
    /\ c[p].op = "JumpIfFalse" /\ c[p].to = to
    /\ \A t \in collectJumpTargets(c) : t \notin prev + 1 .. to - 1

\* A run keeps out of it: on the way from prev to p the constant is on top of the stack.
Outside(s, p, prev, to, v) ==
    s.status = "running" =>
        /\ s.ip \notin p + 1 .. to - 1
        /\ s.ip \in prev + 1 .. p => \E base, n : StackOf(base, n) /\ s.stack = base \o <<v>>

\* A turn keeps out of the branch: at prev it pushes the constant, then it
\* passes padding, and at p it jumps; from elsewhere no jump leads there.
LEMMA OutsideTurn ==
    ASSUME NEW c, NEW h, IsHeight(c, h), NEW p, NEW prev, NEW to, DeadBranch(c, p, prev, to), NEW v, v = c[prev].v,
           NEW s, OnTrack(c, h, s), s.status = "running", Outside(s, p, prev, to, v)
    PROVE  Outside(Turn(c, s), p, prev, to, v)
<1>1. PICK N \in Nat : N = Len(c) /\ DOMAIN c = 1 .. N BY DEF IsHeight
<1>2. prev \in 1 .. N /\ p \in 1 .. N /\ to \in 1 .. N /\ prev < p /\ p < to BY <1>1 DEF DeadBranch
<1>3. PICK q \in 1 .. N : q = s.ip /\ StackOf(s.stack, h[q]) /\ IsState(s) BY <1>1 DEF OnTrack
<1>4. PICK e : e = Turn(c, s) OBVIOUS
<1>5. CASE q = prev
  <2>1. PICK base, n : base = s.stack /\ StackOf(base, n) BY <1>3
  <2>2. base \o <<>> = base
    <3>1. PICK S : base \in Seq(S) BY <2>1, StackIsSeq
    <3> QED BY <3>1
  <2>3. IsAt(s, q, base, <<>>) BY <1>3, <2>1, <2>2 DEF IsAt
  <2>4. PushStep(c[q], <<>>, <<v>>)
    <3>1. Append(<<>>, v) = <<v>> OBVIOUS
    <3> QED BY <1>5, <3>1 DEF PushStep, DeadBranch
  <2>5. Len(c) \in Nat /\ q \in 1 .. Len(c) /\ StackOf(<<>>, 0) BY <1>1, <1>3, EmptyStack
  <2>6. StackOf(base, n) BY <2>1
  <2>7. Pushed(s, e, q, base, <<v>>) BY ONLY <1>4, <2>3, <2>4, <2>5, <2>6, PushTurn
  <2>8. e.ip = q + 1 /\ e.stack = base \o <<v>> BY <2>7 DEF Pushed, IsAt
  <2>9. q + 1 \notin p + 1 .. to - 1 BY <1>2, <1>5
  <2> QED BY <1>4, <2>6, <2>8, <2>9 DEF Outside
<1>6. CASE q \in prev + 1 .. p - 1
  <2>1. PICK base, n : StackOf(base, n) /\ s.stack = base \o <<v>>
    <3>1. q \in prev + 1 .. p BY <1>2, <1>6
    <3> QED BY <1>3, <3>1 DEF Outside
  <2>2. IsAt(s, q, base, <<v>>) BY <1>3, <2>1 DEF IsAt
  <2>3. PushStep(c[q], <<v>>, <<v>>)
    <3>1. c[q].op = "Nop" BY <1>6 DEF DeadBranch
    <3> QED BY <3>1 DEF PushStep
  <2>4. Len(c) \in Nat /\ q \in 1 .. Len(c) BY <1>1, <1>3
  <2>5. PICK u, m : u = <<v>> /\ StackOf(u, m) BY ShortStacks
  <2>6. Pushed(s, e, q, base, u)
    <3>1. IsAt(s, q, base, u) /\ PushStep(c[q], u, u) BY <2>2, <2>3, <2>5
    <3>2. StackOf(base, n) /\ StackOf(u, m) BY <2>1, <2>5
    <3> QED BY ONLY <1>4, <2>4, <3>1, <3>2, PushTurn
  <2>7. e.ip = q + 1 /\ e.stack = base \o <<v>> BY <2>5, <2>6 DEF Pushed, IsAt
  <2>8. q + 1 \notin p + 1 .. to - 1 BY <1>2, <1>6
  <2> QED BY <1>4, <2>1, <2>7, <2>8 DEF Outside
<1>7. CASE q = p
  <2>1. PICK base, n : StackOf(base, n) /\ s.stack = base \o <<v>>
    <3>1. q \in prev + 1 .. p BY <1>2, <1>7
    <3> QED BY <1>3, <3>1 DEF Outside
  <2>2. PICK i : i = c[q] OBVIOUS
  <2>3. i.op = "JumpIfFalse" /\ i.to = to BY <1>7, <2>2 DEF DeadBranch
  <2>4. Operands(i) = 1 BY <2>3 DEF Operands, BinaryOps, IntegerOps, CompareJumps
  <2>5. PICK t : t = s.stack OBVIOUS
  <2>6. n \in Nat /\ Len(t) = n + 1 /\ SubSeq(t, n + 1, n + 1)[1] = v
    <3>1. StackOf(base, n) BY <2>1
    <3>2. PICK S : base \in Seq(S) /\ v \in S /\ Len(base) = n /\ n \in Nat BY ONLY <3>1, StackIsSeq
    <3>3. t = base \o <<v>> BY <2>1, <2>5
    <3>4. t \in Seq(S) /\ Len(t) = n + 1 /\ t[n + 1] = v BY ONLY <3>2, <3>3
    <3>5. PICK l \in 1 .. Len(t) : l = n + 1 BY <3>2, <3>4
    <3>6. SubSeq(t, l, l)[1] = t[l] BY ONLY <3>4, <3>5
    <3> QED BY ONLY <3>2, <3>4, <3>5, <3>6
  <2>7. PICK args, f : args = SubSeq(t, n + 1, n + 1) /\ f = Past(s, q, SubSeq(t, 1, n)) OBVIOUS
  <2>8. e = Effect(i, args, f)
    <3>1. PICK l \in Nat : l = n + 1 BY <2>6
    <3>2. Turn(c, s) = Effect(i, SubSeq(s.stack, n + 1, l), Past(s, q, SubSeq(s.stack, 1, n)))
      <4>1. Len(c) \in Nat /\ q \in 1 .. Len(c) /\ s.ip = q /\ l = Len(s.stack) /\ n \in Nat /\ 1 \in Nat /\ n + 1 = l
        BY <1>1, <1>3, <2>5, <2>6, <3>1
      <4>2. 1 = Operands(i) BY <2>4
      <4> QED BY ONLY SMTT(30), <2>2, <3>1, <4>1, <4>2, TurnIs
    <3> QED BY <1>4, <2>5, <2>7, <3>1, <3>2
  <2>9. ~isTruthy(args[1])
    <3>1. args[1] = v BY <2>6, <2>7
    <3> QED BY <3>1 DEF DeadBranch
  <2>10. Effect(i, args, f) = JumpWhen(f, i, ~isTruthy(args[1])) BY <2>3 DEF Effect, BinaryOps, IntegerOps, CompareJumps
  <2>11. e = [f EXCEPT !.ip = to] BY <2>3, <2>8, <2>9, <2>10 DEF JumpWhen
  <2>12. IsState(f) BY <1>3, <2>7, PastState
  <2>13. e.ip = to BY <2>11, <2>12, SetIp
  <2>14. to \notin p + 1 .. to - 1 /\ to \notin prev + 1 .. p BY <1>2
  <2> QED BY <1>4, <2>13, <2>14 DEF Outside
<1>8. CASE q \notin prev .. to - 1
  <2>1. ASSUME e.status = "running" PROVE e.ip \notin prev + 1 .. to - 1
    <3>1. e.ip \in Successors(c, q) BY <1>3, <1>4, <2>1, TurnOnTrack
    <3>2. CASE c[q].op \in TargetOps /\ e.ip = c[q].to
      <4>1. e.ip \in collectJumpTargets(c) BY <1>1, <3>2, TargetOf
      <4> QED BY <4>1 DEF DeadBranch
    <3>3. CASE e.ip = q + 1 BY <1>2, <1>8, <3>3
    <3> QED BY <3>1, <3>2, <3>3 DEF Successors
  <2>2. ASSUME e.status = "running" PROVE e.ip \notin p + 1 .. to - 1 /\ e.ip \notin prev + 1 .. p
    <3>1. e.ip \notin prev + 1 .. to - 1 BY <2>1, <2>2
    <3> QED BY <1>2, <3>1
  <2> QED BY <1>4, <2>2 DEF Outside
<1>9. q \notin p + 1 .. to - 1 BY <1>3 DEF Outside
<1> QED BY <1>2, <1>5, <1>6, <1>7, <1>8, <1>9

\* A slice keeps out of it, and is the same without it.
LEMMA OutsideSlice ==
    ASSUME NEW c, NEW h, IsHeight(c, h), NEW p, NEW prev, NEW to, DeadBranch(c, p, prev, to), NEW v, v = c[prev].v,
           NEW d, Len(d) = Len(c), \A q \in 1 .. Len(c) : q \notin p + 1 .. to - 1 => d[q] = c[q],
           NEW s, OnTrack(c, h, s), Outside(s, p, prev, to, v)
    PROVE  Slice(d, s) = Slice(c, s) /\ Outside(Slice(c, s), p, prev, to, v)
<1>1. \E g : /\ g[0] = s /\ Slice(c, s) = g[Interval]
            /\ \A i \in 1 .. Interval : g[i] = IF g[i - 1].status = "running" THEN Turn(c, g[i - 1]) ELSE g[i - 1]
  BY ONLY SliceTable
<1>2. PICK g : /\ g[0] = s /\ Slice(c, s) = g[Interval]
               /\ \A i \in 1 .. Interval : g[i] = IF g[i - 1].status = "running" THEN Turn(c, g[i - 1]) ELSE g[i - 1]
  BY <1>1
<1>3. PICK f : /\ f[0] = s /\ Slice(d, s) = f[Interval]
               /\ \A i \in 1 .. Interval : f[i] = IF f[i - 1].status = "running" THEN Turn(d, f[i - 1]) ELSE f[i - 1]
  BY SliceTable
<1> DEFINE T == {n \in Nat : n <= Interval => OnTrack(c, h, g[n]) /\ Outside(g[n], p, prev, to, v) /\ f[n] = g[n]}
<1>4. 0 \in T BY <1>2, <1>3
<1>5. ASSUME NEW n \in T PROVE n + 1 \in T
  <2> SUFFICES ASSUME n + 1 <= Interval
               PROVE  OnTrack(c, h, g[n + 1]) /\ Outside(g[n + 1], p, prev, to, v) /\ f[n + 1] = g[n + 1]
    OBVIOUS
  <2>1. PICK u : u = g[n] /\ u = f[n] /\ OnTrack(c, h, u) /\ Outside(u, p, prev, to, v) BY BoundsAssumption
  <2>2. PICK i \in 1 .. Interval : i = n + 1 /\ i - 1 = n BY BoundsAssumption
  <2>3. g[n + 1] = IF u.status = "running" THEN Turn(c, u) ELSE u BY <1>2, <2>1, <2>2
  <2>4. f[n + 1] = IF u.status = "running" THEN Turn(d, u) ELSE u BY <1>3, <2>1, <2>2
  <2> HIDE DEF T
  <2>5. CASE u.status = "running"
    <3>1. OnTrack(c, h, Turn(c, u)) BY <2>1, <2>5, TurnOnTrack
    <3>2. Outside(Turn(c, u), p, prev, to, v) BY <2>1, <2>5, OutsideTurn
    <3>3. PICK q \in 1 .. Len(c) : q = u.ip /\ q \notin p + 1 .. to - 1 BY <2>1, <2>5 DEF OnTrack, Outside
    <3>4. d[q] = c[q] BY <3>3
    <3>5. Turn(d, u) = Turn(c, u) BY <3>3, <3>4 DEF Turn
    <3> QED BY <2>3, <2>4, <2>5, <3>1, <3>2, <3>5
  <2>6. CASE u.status # "running" BY <2>1, <2>3, <2>4, <2>6
  <2> QED BY <2>5, <2>6
<1>6. T = Nat
  <2> HIDE DEF T
  <2>1. T \in SUBSET Nat BY DEF T
  <2> QED BY <1>4, <1>5, <2>1, SetInduction
<1>7. Interval \in T BY <1>6, BoundsAssumption
<1> QED BY <1>2, <1>3, <1>7, BoundsAssumption

\* A run is the same without the branch.
LEMMA OutsideRun ==
    ASSUME NEW c, NEW h, IsHeight(c, h), NEW p, NEW prev, NEW to, DeadBranch(c, p, prev, to),
           NEW d, Len(d) = Len(c), \A q \in 1 .. Len(c) : q \notin p + 1 .. to - 1 => d[q] = c[q]
    PROVE  Executed(d) = Executed(c)
<1>1. PICK g : /\ g[0] = Loaded /\ Executed(c) = g[Slices]
               /\ \A i \in 1 .. Slices : g[i] = IF g[i - 1].status = "running" THEN Slice(c, g[i - 1]) ELSE g[i - 1]
  BY RunTable
<1>2. PICK f : /\ f[0] = Loaded /\ Executed(d) = f[Slices]
               /\ \A i \in 1 .. Slices : f[i] = IF f[i - 1].status = "running" THEN Slice(d, f[i - 1]) ELSE f[i - 1]
  BY RunTable
<1>3. PICK v : v = c[prev].v OBVIOUS
<1> DEFINE T == {n \in Nat : n <= Slices => OnTrack(c, h, g[n]) /\ Outside(g[n], p, prev, to, v) /\ f[n] = g[n]}
<1>4. 0 \in T
  <2>1. IsState(Loaded) /\ Loaded.status = "running" /\ Loaded.ip = 1 /\ Loaded.stack = <<>> BY DEF Loaded, IsState
  <2>2. 1 \in 1 .. Len(c) /\ h[1] = 0 BY DEF IsHeight
  <2>3. OnTrack(c, h, Loaded) BY <2>1, <2>2, EmptyStack DEF OnTrack
  <2>4. 1 \notin p + 1 .. to - 1 /\ 1 \notin prev + 1 .. p BY DEF DeadBranch
  <2>5. Outside(Loaded, p, prev, to, v) BY <2>1, <2>4 DEF Outside
  <2> QED BY <1>1, <1>2, <2>3, <2>5
<1>5. ASSUME NEW n \in T PROVE n + 1 \in T
  <2> SUFFICES ASSUME n + 1 <= Slices
               PROVE  OnTrack(c, h, g[n + 1]) /\ Outside(g[n + 1], p, prev, to, v) /\ f[n + 1] = g[n + 1]
    OBVIOUS
  <2>1. PICK u : u = g[n] /\ u = f[n] /\ OnTrack(c, h, u) /\ Outside(u, p, prev, to, v) BY BoundsAssumption
  <2>2. PICK i \in 1 .. Slices : i = n + 1 /\ i - 1 = n BY BoundsAssumption
  <2>3. g[n + 1] = IF u.status = "running" THEN Slice(c, u) ELSE u BY <1>1, <2>1, <2>2
  <2>4. f[n + 1] = IF u.status = "running" THEN Slice(d, u) ELSE u BY <1>2, <2>1, <2>2
  <2> HIDE DEF T
  <2>5. OnTrack(c, h, Slice(c, u)) BY <2>1, SliceOnTrack
  <2>6. Slice(d, u) = Slice(c, u) /\ Outside(Slice(c, u), p, prev, to, v) BY <1>3, <2>1, OutsideSlice
  <2> QED BY <2>1, <2>3, <2>4, <2>5, <2>6
<1>6. T = Nat
  <2> HIDE DEF T
  <2>1. T \in SUBSET Nat BY DEF T
  <2> QED BY <1>4, <1>5, <2>1, SetInduction
<1>7. Slices \in T BY <1>6, BoundsAssumption
<1> QED BY <1>1, <1>2, <1>7, BoundsAssumption

\* Removing the branch keeps the outcome, if no jump lands between the
\* constant and the JumpIfFalse.
LEMMA BranchRemovedOutcome ==
    ASSUME NEW c, NEW T, Balanced(c, T), NEW p \in 1 .. Len(c), c[p].op = "JumpIfFalse",
           NEW prev \in Nat, prev < p, IsDeadJump(c, p, prev, T), \A q \in prev + 1 .. p - 1 : c[q].op = "Nop",
           ~hasTargetInRange(T, prev + 1, p)
    PROVE  Outcome(BranchRemoved(c, p)) = Outcome(c)
<1>1. PICK h : IsHeight(c, h) BY DEF Balanced, Level
<1>2. Len(c) \in Nat /\ DOMAIN c = 1 .. Len(c) BY <1>1 DEF IsHeight
<1>3. c[p].op \in TargetOps BY DEF TargetOps
<1>4. PICK to \in 1 .. Len(c) : to = c[p].to BY <1>1, <1>3, HeightAt
<1>5. to > p + 1 /\ ~hasTargetInRange(T, p + 1, to - 1) /\ IsConstant(c, prev) /\ isCompileTimeFalseValue(c[prev].v)
  BY <1>4 DEF IsDeadJump
<1>6. prev \in 1 .. Len(c) /\ c[prev].op = "Constant" /\ c[prev].v # Raise BY <1>1, <1>5, ConstantHeight
<1>7. ~isTruthy(c[prev].v) BY <1>5, FalseIsFalse
<1>8. ASSUME NEW t \in collectJumpTargets(c), t \in prev + 1 .. to - 1 PROVE FALSE
  <2>1. t \in T BY DEF Balanced
  <2>2. t \in prev + 1 .. p \/ t \in p + 1 .. to - 1 BY <1>2, <1>4, <1>8
  <2> QED BY <1>5, <2>1, <2>2 DEF hasTargetInRange
<1>9. DeadBranch(c, p, prev, to)
  <2>1. p < to BY <1>2, <1>4, <1>5
  <2> QED BY <1>4, <1>6, <1>7, <1>8, <2>1 DEF DeadBranch
<1>10. PICK d : d = BranchRemoved(c, p) OBVIOUS
<1>11. d = [q \in 1 .. Len(c) |-> IF q \in p + 1 .. to - 1 THEN Nop ELSE c[q]] BY <1>2, <1>4, <1>10 DEF BranchRemoved, Blank
<1>12. Len(d) = Len(c) BY <1>10, BranchRemovedBalanced
<1>13. \A q \in 1 .. Len(c) : q \notin p + 1 .. to - 1 => d[q] = c[q] BY <1>11
<1>14. Executed(d) = Executed(c) BY <1>1, <1>9, <1>12, <1>13, OutsideRun
<1>15. Run(d) = Run(c) BY <1>14 DEF Run
<1> QED BY <1>10, <1>15 DEF Outcome

\* How many turns the walk of the peephole pass has.
LEMMA TurnsOfPeephole ==
    ASSUME NEW c, Level(c)
    PROVE  Len(c) + Cardinality(Operators(c)) \in Nat
<1>1. Len(c) \in Nat /\ DOMAIN c = 1 .. Len(c) BY LevelLen DEF Level, IsHeight
<1>2. IsFiniteSet(DOMAIN c) BY <1>1, FS_Interval
<1>3. Operators(c) \subseteq DOMAIN c BY DEF Operators
<1>4. Cardinality(Operators(c)) \in Nat BY <1>2, <1>3, FS_Subset, FS_CardinalityType
<1> QED BY <1>1, <1>4

\* The states of the walk of the peephole pass.
LEMMA PeepholeTable ==
    ASSUME NEW c, Level(c), NEW missed
    PROVE  \E g : /\ g[0] = [code |-> c, at |-> 1, exact |-> TRUE] /\ optimizePeepholePass(c, missed) = g[Len(c) + Cardinality(Operators(c))]
                  /\ \A i \in 1 .. Len(c) + Cardinality(Operators(c)) : g[i] = FoldStep(g[i - 1], missed, collectJumpTargets(c))
<1> DEFINE Table(g, n) == g = [i \in 0 .. n |-> IF i = 0 THEN [code |-> c, at |-> 1, exact |-> TRUE] ELSE FoldStep(g[i - 1], missed, collectJumpTargets(c))]
           T == {n \in Nat : \E g : Table(g, n)}
           g0 == CHOOSE g : Table(g, Len(c) + Cardinality(Operators(c)))
<1>1. Len(c) + Cardinality(Operators(c)) \in Nat BY TurnsOfPeephole
<1>2. 0 \in T
  <2>1. Table([i \in 0 .. 0 |-> [code |-> c, at |-> 1, exact |-> TRUE]], 0) OBVIOUS
  <2> QED BY <2>1
<1>3. ASSUME NEW n \in T PROVE n + 1 \in T
  <2>1. PICK g : Table(g, n) OBVIOUS
  <2> DEFINE k == [i \in 0 .. n + 1 |-> IF i = n + 1 THEN FoldStep(g[n], missed, collectJumpTargets(c)) ELSE g[i]]
  <2>2. ASSUME NEW i \in 0 .. n + 1 PROVE k[i] = IF i = 0 THEN [code |-> c, at |-> 1, exact |-> TRUE] ELSE FoldStep(k[i - 1], missed, collectJumpTargets(c))
    <3>1. CASE i = n + 1
      <4>1. i # 0 /\ i - 1 = n /\ i - 1 # n + 1 /\ i - 1 \in 0 .. n + 1 BY <3>1
      <4>2. k[i - 1] = g[n] BY <4>1
      <4> QED BY <3>1, <4>1, <4>2
    <3>2. CASE i = 0 BY <2>1, <3>2
    <3>3. CASE i \in 1 .. n
      <4>1. i \in 0 .. n /\ i # 0 /\ i # n + 1 /\ i - 1 # n + 1 /\ i - 1 \in 0 .. n + 1 BY <3>3
      <4>2. k[i - 1] = g[i - 1] /\ k[i] = g[i] BY <4>1
      <4>3. g[i] = FoldStep(g[i - 1], missed, collectJumpTargets(c)) BY <2>1, <4>1
      <4> QED BY <4>1, <4>2, <4>3
    <3> QED BY <3>1, <3>2, <3>3
  <2>3. Table(k, n + 1)
    <3> HIDE DEF k
    <3>1. k = [i \in 0 .. n + 1 |-> k[i]] BY DEF k
    <3> QED BY <2>2, <3>1
  <2>4. n + 1 \in Nat OBVIOUS
  <2> HIDE DEF Table, k
  <2> QED BY <2>3, <2>4
<1>4. T = Nat
  <2> HIDE DEF T
  <2>1. T \in SUBSET Nat BY DEF T
  <2> QED BY <1>2, <1>3, <2>1, SetInduction
<1>5. Table(g0, Len(c) + Cardinality(Operators(c))) BY <1>1, <1>4
<1>6. optimizePeepholePass(c, missed) = g0[Len(c) + Cardinality(Operators(c))] BY DEF optimizePeepholePass, Repeat
<1> HIDE DEF g0
<1>7. g0[0] = [code |-> c, at |-> 1, exact |-> TRUE] BY <1>1, <1>5
<1>8. ASSUME NEW i \in 1 .. Len(c) + Cardinality(Operators(c)) PROVE g0[i] = FoldStep(g0[i - 1], missed, collectJumpTargets(c))
  <2>1. i \in 0 .. Len(c) + Cardinality(Operators(c)) /\ i # 0 BY <1>1
  <2> QED BY <1>5, <2>1
<1> QED BY <1>6, <1>7, <1>8

\* The walk of the peephole pass keeps the heights, and the outcome as long
\* as the folds are exact.
LEMMA PeepholeLevel ==
    ASSUME NEW c, Level(c), NEW missed
    PROVE  LET w == optimizePeepholePass(c, missed) IN Level(w.code) /\ (w.exact => Outcome(w.code) = Outcome(c))
<1>1. PICK T : T = collectJumpTargets(c) OBVIOUS
<1>2. PICK N \in Nat : N = Len(c) + Cardinality(Operators(c)) BY TurnsOfPeephole
<1>3. PICK g : /\ g[0] = [code |-> c, at |-> 1, exact |-> TRUE] /\ optimizePeepholePass(c, missed) = g[N]
               /\ \A i \in 1 .. N : g[i] = FoldStep(g[i - 1], missed, T)
  <2>1. \E g : /\ g[0] = [code |-> c, at |-> 1, exact |-> TRUE] /\ optimizePeepholePass(c, missed) = g[Len(c) + Cardinality(Operators(c))]
              /\ \A i \in 1 .. Len(c) + Cardinality(Operators(c)) : g[i] = FoldStep(g[i - 1], missed, collectJumpTargets(c))
    BY PeepholeTable, Zenon
  <2> QED BY <1>1, <1>2, <2>1, Zenon
<1> DEFINE Good(w) == /\ w = [code |-> w.code, at |-> w.at, exact |-> w.exact] /\ w.exact \in BOOLEAN
                      /\ Balanced(w.code, T) /\ (w.exact => Outcome(w.code) = Outcome(c))
           A == {n \in Nat : n <= N => Good(g[n])}
<1>4. 0 \in A
  <2>1. PICK w : w = [code |-> c, at |-> 1, exact |-> TRUE] OBVIOUS
  <2>2. w.code = c /\ w.at = 1 /\ w.exact = TRUE BY <2>1
  <2>3. Good(w) BY <1>1, <2>1, <2>2 DEF Balanced
  <2>4. g[0] = w BY <1>3, <2>1
  <2> HIDE DEF Good
  <2> QED BY <2>3, <2>4
<1>5. ASSUME NEW n \in A PROVE n + 1 \in A
  <2> SUFFICES ASSUME n + 1 <= N PROVE Good(g[n + 1]) OBVIOUS
  <2>1. PICK w : w = g[n] /\ Good(w) BY <1>2
  <2>2. PICK i \in 1 .. N : i = n + 1 /\ i - 1 = n BY <1>2
  <2>3. g[n + 1] = FoldStep(w, missed, T) BY <1>3, <2>1, <2>2
  <2> HIDE DEF A
  <2>4. CASE w.at \notin missed /\ Foldable(w.code, w.at, T)
    <3>1. PICK d : d = Folded(w.code, w.at) OBVIOUS
    <3>2. PICK e \in BOOLEAN : e = (w.exact /\ FoldIsExact(w.code, w.at)) OBVIOUS
    <3>3. Balanced(d, T) BY <2>1, <2>4, <3>1, FoldedBalanced
    <3>4. ASSUME e PROVE Outcome(d) = Outcome(c)
      <4>1. w.exact /\ FoldIsExact(w.code, w.at) BY <3>2, <3>4
      <4>2. Outcome(Folded(w.code, w.at)) = Outcome(w.code) BY <2>1, <2>4, <4>1, FoldedOutcome
      <4> QED BY <2>1, <3>1, <4>1, <4>2
    <3>5. FoldStep(w, missed, T) = [w EXCEPT !.code = d, !.exact = e] BY <2>1, <2>4, <3>1, <3>2 DEF FoldStep
    <3>6. PICK x : x = [w EXCEPT !.code = d, !.exact = e] OBVIOUS
    <3>7. x = [code |-> x.code, at |-> x.at, exact |-> x.exact] /\ x.code = d /\ x.exact = e BY <2>1, <3>6
    <3> QED BY <2>3, <3>3, <3>4, <3>5, <3>6, <3>7
  <2>5. CASE ~(w.at \notin missed /\ Foldable(w.code, w.at, T))
    <3>1. PICK m : m = w.at + 1 OBVIOUS
    <3>2. PICK x : x = [w EXCEPT !.at = m] OBVIOUS
    <3>3. FoldStep(w, missed, T) = x BY <2>5, <3>1, <3>2 DEF FoldStep
    <3>4. x = [code |-> x.code, at |-> x.at, exact |-> x.exact] /\ x.code = w.code /\ x.exact = w.exact BY <2>1, <3>2
    <3> QED BY <2>1, <2>3, <3>3, <3>4
  <2> QED BY <2>4, <2>5
<1>6. A = Nat
  <2> HIDE DEF A
  <2>1. A \in SUBSET Nat BY DEF A
  <2> QED BY <1>4, <1>5, <2>1, SetInduction
<1>7. Good(g[N]) BY <1>6
<1> QED BY <1>3, <1>7 DEF Balanced

\* The states of the walk of the dead jump pass.
LEMMA DeadJumpTable ==
    ASSUME NEW c, Len(c) \in Nat
    PROVE  \E g : /\ g[0] = [code |-> c, changed |-> FALSE, prev |-> 0] /\ optimizeDeadConditionalJumpPass(c) = g[Len(c)]
                  /\ \A i \in 1 .. Len(c) : g[i] = DeadStep(g[i - 1], i, collectJumpTargets(c))
<1> DEFINE Table(g, n) == g = [i \in 0 .. n |-> IF i = 0 THEN [code |-> c, changed |-> FALSE, prev |-> 0] ELSE DeadStep(g[i - 1], i, collectJumpTargets(c))]
           T == {n \in Nat : \E g : Table(g, n)}
           g0 == CHOOSE g : Table(g, Len(c))
<1>1. Len(c) \in Nat OBVIOUS
<1>2. 0 \in T
  <2>1. Table([i \in 0 .. 0 |-> [code |-> c, changed |-> FALSE, prev |-> 0]], 0) OBVIOUS
  <2> QED BY <2>1
<1>3. ASSUME NEW n \in T PROVE n + 1 \in T
  <2>1. PICK g : Table(g, n) OBVIOUS
  <2> DEFINE k == [i \in 0 .. n + 1 |-> IF i = n + 1 THEN DeadStep(g[n], i, collectJumpTargets(c)) ELSE g[i]]
  <2>2. ASSUME NEW i \in 0 .. n + 1 PROVE k[i] = IF i = 0 THEN [code |-> c, changed |-> FALSE, prev |-> 0] ELSE DeadStep(k[i - 1], i, collectJumpTargets(c))
    <3>1. CASE i = n + 1
      <4>1. i # 0 /\ i - 1 = n /\ i - 1 # n + 1 /\ i - 1 \in 0 .. n + 1 BY <3>1
      <4>2. k[i - 1] = g[n] BY <4>1
      <4> QED BY <3>1, <4>1, <4>2
    <3>2. CASE i = 0 BY <2>1, <3>2
    <3>3. CASE i \in 1 .. n
      <4>1. i \in 0 .. n /\ i # 0 /\ i # n + 1 /\ i - 1 # n + 1 /\ i - 1 \in 0 .. n + 1 BY <3>3
      <4>2. k[i - 1] = g[i - 1] /\ k[i] = g[i] BY <4>1
      <4>3. g[i] = DeadStep(g[i - 1], i, collectJumpTargets(c)) BY <2>1, <4>1
      <4> QED BY <4>1, <4>2, <4>3
    <3> QED BY <3>1, <3>2, <3>3
  <2>3. Table(k, n + 1)
    <3> HIDE DEF k
    <3>1. k = [i \in 0 .. n + 1 |-> k[i]] BY DEF k
    <3> QED BY <2>2, <3>1
  <2>4. n + 1 \in Nat OBVIOUS
  <2> HIDE DEF Table, k
  <2> QED BY <2>3, <2>4
<1>4. T = Nat
  <2> HIDE DEF T
  <2>1. T \in SUBSET Nat BY DEF T
  <2> QED BY <1>2, <1>3, <2>1, SetInduction
<1>5. Table(g0, Len(c)) BY <1>1, <1>4
<1>6. optimizeDeadConditionalJumpPass(c) = g0[Len(c)] BY DEF optimizeDeadConditionalJumpPass, Repeat
<1> HIDE DEF g0
<1>7. g0[0] = [code |-> c, changed |-> FALSE, prev |-> 0] BY <1>1, <1>5
<1>8. ASSUME NEW i \in 1 .. Len(c) PROVE g0[i] = DeadStep(g0[i - 1], i, collectJumpTargets(c))
  <2>1. i \in 0 .. Len(c) /\ i # 0 BY <1>1
  <2> QED BY <1>5, <2>1
<1> QED BY <1>6, <1>7, <1>8

\* The walk of the dead jump pass keeps the heights.
LEMMA DeadJumpLevel ==
    ASSUME NEW c, Level(c)
    PROVE  LET a == optimizeDeadConditionalJumpPass(c) IN Level(a.code) /\ a.changed \in BOOLEAN
<1>1. PICK T : T = collectJumpTargets(c) OBVIOUS
<1>2. PICK N \in Nat : N = Len(c) BY LevelLen
<1>3. PICK g : /\ g[0] = [code |-> c, changed |-> FALSE, prev |-> 0] /\ optimizeDeadConditionalJumpPass(c) = g[N]
               /\ \A i \in 1 .. N : g[i] = DeadStep(g[i - 1], i, T)
  BY <1>1, <1>2, DeadJumpTable
<1> DEFINE Good(a) == /\ a = [code |-> a.code, changed |-> a.changed, prev |-> a.prev] /\ a.changed \in BOOLEAN
                      /\ Balanced(a.code, T) /\ Len(a.code) = N
           A == {n \in Nat : n <= N => Good(g[n])}
<1>4. 0 \in A
  <2>1. PICK a : a = g[0] OBVIOUS
  <2>2. a = [code |-> c, changed |-> FALSE, prev |-> 0] BY <1>3, <2>1
  <2>3. a.code = c /\ a.changed = FALSE /\ a.prev = 0 BY <2>2
  <2>4. Balanced(c, T) /\ Len(c) = N BY <1>1, <1>2 DEF Balanced
  <2>5. Good(a) BY <2>2, <2>3, <2>4
  <2> QED BY <2>1, <2>5
<1>5. ASSUME NEW n \in A PROVE n + 1 \in A
  <2> SUFFICES ASSUME n + 1 <= N PROVE Good(g[n + 1]) OBVIOUS
  <2>1. PICK a : a = g[n] /\ Good(a) BY <1>2
  <2>2. PICK i \in 1 .. N : i = n + 1 /\ i - 1 = n BY <1>2
  <2>3. g[n + 1] = DeadStep(a, i, T) BY <1>3, <2>1, <2>2
  <2> HIDE DEF A
  <2>4. CASE a.code[i].op = "Nop" BY <2>1, <2>3, <2>4 DEF DeadStep
  <2>5. CASE a.code[i].op = "JumpIfFalse" /\ IsDeadJump(a.code, i, a.prev, T)
    <3>1. PICK d : d = BranchRemoved(a.code, i) OBVIOUS
    <3>2. Balanced(d, T) /\ Len(d) = N BY <2>1, <2>5, <3>1, BranchRemovedBalanced
    <3>3. PICK ch \in BOOLEAN : ch = (a.changed \/ ~BranchIsBlank(a.code, i)) OBVIOUS
    <3>4. PICK x : x = [code |-> d, changed |-> ch, prev |-> i] OBVIOUS
    <3>5. DeadStep(a, i, T) = x BY <2>5, <3>1, <3>3, <3>4 DEF DeadStep
    <3>6. x.code = d /\ x.changed = ch /\ x.prev = i BY <3>4
    <3> QED BY <2>3, <3>2, <3>4, <3>5, <3>6
  <2>6. CASE a.code[i].op # "Nop" /\ ~(a.code[i].op = "JumpIfFalse" /\ IsDeadJump(a.code, i, a.prev, T))
    <3>1. PICK x : x = [a EXCEPT !.prev = i] OBVIOUS
    <3>2. DeadStep(a, i, T) = x BY <2>6, <3>1 DEF DeadStep
    <3>3. x = [code |-> x.code, changed |-> x.changed, prev |-> x.prev] /\ x.code = a.code /\ x.changed = a.changed
      BY <2>1, <3>1
    <3> QED BY <2>1, <2>3, <3>2, <3>3
  <2> QED BY <2>4, <2>5, <2>6
<1>6. A = Nat
  <2> HIDE DEF A
  <2>1. A \in SUBSET Nat BY DEF A
  <2> QED BY <1>4, <1>5, <2>1, SetInduction
<1>7. Good(g[N]) BY <1>6
<1> QED BY <1>3, <1>7 DEF Balanced

\* The walk of the dead jump pass keeps the outcome, where no test is shared:
\* what lies between the instruction before and the JumpIfFalse is padding,
\* and what is blanked makes no new test.
LEMMA DeadJumpOutcome ==
    ASSUME NEW c, Level(c), ~TestIsShared(c)
    PROVE  Outcome(optimizeDeadConditionalJumpPass(c).code) = Outcome(c)
<1>1. PICK T : T = collectJumpTargets(c) OBVIOUS
<1>2. PICK N \in Nat : N = Len(c) BY LevelLen
<1>3. PICK g : /\ g[0] = [code |-> c, changed |-> FALSE, prev |-> 0] /\ optimizeDeadConditionalJumpPass(c) = g[N]
               /\ \A i \in 1 .. N : g[i] = DeadStep(g[i - 1], i, T)
  BY <1>1, <1>2, DeadJumpTable
<1> DEFINE Shape(a) == a = [code |-> a.code, changed |-> a.changed, prev |-> a.prev]
           Kept(d) == Balanced(d, T) /\ Len(d) = N /\ Outcome(d) = Outcome(c)
           Clear(d) == \A p, prev \in 1 .. N : TestsFalse(d, p, prev) => ~hasTargetInRange(T, prev + 1, p)
           Padded(d, prev, n) == prev \in 0 .. n /\ \A q \in prev + 1 .. n : q \in 1 .. N => d[q].op = "Nop"
           Good(a, n) == Shape(a) /\ Kept(a.code) /\ Clear(a.code) /\ Padded(a.code, a.prev, n)
           A == {n \in Nat : n <= N => Good(g[n], n)}
<1>4. 0 \in A
  <2>1. PICK a : a = g[0] OBVIOUS
  <2>2. a = [code |-> c, changed |-> FALSE, prev |-> 0] BY <1>3, <2>1
  <2>3. a.code = c /\ a.changed = FALSE /\ a.prev = 0 BY <2>2
  <2>4. Kept(c) BY <1>1, <1>2 DEF Balanced
  <2>5. Clear(c)
    <3>1. DOMAIN c = 1 .. N BY <1>2, LevelLen
    <3> QED BY <1>1, <3>1 DEF TestIsShared
  <2>6. Padded(c, 0, 0) OBVIOUS
  <2>7. Shape(a) BY <2>2, <2>3
  <2> HIDE DEF Shape, Kept, Clear, Padded
  <2>8. Good(a, 0) BY <2>3, <2>4, <2>5, <2>6, <2>7
  <2> QED BY <2>1, <2>8
<1>5. ASSUME NEW n \in A PROVE n + 1 \in A
  <2> SUFFICES ASSUME n + 1 <= N PROVE Good(g[n + 1], n + 1) OBVIOUS
  <2>1. PICK a : a = g[n] /\ Good(a, n) BY <1>2
  <2>2. PICK i \in 1 .. N : i = n + 1 /\ i - 1 = n BY <1>2
  <2>3. g[i] = DeadStep(a, i, T) BY <1>3, <2>1, <2>2
  <2>4. n \in Nat OBVIOUS
  <2> HIDE DEF A
  <2>5. PICK d, prev : d = a.code /\ prev = a.prev OBVIOUS
  <2>6. Shape(a) /\ Kept(d) /\ Clear(d) /\ Padded(d, prev, n) BY <2>1, <2>5
  <2>7. CASE d[i].op = "Nop"
    <3>1. DeadStep(a, i, T) = a BY <2>5, <2>7 DEF DeadStep
    <3>2. Padded(d, prev, i)
      <4>1. prev \in 0 .. i BY <2>2, <2>4, <2>6
      <4>2. ASSUME NEW q \in prev + 1 .. i, q \in 1 .. N PROVE d[q].op = "Nop"
        <5>1. q = i \/ q \in prev + 1 .. n BY <2>2, <2>4, <2>6
        <5> QED BY <2>6, <2>7, <4>2, <5>1
      <4> QED BY <4>1, <4>2
    <3> HIDE DEF Shape, Kept, Clear, Padded
    <3>3. Good(a, i) BY <2>5, <2>6, <3>2
    <3> QED BY <2>2, <2>3, <3>1, <3>3
  <2>8. CASE d[i].op = "JumpIfFalse" /\ IsDeadJump(d, i, prev, T)
    <3>1. PICK b : b = BranchRemoved(d, i) OBVIOUS
    <3>2. Balanced(d, T) /\ Len(d) = N BY <2>6
    <3>3. Balanced(b, T) /\ Len(b) = N BY <2>8, <3>1, <3>2, BranchRemovedBalanced
    <3>4. prev \in Nat /\ prev < i /\ \A q \in prev + 1 .. i - 1 : d[q].op = "Nop"
      <4>1. prev \in 0 .. n /\ i \in 1 .. N /\ N \in Nat BY <2>6
      <4>2. ASSUME NEW q \in prev + 1 .. i - 1 PROVE d[q].op = "Nop"
        <5>1. q \in prev + 1 .. n /\ q \in 1 .. N BY <1>2, <2>2, <2>4, <4>1
        <5> QED BY <2>6, <5>1
      <4> QED BY <2>2, <2>4, <4>1, <4>2
    <3>5. ~hasTargetInRange(T, prev + 1, i)
      <4>1. TestsFalse(d, i, prev) BY <2>8, <3>4 DEF TestsFalse, IsDeadJump
      <4>2. DOMAIN d = 1 .. N BY <3>2, LevelLen DEF Balanced
      <4>3. prev \in 1 .. N BY <4>1, <4>2 DEF TestsFalse, IsConstant
      <4> QED BY <2>6, <4>1, <4>3
    <3>6. Outcome(b) = Outcome(d)
      <4>1. i \in 1 .. Len(d) BY <3>2
      <4> QED BY ONLY <2>8, <3>1, <3>2, <3>4, <3>5, <4>1, BranchRemovedOutcome
    <3>7. Kept(b) BY <2>6, <3>3, <3>6
    <3>8. Clear(b)
      <4>1. PICK to : to = d[i].to OBVIOUS
      <4>2. DOMAIN d = 1 .. N /\ DOMAIN b = 1 .. N BY <3>2, <3>3, LevelLen DEF Balanced
      <4>3. \A q \in 1 .. N : b[q] = IF q \in i + 1 .. to - 1 THEN Nop ELSE d[q] BY <3>1, <4>1, <4>2 DEF BranchRemoved, Blank
      <4> SUFFICES ASSUME NEW p \in 1 .. N, NEW m \in 1 .. N, TestsFalse(b, p, m) PROVE ~hasTargetInRange(T, m + 1, p) OBVIOUS
      <4>4. m < p /\ b[p].op = "JumpIfFalse" /\ b[m].op = "Constant" /\ isCompileTimeFalseValue(b[m].v)
            /\ \A q \in m + 1 .. p - 1 : b[q].op = "Nop"
        BY DEF TestsFalse, IsConstant
      <4>5. p \notin i + 1 .. to - 1 /\ m \notin i + 1 .. to - 1 BY <4>3, <4>4, NopFacts
      <4>6. b[p] = d[p] /\ b[m] = d[m] BY <4>3, <4>5
      <4>7. i \notin m .. p - 1
        <5>1. i \in 1 .. N /\ i \notin i + 1 .. to - 1 OBVIOUS
        <5>2. b[i].op = "JumpIfFalse" BY <2>8, <4>3, <5>1
        <5>3. i # m BY <4>4, <5>2
        <5>4. i \notin m + 1 .. p - 1 BY <4>4, <5>2
        <5> QED BY <5>3, <5>4
      <4>8. ASSUME NEW q \in m + 1 .. p - 1 PROVE d[q].op = "Nop"
        <5>1. q \in 1 .. N BY <1>2
        <5>2. q \notin i + 1 .. to - 1
          <6>1. SUFFICES ASSUME q \in i + 1 .. to - 1 PROVE FALSE OBVIOUS
          <6>2. to \in Int
            <7>1. PICK h : IsHeight(d, h) BY <3>2 DEF Balanced, Level
            <7>2. to \in 1 .. Len(d) BY <2>8, <3>2, <4>1, <7>1, HeightAt DEF TargetOps
            <7> QED BY <3>2, <7>2
          <6>3. i < m BY <4>7, <6>1
          <6>4. m \in i + 1 .. to - 1 BY <6>1, <6>2, <6>3
          <6> QED BY <4>5, <6>4
        <5> QED BY <4>3, <4>4, <5>1, <5>2
      <4>9. TestsFalse(d, p, m) BY <4>2, <4>4, <4>6, <4>8 DEF TestsFalse, IsConstant
      <4> QED BY <2>6, <4>9
    <3>9. Padded(b, i, i) BY <2>2
    <3>10. PICK x : x = DeadStep(a, i, T) OBVIOUS
    <3>11. x = [code |-> b, changed |-> x.changed, prev |-> i] /\ x.code = b /\ x.prev = i
      <4>1. PICK ch : ch = (a.changed \/ ~BranchIsBlank(d, i)) OBVIOUS
      <4>2. x = [code |-> b, changed |-> ch, prev |-> i] BY <2>5, <2>8, <3>1, <3>10, <4>1 DEF DeadStep
      <4> QED BY <4>2
    <3>12. Shape(x) BY <3>11
    <3> HIDE DEF Shape, Kept, Clear, Padded
    <3>13. Good(x, i) BY <3>7, <3>8, <3>9, <3>11, <3>12
    <3> QED BY <2>2, <2>3, <3>10, <3>13
  <2>9. CASE d[i].op # "Nop" /\ ~(d[i].op = "JumpIfFalse" /\ IsDeadJump(d, i, prev, T))
    <3>1. PICK x : x = [a EXCEPT !.prev = i] OBVIOUS
    <3>2. DeadStep(a, i, T) = x BY <2>5, <2>9, <3>1 DEF DeadStep
    <3>3. x.code = d /\ x.prev = i /\ Shape(x) BY <2>5, <2>6, <3>1
    <3>4. Padded(d, i, i) BY <2>2
    <3> HIDE DEF Shape, Kept, Clear, Padded
    <3>5. Good(x, i) BY <2>6, <3>3, <3>4
    <3> QED BY <2>2, <2>3, <3>2, <3>5
  <2> QED BY <2>7, <2>8, <2>9
<1>6. A = Nat
  <2> HIDE DEF A
  <2>1. A \in SUBSET Nat BY DEF A
  <2> QED BY <1>4, <1>5, <2>1, SetInduction
<1>7. Good(g[N], N)
  <2> HIDE DEF Good
  <2>1. N \in A BY <1>6
  <2> QED BY <1>2, <2>1
<1> QED BY <1>3, <1>7

\* The states of the walk of the fused branch pass.
LEMMA FusedBranchTable ==
    ASSUME NEW c, Len(c) \in Nat
    PROVE  \E g : /\ g[0] = c /\ optimizeFusedBranchPass(c) = g[Len(c)]
                  /\ \A i \in 1 .. Len(c) : g[i] = FuseAt(g[i - 1], i, collectJumpTargets(c))
<1> DEFINE Table(g, n) == g = [i \in 0 .. n |-> IF i = 0 THEN c ELSE FuseAt(g[i - 1], i, collectJumpTargets(c))]
           T == {n \in Nat : \E g : Table(g, n)}
           g0 == CHOOSE g : Table(g, Len(c))
<1>1. Len(c) \in Nat OBVIOUS
<1>2. 0 \in T
  <2>1. Table([i \in 0 .. 0 |-> c], 0) OBVIOUS
  <2> QED BY <2>1
<1>3. ASSUME NEW n \in T PROVE n + 1 \in T
  <2>1. PICK g : Table(g, n) OBVIOUS
  <2> DEFINE k == [i \in 0 .. n + 1 |-> IF i = n + 1 THEN FuseAt(g[n], i, collectJumpTargets(c)) ELSE g[i]]
  <2>2. ASSUME NEW i \in 0 .. n + 1 PROVE k[i] = IF i = 0 THEN c ELSE FuseAt(k[i - 1], i, collectJumpTargets(c))
    <3>1. CASE i = n + 1
      <4>1. i # 0 /\ i - 1 = n /\ i - 1 # n + 1 /\ i - 1 \in 0 .. n + 1 BY <3>1
      <4>2. k[i - 1] = g[n] BY <4>1
      <4> QED BY <3>1, <4>1, <4>2
    <3>2. CASE i = 0 BY <2>1, <3>2
    <3>3. CASE i \in 1 .. n
      <4>1. i \in 0 .. n /\ i # 0 /\ i # n + 1 /\ i - 1 # n + 1 /\ i - 1 \in 0 .. n + 1 BY <3>3
      <4>2. k[i - 1] = g[i - 1] /\ k[i] = g[i] BY <4>1
      <4>3. g[i] = FuseAt(g[i - 1], i, collectJumpTargets(c)) BY <2>1, <4>1
      <4> QED BY <4>1, <4>2, <4>3
    <3> QED BY <3>1, <3>2, <3>3
  <2>3. Table(k, n + 1)
    <3> HIDE DEF k
    <3>1. k = [i \in 0 .. n + 1 |-> k[i]] BY DEF k
    <3> QED BY <2>2, <3>1
  <2>4. n + 1 \in Nat OBVIOUS
  <2> HIDE DEF Table, k
  <2> QED BY <2>3, <2>4
<1>4. T = Nat
  <2> HIDE DEF T
  <2>1. T \in SUBSET Nat BY DEF T
  <2> QED BY <1>2, <1>3, <2>1, SetInduction
<1>5. Table(g0, Len(c)) BY <1>1, <1>4
<1>6. optimizeFusedBranchPass(c) = g0[Len(c)] BY DEF optimizeFusedBranchPass, Repeat
<1> HIDE DEF g0
<1>7. g0[0] = c BY <1>1, <1>5
<1>8. ASSUME NEW i \in 1 .. Len(c) PROVE g0[i] = FuseAt(g0[i - 1], i, collectJumpTargets(c))
  <2>1. i \in 0 .. Len(c) /\ i # 0 BY <1>1
  <2> QED BY <1>5, <2>1
<1> QED BY <1>6, <1>7, <1>8

\* The walk of the fused branch pass keeps the heights.
LEMMA FusedBranchLevel ==
    ASSUME NEW c, Level(c)
    PROVE  Level(optimizeFusedBranchPass(c))
<1>1. PICK T : T = collectJumpTargets(c) OBVIOUS
<1>2. PICK N \in Nat : N = Len(c) BY LevelLen
<1>3. PICK g : /\ g[0] = c /\ optimizeFusedBranchPass(c) = g[N]
               /\ \A i \in 1 .. N : g[i] = FuseAt(g[i - 1], i, T)
  BY <1>1, <1>2, FusedBranchTable
<1> DEFINE Good(a) == Balanced(a, T) /\ Len(a) = N
           A == {n \in Nat : n <= N => Good(g[n])}
<1>4. 0 \in A BY <1>1, <1>2, <1>3 DEF Balanced
<1>5. ASSUME NEW n \in A PROVE n + 1 \in A
  <2> SUFFICES ASSUME n + 1 <= N PROVE Good(g[n + 1]) OBVIOUS
  <2>1. PICK a : a = g[n] /\ Good(a) BY <1>2
  <2>2. PICK i \in 1 .. N : i = n + 1 /\ i - 1 = n BY <1>2
  <2>3. g[n + 1] = FuseAt(a, i, T) BY <1>3, <2>1, <2>2
  <2> HIDE DEF A
  <2> QED BY <2>1, <2>3, FuseAtBalanced
<1>6. A = Nat
  <2> HIDE DEF A
  <2>1. A \in SUBSET Nat BY DEF A
  <2> QED BY <1>4, <1>5, <2>1, SetInduction
<1>7. Good(g[N]) BY <1>6
<1> QED BY <1>3, <1>7 DEF Balanced

\* The turn of the pooling pass keeps heights and outcome, pooled or not.
LEMMA PoolAtBalanced ==
    ASSUME NEW c, NEW T, Balanced(c, T), NEW p \in 1 .. Len(c)
    PROVE  Balanced(PoolAt(c, p, T), T) /\ Len(PoolAt(c, p, T)) = Len(c) /\ Outcome(PoolAt(c, p, T)) = Outcome(c)
<1>1. PICK ps : ps = Gathered(c, p, T) OBVIOUS
<1>2. CASE IsConstant(c, p) /\ Len(ps) >= 2
  <2>1. Len(c) \in Nat /\ DOMAIN c = 1 .. Len(c) BY DEF Balanced, Level, IsHeight
  <2>2. IsPool(c, T, p, ps) BY <1>1, <1>2, <2>1, GatheredPool
  <2>3. PoolAt(c, p, T) = Pooled(c, ps) BY <1>1, <1>2 DEF PoolAt
  <2> QED BY <2>2, <2>3, PooledBalanced, PooledOutcome
<1>3. CASE ~(IsConstant(c, p) /\ Len(ps) >= 2)
  <2>1. PoolAt(c, p, T) = c BY <1>1, <1>3 DEF PoolAt
  <2> QED BY <2>1
<1> QED BY <1>2, <1>3

\* The states of the walk of the constant pooling pass.
LEMMA ConstantPoolingTable ==
    ASSUME NEW c, Len(c) \in Nat
    PROVE  \E g : /\ g[0] = c /\ optimizeConstantPoolingPass(c) = g[Len(c)]
                  /\ \A i \in 1 .. Len(c) : g[i] = PoolAt(g[i - 1], i, collectJumpTargets(c))
<1> DEFINE Table(g, n) == g = [i \in 0 .. n |-> IF i = 0 THEN c ELSE PoolAt(g[i - 1], i, collectJumpTargets(c))]
           T == {n \in Nat : \E g : Table(g, n)}
           g0 == CHOOSE g : Table(g, Len(c))
<1>1. Len(c) \in Nat OBVIOUS
<1>2. 0 \in T
  <2>1. Table([i \in 0 .. 0 |-> c], 0) OBVIOUS
  <2> QED BY <2>1
<1>3. ASSUME NEW n \in T PROVE n + 1 \in T
  <2>1. PICK g : Table(g, n) OBVIOUS
  <2> DEFINE k == [i \in 0 .. n + 1 |-> IF i = n + 1 THEN PoolAt(g[n], i, collectJumpTargets(c)) ELSE g[i]]
  <2>2. ASSUME NEW i \in 0 .. n + 1 PROVE k[i] = IF i = 0 THEN c ELSE PoolAt(k[i - 1], i, collectJumpTargets(c))
    <3>1. CASE i = n + 1
      <4>1. i # 0 /\ i - 1 = n /\ i - 1 # n + 1 /\ i - 1 \in 0 .. n + 1 BY <3>1
      <4>2. k[i - 1] = g[n] BY <4>1
      <4> QED BY <3>1, <4>1, <4>2
    <3>2. CASE i = 0 BY <2>1, <3>2
    <3>3. CASE i \in 1 .. n
      <4>1. i \in 0 .. n /\ i # 0 /\ i # n + 1 /\ i - 1 # n + 1 /\ i - 1 \in 0 .. n + 1 BY <3>3
      <4>2. k[i - 1] = g[i - 1] /\ k[i] = g[i] BY <4>1
      <4>3. g[i] = PoolAt(g[i - 1], i, collectJumpTargets(c)) BY <2>1, <4>1
      <4> QED BY <4>1, <4>2, <4>3
    <3> QED BY <3>1, <3>2, <3>3
  <2>3. Table(k, n + 1)
    <3> HIDE DEF k
    <3>1. k = [i \in 0 .. n + 1 |-> k[i]] BY DEF k
    <3> QED BY <2>2, <3>1
  <2>4. n + 1 \in Nat OBVIOUS
  <2> HIDE DEF Table, k
  <2> QED BY <2>3, <2>4
<1>4. T = Nat
  <2> HIDE DEF T
  <2>1. T \in SUBSET Nat BY DEF T
  <2> QED BY <1>2, <1>3, <2>1, SetInduction
<1>5. Table(g0, Len(c)) BY <1>1, <1>4
<1>6. optimizeConstantPoolingPass(c) = g0[Len(c)] BY DEF optimizeConstantPoolingPass, Repeat
<1> HIDE DEF g0
<1>7. g0[0] = c BY <1>1, <1>5
<1>8. ASSUME NEW i \in 1 .. Len(c) PROVE g0[i] = PoolAt(g0[i - 1], i, collectJumpTargets(c))
  <2>1. i \in 0 .. Len(c) /\ i # 0 BY <1>1
  <2> QED BY <1>5, <2>1
<1> QED BY <1>6, <1>7, <1>8

\* The walk of the constant pooling pass keeps the heights and the outcome.
LEMMA ConstantPoolingLevel ==
    ASSUME NEW c, Level(c)
    PROVE  LET d == optimizeConstantPoolingPass(c) IN Level(d) /\ Outcome(d) = Outcome(c)
<1>1. PICK T : T = collectJumpTargets(c) OBVIOUS
<1>2. PICK N \in Nat : N = Len(c) BY LevelLen
<1>3. PICK g : /\ g[0] = c /\ optimizeConstantPoolingPass(c) = g[N]
               /\ \A i \in 1 .. N : g[i] = PoolAt(g[i - 1], i, T)
  BY <1>1, <1>2, ConstantPoolingTable
<1> DEFINE Good(a) == Balanced(a, T) /\ Len(a) = N /\ Outcome(a) = Outcome(c)
           A == {n \in Nat : n <= N => Good(g[n])}
<1>4. 0 \in A BY <1>1, <1>2, <1>3 DEF Balanced
<1>5. ASSUME NEW n \in A PROVE n + 1 \in A
  <2> SUFFICES ASSUME n + 1 <= N PROVE Good(g[n + 1]) OBVIOUS
  <2>1. PICK a : a = g[n] /\ Good(a) BY <1>2
  <2>2. PICK i \in 1 .. N : i = n + 1 /\ i - 1 = n BY <1>2
  <2>3. g[n + 1] = PoolAt(a, i, T) BY <1>3, <2>1, <2>2
  <2> HIDE DEF A
  <2> QED BY <2>1, <2>3, PoolAtBalanced
<1>6. A = Nat
  <2> HIDE DEF A
  <2>1. A \in SUBSET Nat BY DEF A
  <2> QED BY <1>4, <1>5, <2>1, SetInduction
<1>7. Good(g[N]) BY <1>6
<1> QED BY <1>3, <1>7 DEF Balanced

(***************************************************************************)
(* The integer pass.                                                       *)
(***************************************************************************)
Replaced(c, p, x) == [c EXCEPT ![p] = x]

\* One instruction is replaced by one that takes and leaves as many values.
LEMMA ReplaceBalanced ==
    ASSUME NEW c, NEW T, Balanced(c, T), NEW p \in 1 .. Len(c), NEW x, IsInstruction(x),
           c[p].op \notin {"Jump", "Halt"}, x.op \notin {"Jump", "Halt"} \cup TargetOps,
           Operands(x) = Operands(c[p]), Results(x) = Results(c[p]), NEW d, d = Replaced(c, p, x)
    PROVE  Balanced(d, T) /\ Len(d) = Len(c) /\ d[p] = x /\ \A q \in 1 .. Len(c) : q # p => d[q] = c[q]
<1>1. PICK h : IsHeight(c, h) BY DEF Balanced, Level
<1>2. Len(c) \in Nat /\ DOMAIN c = 1 .. Len(c) BY <1>1 DEF IsHeight
<1>3. d = [q \in 1 .. Len(c) |-> IF q = p THEN x ELSE c[q]] BY <1>2 DEF Replaced
<1>4. Len(d) = Len(c)
  <2>1. d = [q \in 1 .. Len(c) |-> d[q]] BY <1>3
  <2>2. StackOf(d, Len(c)) BY <1>2, <2>1 DEF StackOf
  <2> QED BY <2>2, StackLen
<1>5. DOMAIN d = 1 .. Len(c) /\ d[p] = x /\ \A q \in 1 .. Len(c) : q # p => d[q] = c[q] BY <1>3
<1>6. IsRewrite(c, p, p, x, d) BY <1>4, <1>5 DEF IsRewrite
<1>7. /\ h[p] \in Nat /\ h[p] >= Operands(x) /\ Operands(x) \in Nat
      /\ p + 1 \in 1 .. Len(c) /\ h[p + 1] = h[p] - Operands(x) + Results(x)
  BY <1>1, HeightAt
<1>8. h[p + 1] \in Nat BY <1>1, <1>7, HeightAt
<1>9. PICK v \in Nat : v = h[p] - Operands(x) + Results(x) /\ h[p + 1] = v BY <1>7, <1>8
<1>10. p <= p /\ p + 1 <= Len(c) /\ ~hasTargetInRange(T, p + 1, p) BY <1>2, <1>7 DEF hasTargetInRange
<1>11. collectJumpTargets(c) \subseteq T /\ x.op \notin {"Jump", "Halt"} /\ x.op \notin TargetOps BY DEF Balanced
<1>12. (\E g : IsHeight(d, g)) /\ collectJumpTargets(d) \subseteq T
  BY <1>1, <1>6, <1>7, <1>9, <1>10, <1>11, RewriteHeight
<1> QED BY <1>4, <1>5, <1>12 DEF Balanced, Level

\* The pass's stack: what it takes for a constant is one.
Tracks(st, c) == StackOf(st, Len(st)) /\ \A k \in 1 .. Len(st) : st[k].const => IsConstant(c, st[k].at)

\* An empty stack takes nothing for a constant.
LEMMA NoTracks == ASSUME NEW c PROVE Tracks(<<>>, c)
BY EmptyStack DEF Tracks

\* A pop leaves a stack that tells constants.
LEMMA PopTracks ==
    ASSUME NEW st, NEW c, Tracks(st, c), NEW n \in Nat
    PROVE  Tracks(popIntStack(st, n), c)
<1>1. PICK S : st \in Seq(S) BY StackIsSeq DEF Tracks
<1>2. CASE Len(st) > n
  <2>1. PICK t : t = SubSeq(st, 1, Len(st) - n) OBVIOUS
  <2>2. popIntStack(st, n) = t BY <1>2, <2>1 DEF popIntStack
  <2>3. t \in Seq(S) /\ Len(t) = Len(st) - n /\ \A k \in 1 .. Len(t) : t[k] = st[k] BY <1>1, <1>2, <2>1
  <2>4. \A k \in 1 .. Len(t) : k \in 1 .. Len(st) BY <1>1, <1>2, <2>3
  <2> QED BY <2>2, <2>3, <2>4, SeqIsStack DEF Tracks
<1>3. CASE ~(Len(st) > n)
  <2>1. popIntStack(st, n) = <<>> BY <1>3 DEF popIntStack
  <2> QED BY <2>1, NoTracks
<1> QED BY <1>2, <1>3

\* A push of an entry that tells a constant leaves a stack that does.
LEMMA PushTracks ==
    ASSUME NEW st, NEW c, Tracks(st, c), NEW e, e.const => IsConstant(c, e.at)
    PROVE  Tracks(Append(st, e), c)
<1>1. PICK S : st \in Seq(S) /\ e \in S BY StackIsSeq DEF Tracks
<1>2. PICK t : t = Append(st, e) OBVIOUS
<1>3. t \in Seq(S) /\ Len(t) = Len(st) + 1 /\ t[Len(st) + 1] = e /\ \A k \in 1 .. Len(st) : t[k] = st[k] BY <1>1, <1>2
<1>4. ASSUME NEW k \in 1 .. Len(t), t[k].const PROVE IsConstant(c, t[k].at)
  <2>1. CASE k = Len(st) + 1 BY <1>3, <1>4, <2>1
  <2>2. CASE k \in 1 .. Len(st)
    <3>1. t[k] = st[k] BY <1>3, <2>2
    <3> QED BY <1>4, <2>2, <3>1 DEF Tracks
  <2>3. Len(st) \in Nat BY <1>1
  <2> QED BY <1>3, <2>1, <2>2, <2>3
<1>5. StackOf(t, Len(t)) BY <1>3, SeqIsStack
<1> QED BY <1>2, <1>4, <1>5 DEF Tracks

\* An entry that says it is a constant is one.
LEMMA PeekTracks ==
    ASSUME NEW st, NEW c, Tracks(st, c), Peek(st, 1).const
    PROVE  IsConstant(c, Peek(st, 1).at)
<1>1. Len(st) \in Nat BY StackLen DEF Tracks
<1>2. CASE Len(st) >= 1
  <2>1. PICK k \in 1 .. Len(st) : k = Len(st) - 1 + 1 BY <1>1, <1>2
  <2>2. Peek(st, 1) = st[k] BY <1>2, <2>1 DEF Peek
  <2> QED BY <2>2 DEF Tracks
<1>3. CASE ~(Len(st) >= 1)
  <2>1. Peek(st, 1) = Unknown BY <1>3 DEF Peek
  <2> QED BY <2>1 DEF Unknown, Entry
<1> QED BY <1>2, <1>3

\* What holds of what the pass has inferred.
IsInference(a, T, N) ==
    /\ a = [code |-> a.code, changed |-> a.changed, known |-> a.known, stack |-> a.stack]
    /\ a.changed \in BOOLEAN
    /\ Balanced(a.code, T) /\ Len(a.code) = N
    /\ Tracks(a.stack, a.code)

\* An inference with another stack that tells constants is one.
LEMMA InferStack ==
    ASSUME NEW a, NEW T, NEW N, IsInference(a, T, N), NEW st, Tracks(st, a.code), NEW b, b = WithStack(a, st)
    PROVE  IsInference(b, T, N) /\ b.code = a.code /\ b.changed = a.changed /\ b.stack = st /\ b.known = a.known
<1>1. a = [code |-> a.code, changed |-> a.changed, known |-> a.known, stack |-> a.stack] BY DEF IsInference
<1>2. b = [code |-> a.code, changed |-> a.changed, known |-> a.known, stack |-> st] BY <1>1 DEF WithStack
<1>3. b.code = a.code /\ b.changed = a.changed /\ b.known = a.known /\ b.stack = st BY <1>2
<1> QED BY <1>2, <1>3 DEF IsInference

\* An inference that knows other variables is one.
LEMMA InferKnown ==
    ASSUME NEW a, NEW T, NEW N, IsInference(a, T, N), NEW k, NEW b, b = [a EXCEPT !.known = k]
    PROVE  IsInference(b, T, N) /\ b.code = a.code /\ b.changed = a.changed /\ b.stack = a.stack /\ b.known = k
<1>1. a = [code |-> a.code, changed |-> a.changed, known |-> a.known, stack |-> a.stack] BY DEF IsInference
<1>2. b = [code |-> a.code, changed |-> a.changed, known |-> k, stack |-> a.stack] BY <1>1
<1>3. b.code = a.code /\ b.changed = a.changed /\ b.known = k /\ b.stack = a.stack BY <1>2
<1> QED BY <1>2, <1>3 DEF IsInference

\* An inference with other code is one, if the code has heights and the stack is about it.
LEMMA InferCode ==
    ASSUME NEW a, NEW T, NEW N, IsInference(a, T, N), NEW d, Balanced(d, T), Len(d) = N, Tracks(a.stack, d),
           NEW ch \in BOOLEAN, NEW b, b = [a EXCEPT !.code = d, !.changed = ch]
    PROVE  IsInference(b, T, N)
<1>1. a = [code |-> a.code, changed |-> a.changed, known |-> a.known, stack |-> a.stack] BY DEF IsInference
<1>2. b = [code |-> d, changed |-> ch, known |-> a.known, stack |-> a.stack] BY <1>1
<1>3. b.code = d /\ b.changed = ch /\ b.known = a.known /\ b.stack = a.stack BY <1>2
<1> QED BY <1>2, <1>3 DEF IsInference

\* A step that takes n entries and leaves e.
LEMMA InferPush ==
    ASSUME NEW a, NEW T, NEW N, IsInference(a, T, N), NEW n \in Nat, NEW e, e.const => IsConstant(a.code, e.at),
           NEW b, b = WithStack(a, Append(popIntStack(a.stack, n), e))
    PROVE  IsInference(b, T, N) /\ b.code = a.code /\ b.changed = a.changed
<1>1. PICK t : t = popIntStack(a.stack, n) OBVIOUS
<1>2. Tracks(t, a.code) BY <1>1, PopTracks DEF IsInference
<1>3. PICK st : st = Append(t, e) OBVIOUS
<1>4. Tracks(st, a.code) BY <1>2, <1>3, PushTracks
<1>5. b = WithStack(a, st) BY <1>1, <1>3 DEF WithStack
<1> QED BY <1>4, <1>5, InferStack

\* A step that takes n entries.
LEMMA InferPop ==
    ASSUME NEW a, NEW T, NEW N, IsInference(a, T, N), NEW n \in Nat,
           NEW b, b = WithStack(a, popIntStack(a.stack, n))
    PROVE  IsInference(b, T, N)
<1>1. PICK t : t = popIntStack(a.stack, n) OBVIOUS
<1>2. Tracks(t, a.code) BY <1>1, PopTracks DEF IsInference
<1> QED BY <1>1, <1>2, InferStack

\* An inference that has forgotten what it knew is one.
LEMMA ClearInference ==
    ASSUME NEW a, NEW T, NEW N, IsInference(a, T, N)
    PROVE  IsInference(clearIntInference(a), T, N)
<1>1. PICK b : b = [a EXCEPT !.known = {}] OBVIOUS
<1>2. IsInference(b, T, N) BY <1>1, InferKnown
<1>3. PICK d : d = WithStack(b, <<>>) OBVIOUS
<1>4. IsInference(d, T, N) BY <1>2, <1>3, NoTracks, InferStack
<1>5. clearIntInference(a) = d BY <1>1, <1>3 DEF clearIntInference, WithStack
<1> QED BY <1>4, <1>5

\* The stack of the pass is about the new code too, when the replaced
\* instruction is no constant, or is one still.
LEMMA TracksReplaced ==
    ASSUME NEW st, NEW c, NEW d, Tracks(st, c), DOMAIN d = DOMAIN c, NEW p, c[p].op = "Constant" => d[p].op = "Constant",
           \A q \in DOMAIN c : q # p => d[q] = c[q]
    PROVE  Tracks(st, d)
<1>1. ASSUME NEW q, IsConstant(c, q) PROVE IsConstant(d, q) BY <1>1 DEF IsConstant
<1> QED BY <1>1 DEF Tracks

\* An integer operator.
LEMMA IntegerFacts ==
    ASSUME NEW o \in IntegerOps
    PROVE  /\ IsInstruction(Op(o)) /\ Operands(Op(o)) = 2 /\ Results(Op(o)) = 1
           /\ Op(o).op \notin {"Jump", "Halt"} \cup TargetOps
<1>1. PICK i : i = Op(o) OBVIOUS
<1>2. i.op \in IntegerOps BY <1>1 DEF Op
<1>3. IsInstruction(i) /\ Operands(i) = 2 /\ Results(i) = 1 /\ i.op \notin {"Jump", "Halt"} \cup TargetOps
  BY <1>2 DEF IsInstruction, Opcodes, Operands, Results, IntegerOps, TargetOps, CompareJumps
<1> QED BY <1>1, <1>3

\* A shift for a division: the divisor is a constant still.
LEMMA DivisorBalanced ==
    ASSUME NEW c, NEW T, Balanced(c, T), NEW p \in 1 .. Len(c), c[p].op = "IDiv", NEW at, IsConstant(c, at),
           NEW st, Tracks(st, c)
    PROVE  LET d == rewriteDivisorConstantToShift(c, at, p)
           IN  Balanced(d, T) /\ Len(d) = Len(c) /\ Tracks(st, d)
<1>1. PICK h : IsHeight(c, h) BY DEF Balanced, Level
<1>2. /\ at \in 1 .. Len(c) /\ c[at].op = "Constant" /\ Operands(c[at]) = 0 /\ Results(c[at]) = 1
      /\ c[at].op \notin {"Jump", "Halt"}
  BY <1>1, ConstantHeight
<1>3. PICK x : x = Constant(Integer(Log2[c[at].v.Num])) OBVIOUS
<1>4. IsInstruction(x) /\ Operands(x) = 0 /\ Results(x) = 1 /\ x.op \notin {"Jump", "Halt"} \cup TargetOps /\ x.op = "Constant"
  <2>1. \A n : Integer(n) # Raise BY DEF Integer, Raise, Value
  <2>2. PICK n : n = Integer(Log2[c[at].v.Num]) OBVIOUS
  <2>3. n # Raise BY <2>1, <2>2
  <2>4. x.op = "Constant" BY <1>3 DEF Constant
  <2> QED BY <1>3, <2>2, <2>3, <2>4, ConstantFacts
<1>5. PICK d : d = Replaced(c, at, x) OBVIOUS
<1>6. Balanced(d, T) /\ Len(d) = Len(c) /\ d[at] = x /\ \A q \in 1 .. Len(c) : q # at => d[q] = c[q]
  <2>1. Operands(x) = Operands(c[at]) /\ Results(x) = Results(c[at]) BY <1>2, <1>4
  <2> QED BY <1>2, <1>4, <1>5, <2>1, ReplaceBalanced
<1>7. DOMAIN c = 1 .. Len(c) /\ DOMAIN d = 1 .. Len(c) BY <1>6, LevelLen DEF Balanced
<1>8. Tracks(st, d) BY <1>4, <1>6, <1>7, TracksReplaced
<1>9. at # p /\ d[p] = c[p] BY <1>2, <1>6
<1>10. Operands(d[p]) = 2 /\ Results(d[p]) = 1 /\ d[p].op \notin {"Jump", "Halt"} /\ d[p].op # "Constant"
  BY <1>9 DEF Operands, Results, BinaryOps
<1>11. PICK y : y = Op("IRightShift") OBVIOUS
<1>12. IsInstruction(y) /\ Operands(y) = 2 /\ Results(y) = 1 /\ y.op \notin {"Jump", "Halt"} \cup TargetOps
  BY <1>11, IntegerFacts DEF IntegerOps
<1>13. PICK e : e = Replaced(d, p, y) OBVIOUS
<1>14. Balanced(e, T) /\ Len(e) = Len(d) /\ \A q \in 1 .. Len(d) : q # p => e[q] = d[q]
  <2>1. Operands(y) = Operands(d[p]) /\ Results(y) = Results(d[p]) BY <1>10, <1>12
  <2>2. p \in 1 .. Len(d) BY <1>6
  <2> QED BY <1>6, <1>10, <1>12, <1>13, <2>1, <2>2, ReplaceBalanced
<1>15. DOMAIN e = 1 .. Len(c) BY <1>6, <1>14, LevelLen DEF Balanced
<1>16. Tracks(st, e) BY <1>6, <1>7, <1>8, <1>10, <1>14, <1>15, TracksReplaced
<1>17. rewriteDivisorConstantToShift(c, at, p) = e
  BY <1>3, <1>5, <1>11, <1>13 DEF rewriteDivisorConstantToShift, Replaced
<1> QED BY <1>6, <1>14, <1>16, <1>17

\* Every step of the integer pass keeps the heights, and its stack tells constants.
LEMMA InferStepKeeps ==
    ASSUME NEW a, NEW T, NEW N, IsInference(a, T, N), NEW p \in 1 .. N
    PROVE  IsInference(InferStep(a, p), T, N)
<1>1. PICK c : c = a.code OBVIOUS
<1>2. Balanced(c, T) /\ Len(c) = N /\ DOMAIN c = 1 .. N /\ Tracks(a.stack, c) BY <1>1, LevelLen DEF IsInference, Balanced
<1>3. PICK i : i = c[p] OBVIOUS
<1>4. IsInstruction(i) BY <1>2, <1>3, HeightAt DEF Balanced, Level
<1>5. PICK rhs : rhs = Peek(a.stack, 1) OBVIOUS
<1>6. PICK lhs : lhs = Peek(a.stack, 2) OBVIOUS
<1>7. PICK r : r = InferStep(a, p) OBVIOUS
<1>8. rhs.const => IsConstant(c, rhs.at) BY <1>2, <1>5, PeekTracks
<1>9. ASSUME NEW n \in Nat, NEW e, e.const = FALSE, NEW b, b = WithStack(a, Append(popIntStack(a.stack, n), e))
      PROVE  IsInference(b, T, N) /\ b.code = a.code /\ b.changed = a.changed
  <2>1. e.const => IsConstant(a.code, e.at) BY <1>9
  <2> QED BY <1>9, <2>1, InferPush
<1>10. CASE i.op = "Constant"
  <2>1. PICK e : e = Entry(i.v.Type = "Integer", p, i.v.Type = "Integer") OBVIOUS
  <2>2. r = WithStack(a, Append(popIntStack(a.stack, 0), e))
    BY <1>7, <1>1, <1>3, <1>10, <2>1 DEF InferStep, WithStack, IntegerOps, NotInferred
  <2>3. e.at = p BY <2>1 DEF Entry
  <2>4. IsConstant(a.code, e.at) BY <1>1, <1>2, <1>3, <1>10, <2>3 DEF IsConstant
  <2>5. e.const => IsConstant(a.code, e.at) BY <2>4
  <2> QED BY <1>7, <2>2, <2>5, InferPush
<1>11. CASE i.op = "GetGlobal"
  <2>1. PICK e : e = Entry(i.x \in a.known, p, FALSE) OBVIOUS
  <2>2. e.const = FALSE BY <2>1 DEF Entry
  <2>3. r = WithStack(a, Append(popIntStack(a.stack, 0), e))
    BY <1>7, <1>1, <1>3, <1>11, <2>1 DEF InferStep, WithStack, IntegerOps, NotInferred
  <2> QED BY <1>7, <1>9, <2>3, <2>2
<1>12. CASE i.op \in {"SetGlobal", "LetGlobal"}
  <2>1. PICK k : k = IF rhs.int THEN a.known \cup {i.x} ELSE a.known \ {i.x} OBVIOUS
  <2>2. PICK b : b = [a EXCEPT !.known = k] OBVIOUS
  <2>3. r = WithStack(b, popIntStack(b.stack, 1))
    BY <1>7, <1>1, <1>3, <1>5, <1>12, <2>1, <2>2 DEF InferStep, WithStack, IntegerOps, NotInferred
  <2>4. IsInference(b, T, N) BY <2>2, InferKnown
  <2> QED BY <1>7, <2>3, <2>4, InferPop
<1>13. CASE i.op \in {"IncGlobalInt", "DecGlobalInt"}
  <2>1. PICK k : k = a.known \cup {i.x} OBVIOUS
  <2>2. r = [a EXCEPT !.known = k] BY <1>7, <1>1, <1>3, <1>13, <2>1 DEF InferStep, WithStack, IntegerOps, NotInferred
  <2> QED BY <1>7, <2>2, InferKnown
<1>14. CASE i.op = "ForNextFastGlobalInt"
  <2>1. PICK k : k = a.known \cup {i.x, i.y} OBVIOUS
  <2>2. PICK b : b = [a EXCEPT !.known = k] OBVIOUS
  <2>3. r = WithStack(b, <<>>) BY <1>7, <1>1, <1>3, <1>14, <2>1, <2>2 DEF InferStep, WithStack, IntegerOps, NotInferred
  <2>4. IsInference(b, T, N) BY <2>2, InferKnown
  <2> QED BY <1>7, <2>3, <2>4, NoTracks, InferStack
<1>15. CASE i.op \in {"Add", "Sub", "Mul"}
  <2>1. PICK e : e = Entry(lhs.int /\ rhs.int, p, FALSE) OBVIOUS
  <2>2. e.const = FALSE BY <2>1 DEF Entry
  <2>3. PICK b : b = WithStack(a, Append(popIntStack(a.stack, 2), e)) OBVIOUS
  <2>4. IsInference(b, T, N) /\ b.code = c /\ b.changed = a.changed BY <1>1, <1>9, <2>3, <2>2
  <2>5. PICK x : x = IF lhs.int /\ rhs.int THEN Op(IntegerForm[i.op]) ELSE i OBVIOUS
  <2>6. PICK d : d = Replaced(c, p, x) OBVIOUS
  <2>7. PICK ch \in BOOLEAN : ch = (a.changed \/ (lhs.int /\ rhs.int)) OBVIOUS
  <2>8. r = [b EXCEPT !.code[p] = IF lhs.int /\ rhs.int THEN Op(IntegerForm[i.op]) ELSE @, !.changed = @ \/ (lhs.int /\ rhs.int)]
    BY <1>7, <1>1, <1>3, <1>5, <1>6, <1>15, <2>3, <2>1 DEF InferStep, WithStack, IntegerOps, NotInferred
  <2>9. r = [b EXCEPT !.code = d, !.changed = ch] BY <1>3, <2>4, <2>5, <2>6, <2>7, <2>8 DEF Replaced
  <2>10. i.op \in BinaryOps /\ Operands(i) = 2 /\ Results(i) = 1 /\ i.op \notin {"Jump", "Halt"} \cup TargetOps /\ i.op # "Constant"
    BY <1>15 DEF Operands, Results, BinaryOps, TargetOps, CompareJumps
  <2>11. IsInstruction(x) /\ Operands(x) = 2 /\ Results(x) = 1 /\ x.op \notin {"Jump", "Halt"} \cup TargetOps
    <3>1. CASE ~(lhs.int /\ rhs.int) BY <1>4, <2>5, <2>10, <3>1
    <3>2. CASE lhs.int /\ rhs.int
      <4>1. IntegerForm[i.op] \in IntegerOps BY <1>15 DEF IntegerForm, IntegerOps
      <4> QED BY <2>5, <3>2, <4>1, IntegerFacts
    <3> QED BY <3>1, <3>2
  <2>12. Balanced(d, T) /\ Len(d) = N /\ \A q \in 1 .. N : q # p => d[q] = c[q]
    <3>1. Operands(x) = Operands(c[p]) /\ Results(x) = Results(c[p]) /\ c[p].op \notin {"Jump", "Halt"} BY <1>3, <2>10, <2>11
    <3>2. p \in 1 .. Len(c) BY <1>2
    <3> QED BY <1>2, <2>6, <2>11, <3>1, <3>2, ReplaceBalanced
  <2>13. DOMAIN d = 1 .. N BY <2>12, LevelLen DEF Balanced
  <2>14. Tracks(b.stack, d) BY <1>2, <1>3, <2>4, <2>10, <2>12, <2>13, TracksReplaced DEF IsInference
  <2> QED BY <1>7, <2>4, <2>9, <2>12, <2>14, InferCode
<1>16. CASE i.op = "IDiv"
  <2>1. PICK e : e = Entry(lhs.int /\ rhs.int, p, FALSE) OBVIOUS
  <2>2. e.const = FALSE BY <2>1 DEF Entry
  <2>3. PICK b : b = WithStack(a, Append(popIntStack(a.stack, 2), e)) OBVIOUS
  <2>4. IsInference(b, T, N) /\ b.code = c /\ b.changed = a.changed BY <1>1, <1>9, <2>3, <2>2
  <2>5. PICK shift \in BOOLEAN : shift = (lhs.int /\ rhs.int /\ rhs.const /\ IsPowerOfTwo(c[rhs.at].v.Num)) OBVIOUS
  <2>6. PICK d : d = IF shift THEN rewriteDivisorConstantToShift(c, rhs.at, p) ELSE c OBVIOUS
  <2>7. PICK ch \in BOOLEAN : ch = (a.changed \/ shift) OBVIOUS
  <2>8. r = [b EXCEPT !.code = IF shift THEN rewriteDivisorConstantToShift(@, rhs.at, p) ELSE @,
                                    !.changed = @ \/ shift]
    BY <1>7, <1>1, <1>3, <1>5, <1>6, <1>16, <2>3, <2>5, <2>1 DEF InferStep, WithStack, IntegerOps, NotInferred
  <2>9. r = [b EXCEPT !.code = d, !.changed = ch] BY <2>4, <2>6, <2>7, <2>8
  <2>10. Tracks(b.stack, c) BY <2>4 DEF IsInference
  <2>11. Balanced(d, T) /\ Len(d) = N /\ Tracks(b.stack, d)
    <3>1. CASE ~shift BY <1>2, <2>6, <2>10, <3>1
    <3>2. CASE shift
      <4>1. IsConstant(c, rhs.at) BY <1>8, <2>5, <3>2
      <4> QED BY <1>2, <1>3, <1>16, <2>6, <2>10, <3>2, <4>1, DivisorBalanced
    <3> QED BY <3>1, <3>2
  <2> QED BY <1>7, <2>4, <2>9, <2>11, InferCode
<1>17. CASE i.op \in IntegerOps
  <2>1. PICK e : e = Entry(TRUE, p, FALSE) OBVIOUS
  <2>2. e.const = FALSE BY <2>1 DEF Entry
  <2>3. r = WithStack(a, Append(popIntStack(a.stack, 2), e))
    BY <1>7, <1>1, <1>3, <1>17, <2>1 DEF InferStep, WithStack, IntegerOps, NotInferred
  <2> QED BY <1>7, <1>9, <2>3, <2>2
<1>18. CASE i.op \in NotInferred
  <2>1. PICK e : e = Entry(FALSE, p, FALSE) OBVIOUS
  <2>2. e.const = FALSE BY <2>1 DEF Entry
  <2>3. r = WithStack(a, Append(popIntStack(a.stack, 2), e))
    BY <1>7, <1>1, <1>3, <1>18, <2>1 DEF InferStep, WithStack, IntegerOps, NotInferred
  <2> QED BY <1>7, <1>9, <2>3, <2>2
<1>19. CASE i.op \in {"Neg", "Not"}
  <2>1. PICK e : e = Entry(rhs.int, p, FALSE) OBVIOUS
  <2>2. e.const = FALSE BY <2>1 DEF Entry
  <2>3. r = WithStack(a, Append(popIntStack(a.stack, 1), e))
    BY <1>7, <1>1, <1>3, <1>5, <1>19, <2>1 DEF InferStep, WithStack, IntegerOps, NotInferred
  <2> QED BY <1>7, <1>9, <2>3, <2>2
<1>20. CASE i.op = "Write"
  <2>1. r = WithStack(a, popIntStack(a.stack, 1))
    BY <1>7, <1>1, <1>3, <1>20 DEF InferStep, WithStack, IntegerOps, NotInferred
  <2> QED BY <1>7, <2>1, InferPop
<1>21. CASE i.op = "WriteN"
  <2>1. r = WithStack(a, popIntStack(a.stack, i.n))
    BY <1>7, <1>1, <1>3, <1>21 DEF InferStep, WithStack, IntegerOps, NotInferred
  <2>2. i.n \in Nat BY <1>4, <1>21 DEF IsInstruction
  <2> QED BY <1>7, <2>1, <2>2, InferPop
<1>22. CASE i.op \in {"Jump", "JumpIfFalse", "JumpIfTrue"}
  <2>1. r = clearIntInference(a) BY <1>7, <1>1, <1>3, <1>22 DEF InferStep, WithStack, IntegerOps, NotInferred
  <2> QED BY <1>7, <2>1, ClearInference
<1>23. CASE i.op \in {"Halt", "Nop", "Line", "ConstantN", "CoerceToValue"} \cup CompareJumps
  <2>1. r = a BY <1>7, <1>1, <1>3, <1>23 DEF InferStep, WithStack, IntegerOps, NotInferred, CompareJumps
  <2> QED BY SMTT(30), <1>7, <2>1
<1> QED BY <1>4, <1>10, <1>11, <1>12, <1>13, <1>14, <1>15, <1>16, <1>17, <1>18, <1>19, <1>20, <1>21, <1>22, <1>23
    DEF IsInstruction, Opcodes, BinaryOps, TargetOps, NotInferred

\* The states of the walk of the integer pass.
LEMMA IntegerTable ==
    ASSUME NEW c, Len(c) \in Nat
    PROVE  \E g : /\ g[0] = [code |-> c, changed |-> FALSE, known |-> {}, stack |-> <<>>] /\ optimizeIntegerArithmeticPass(c) = g[Len(c)]
                  /\ \A i \in 1 .. Len(c) : g[i] = InferStep(IF i \in collectJumpTargets(c) THEN clearIntInference(g[i - 1]) ELSE g[i - 1], i)
<1> DEFINE Table(g, n) == g = [i \in 0 .. n |-> IF i = 0 THEN [code |-> c, changed |-> FALSE, known |-> {}, stack |-> <<>>] ELSE InferStep(IF i \in collectJumpTargets(c) THEN clearIntInference(g[i - 1]) ELSE g[i - 1], i)]
           T == {n \in Nat : \E g : Table(g, n)}
           g0 == CHOOSE g : Table(g, Len(c))
<1>1. Len(c) \in Nat OBVIOUS
<1>2. 0 \in T
  <2>1. Table([i \in 0 .. 0 |-> [code |-> c, changed |-> FALSE, known |-> {}, stack |-> <<>>]], 0) OBVIOUS
  <2> QED BY <2>1
<1>3. ASSUME NEW n \in T PROVE n + 1 \in T
  <2>1. PICK g : Table(g, n) OBVIOUS
  <2> DEFINE k == [i \in 0 .. n + 1 |-> IF i = n + 1 THEN InferStep(IF i \in collectJumpTargets(c) THEN clearIntInference(g[n]) ELSE g[n], i) ELSE g[i]]
  <2>2. ASSUME NEW i \in 0 .. n + 1 PROVE k[i] = IF i = 0 THEN [code |-> c, changed |-> FALSE, known |-> {}, stack |-> <<>>] ELSE InferStep(IF i \in collectJumpTargets(c) THEN clearIntInference(k[i - 1]) ELSE k[i - 1], i)
    <3>1. CASE i = n + 1
      <4>1. i # 0 /\ i - 1 = n /\ i - 1 # n + 1 /\ i - 1 \in 0 .. n + 1 BY <3>1
      <4>2. k[i - 1] = g[n] BY <4>1
      <4> QED BY <3>1, <4>1, <4>2
    <3>2. CASE i = 0 BY <2>1, <3>2
    <3>3. CASE i \in 1 .. n
      <4>1. i \in 0 .. n /\ i # 0 /\ i # n + 1 /\ i - 1 # n + 1 /\ i - 1 \in 0 .. n + 1 BY <3>3
      <4>2. k[i - 1] = g[i - 1] /\ k[i] = g[i] BY <4>1
      <4>3. g[i] = InferStep(IF i \in collectJumpTargets(c) THEN clearIntInference(g[i - 1]) ELSE g[i - 1], i) BY <2>1, <4>1
      <4> QED BY <4>1, <4>2, <4>3
    <3> QED BY <3>1, <3>2, <3>3
  <2>3. Table(k, n + 1)
    <3> HIDE DEF k
    <3>1. k = [i \in 0 .. n + 1 |-> k[i]] BY DEF k
    <3> QED BY <2>2, <3>1
  <2>4. n + 1 \in Nat OBVIOUS
  <2> HIDE DEF Table, k
  <2> QED BY <2>3, <2>4
<1>4. T = Nat
  <2> HIDE DEF T
  <2>1. T \in SUBSET Nat BY DEF T
  <2> QED BY <1>2, <1>3, <2>1, SetInduction
<1>5. Table(g0, Len(c)) BY <1>1, <1>4
<1>6. optimizeIntegerArithmeticPass(c) = g0[Len(c)] BY DEF optimizeIntegerArithmeticPass, Repeat
<1> HIDE DEF g0
<1>7. g0[0] = [code |-> c, changed |-> FALSE, known |-> {}, stack |-> <<>>] BY <1>1, <1>5
<1>8. ASSUME NEW i \in 1 .. Len(c) PROVE g0[i] = InferStep(IF i \in collectJumpTargets(c) THEN clearIntInference(g0[i - 1]) ELSE g0[i - 1], i)
  <2>1. i \in 0 .. Len(c) /\ i # 0 BY <1>1
  <2> QED BY <1>5, <2>1
<1> QED BY <1>6, <1>7, <1>8

\* The walk of the integer pass keeps the heights.
LEMMA IntegerLevel ==
    ASSUME NEW c, Level(c)
    PROVE  LET a == optimizeIntegerArithmeticPass(c) IN Level(a.code) /\ a.changed \in BOOLEAN
<1>1. PICK T : T = collectJumpTargets(c) OBVIOUS
<1>2. PICK N \in Nat : N = Len(c) BY LevelLen
<1>3. PICK g : /\ g[0] = [code |-> c, changed |-> FALSE, known |-> {}, stack |-> <<>>]
               /\ optimizeIntegerArithmeticPass(c) = g[N]
               /\ \A i \in 1 .. N : g[i] = InferStep(IF i \in T THEN clearIntInference(g[i - 1]) ELSE g[i - 1], i)
  BY <1>1, <1>2, IntegerTable
<1> DEFINE A == {n \in Nat : n <= N => IsInference(g[n], T, N)}
<1>4. 0 \in A
  <2>1. PICK a : a = g[0] OBVIOUS
  <2>2. a = [code |-> c, changed |-> FALSE, known |-> {}, stack |-> <<>>] BY <1>3, <2>1
  <2>3. a.code = c /\ a.changed = FALSE /\ a.known = {} /\ a.stack = <<>> BY <2>2
  <2>4. Balanced(c, T) /\ Len(c) = N /\ Tracks(<<>>, c) BY <1>1, <1>2, NoTracks DEF Balanced
  <2>5. IsInference(a, T, N) BY <2>2, <2>3, <2>4 DEF IsInference
  <2> QED BY <2>1, <2>5
<1>5. ASSUME NEW n \in A PROVE n + 1 \in A
  <2> SUFFICES ASSUME n + 1 <= N PROVE IsInference(g[n + 1], T, N) OBVIOUS
  <2>1. IsInference(g[n], T, N) BY <1>2
  <2>2. PICK i \in 1 .. N : i = n + 1 /\ i - 1 = n BY <1>2
  <2> HIDE DEF A
  <2>3. PICK a : a = IF i \in T THEN clearIntInference(g[n]) ELSE g[n] OBVIOUS
  <2>4. g[n + 1] = InferStep(a, i) BY <1>3, <2>2, <2>3
  <2>5. IsInference(a, T, N) BY <2>1, <2>3, ClearInference
  <2> QED BY <2>4, <2>5, InferStepKeeps
<1>6. A = Nat
  <2> HIDE DEF A
  <2>1. A \in SUBSET Nat BY DEF A
  <2> QED BY <1>4, <1>5, <2>1, SetInduction
<1>7. IsInference(g[N], T, N) BY <1>6
<1> QED BY <1>3, <1>7 DEF IsInference, Balanced

(***************************************************************************)
(* The rounds.                                                             *)
(***************************************************************************)
\* INVARIANT: the heights of the stack exist for the code of every step.
IInv == pass \in PassNames /\ changed \in BOOLEAN /\ Level(code)

\* The compiler emits code with heights (EmittedAssumption).
LEMMA InitIInv == Init => IInv
<1> SUFFICES ASSUME Init PROVE IInv OBVIOUS
<1>1. code = Emitted(program) /\ program \in Programs /\ pass = "peephole" /\ changed = FALSE BY DEF Init
<1>2. IsHeight(Emitted(program), Heights(Emitted(program))) BY <1>1, EmittedAssumption
<1>3. Level(code) BY <1>1, <1>2 DEF Level
<1> QED BY <1>1, <1>3 DEF IInv, PassNames

\* A pass whose code has heights keeps the invariant.
LEMMA RanIInv ==
    ASSUME IInv, NEW name, NEW next \in PassNames, NEW c, Level(c), NEW ch \in BOOLEAN, Ran(name, next, c, ch)
    PROVE  IInv'
<1>1. code' = c /\ pass' = next /\ changed' = (changed \/ ch) BY DEF Ran
<1>2. changed' \in BOOLEAN BY <1>1
<1>3. Level(code)' BY <1>1 DEF Level
<1> QED BY <1>1, <1>2, <1>3 DEF IInv

\* Every step keeps the invariant.
LEMMA NextIInv == IInv /\ [Next]_vars => IInv'
<1> SUFFICES ASSUME IInv, [Next]_vars PROVE IInv' OBVIOUS
<1>1. Level(code) BY DEF IInv
<1>2. CASE Peephole
  <2>1. PICK missed : LET c == optimizePeepholePass(code, missed).code IN Ran("peephole", "integer", c, c # code)
    BY <1>2 DEF Peephole
  <2>2. PICK c : c = optimizePeepholePass(code, missed).code OBVIOUS
  <2>3. Level(c) BY <1>1, <2>2, PeepholeLevel
  <2>4. PICK ch \in BOOLEAN : ch = (c # code) OBVIOUS
  <2>5. Ran("peephole", "integer", c, ch) BY <2>1, <2>2, <2>4
  <2> QED BY <2>3, <2>5, RanIInv DEF PassNames
<1>3. CASE IntegerArithmetic
  <2>1. PICK a : a = optimizeIntegerArithmeticPass(code) OBVIOUS
  <2>2. Ran("integer", "deadjump", a.code, a.changed) BY <1>3, <2>1 DEF IntegerArithmetic
  <2>3. Level(a.code) /\ a.changed \in BOOLEAN BY <1>1, <2>1, IntegerLevel
  <2> QED BY <2>2, <2>3, RanIInv DEF PassNames
<1>4. CASE DeadConditionalJump
  <2>1. PICK a : a = optimizeDeadConditionalJumpPass(code) OBVIOUS
  <2>2. Ran("deadjump", "fused", a.code, a.changed) BY <1>4, <2>1 DEF DeadConditionalJump
  <2>3. Level(a.code) /\ a.changed \in BOOLEAN BY <1>1, <2>1, DeadJumpLevel
  <2> QED BY <2>2, <2>3, RanIInv DEF PassNames
<1>5. CASE FusedBranch
  <2>1. PICK c : c = optimizeFusedBranchPass(code) OBVIOUS
  <2>2. Level(c) BY <1>1, <2>1, FusedBranchLevel
  <2>3. PICK ch \in BOOLEAN : ch = (c # code) OBVIOUS
  <2>4. Ran("fused", "pooling", c, ch) BY <1>5, <2>1, <2>3 DEF FusedBranch
  <2> QED BY <2>2, <2>4, RanIInv DEF PassNames
<1>6. CASE ConstantPooling
  <2>1. PICK c : c = optimizeConstantPoolingPass(code) OBVIOUS
  <2>2. Level(c) BY <1>1, <2>1, ConstantPoolingLevel
  <2>3. PICK ch \in BOOLEAN : ch = (c # code) OBVIOUS
  <2>4. Ran("pooling", "round", c, ch) BY <1>6, <2>1, <2>3 DEF ConstantPooling
  <2> QED BY <2>2, <2>4, RanIInv DEF PassNames
<1>7. CASE NextRound
  <2>1. pass' \in PassNames /\ changed' = FALSE /\ code' = code BY <1>7 DEF NextRound, PassNames
  <2>2. Level(code)' BY <1>1, <2>1 DEF Level
  <2> QED BY <2>1, <2>2 DEF IInv
<1>8. CASE UNCHANGED vars
  <2>1. pass' = pass /\ changed' = changed /\ code' = code BY <1>8 DEF vars
  <2>2. Level(code)' BY <1>1, <2>1 DEF Level
  <2> QED BY <2>1, <2>2 DEF IInv
<1> QED BY <1>2, <1>3, <1>4, <1>5, <1>6, <1>7, <1>8 DEF Next, Done

\* THEOREM: in the code of every page, at every step of the optimizer, every
\* jump leads to a place in the code and the run does not fall off its end.
THEOREM OptimizerTypes == Spec => []TypeOK
<1>1. IInv => TypeOK
  <2> SUFFICES ASSUME IInv PROVE TypeOK OBVIOUS
  <2>1. PICK h : IsHeight(code, h) BY DEF IInv, Level
  <2>2. \A p \in DOMAIN code : IsInstruction(code[p]) /\ Successors(code, p) \subseteq DOMAIN code BY <2>1 DEF IsHeight
  <2> QED BY <2>2 DEF IInv, TypeOK
<1> QED BY <1>1, InitIInv, NextIInv, PTL DEF Spec

\* THEOREM: no pass, in whatever round, makes a page find the VM's stack too
\* short or leave something on it.
THEOREM OptimizerStackBalanced == Spec => []StackBalanced
<1>1. IInv => StackBalanced
  <2> SUFFICES ASSUME IInv PROVE StackBalanced OBVIOUS
  <2>1. PICK h : IsHeight(code, h) BY DEF IInv, Level
  <2> QED BY <2>1, BalancedRun DEF StackBalanced
<1> QED BY <1>1, InitIInv, NextIInv, PTL DEF Spec

\* THEOREM: folding constants exactly (optimizePeepholePass) and pooling them
\* (optimizeConstantPoolingPass) change nothing that is seen of a page: how
\* its run ends, the line it is at, what it has written and the variables.
THEOREM ConstantPassesKeepOutcome == Spec => ConstantsKeepOutcome
<1>1. IInv /\ ExactPeephole => Outcome(code') = Outcome(code)
  <2> SUFFICES ASSUME IInv, ExactPeephole PROVE Outcome(code') = Outcome(code) OBVIOUS
  <2>1. PICK missed : LET w == optimizePeepholePass(code, missed) IN w.exact /\ code' = w.code BY DEF ExactPeephole
  <2>2. Outcome(optimizePeepholePass(code, missed).code) = Outcome(code) BY <2>1, PeepholeLevel DEF IInv
  <2> QED BY <2>1, <2>2
<1>2. IInv /\ ConstantPooling => Outcome(code') = Outcome(code)
  <2> SUFFICES ASSUME IInv, ConstantPooling PROVE Outcome(code') = Outcome(code) OBVIOUS
  <2>1. code' = optimizeConstantPoolingPass(code) BY DEF ConstantPooling, Ran
  <2>2. Outcome(optimizeConstantPoolingPass(code)) = Outcome(code) BY ConstantPoolingLevel DEF IInv
  <2> QED BY <2>1, <2>2
<1>3. IInv => [ExactPeephole \/ ConstantPooling => Outcome(code') = Outcome(code)]_vars BY <1>1, <1>2
<1> QED BY <1>3, InitIInv, NextIInv, PTL DEF Spec, ConstantsKeepOutcome

\* Where no test is shared with a jump, the dead jump pass
\* (optimizeDeadConditionalJumpPass) changes nothing that is seen of a page.
THEOREM DeadBranchRemovalKeepsOutcome == Spec => DeadBranchesKeepOutcome
<1>1. IInv /\ DeadConditionalJump /\ ~TestIsShared(code) => Outcome(code') = Outcome(code)
  <2> SUFFICES ASSUME IInv, DeadConditionalJump, ~TestIsShared(code) PROVE Outcome(code') = Outcome(code) OBVIOUS
  <2>1. code' = optimizeDeadConditionalJumpPass(code).code BY DEF DeadConditionalJump, Ran
  <2>2. Outcome(optimizeDeadConditionalJumpPass(code).code) = Outcome(code) BY DeadJumpOutcome DEF IInv
  <2> QED BY <2>1, <2>2
<1>2. IInv => [DeadConditionalJump /\ ~TestIsShared(code) => Outcome(code') = Outcome(code)]_vars BY <1>1
<1> QED BY <1>2, InitIInv, NextIInv, PTL DEF Spec, DeadBranchesKeepOutcome

(***************************************************************************)
(* The instructions two passes put in the place of others.                 *)
(***************************************************************************)
\* The float64s of integers up to FloatLimit are those integers, and every
\* other one's is an integer.
LEMMA FloatIsInteger ==
    ASSUME NEW n \in Int
    PROVE  Float64(n) \in Int
<1>1. ASSUME NEW a \in Nat PROVE Nearest(a) \in Int
  <2>1. PICK K : K = {k \in 1 .. 11 : FloatLimit * Spacings[k] <= a} OBVIOUS
  <2>2. IsFiniteSet(1 .. 11) /\ Cardinality(1 .. 11) = 11
    <3>1. 1 \in Int /\ 11 \in Int OBVIOUS
    <3>2. PICK a1 \in Int, b1 \in Int : a1 = 1 /\ b1 = 11 BY <3>1
    <3>3. IsFiniteSet(a1 .. b1) /\ Cardinality(a1 .. b1) = IF a1 > b1 THEN 0 ELSE b1 - a1 + 1 BY FS_Interval
    <3> QED BY <3>2, <3>3
  <2>3. K \subseteq 1 .. 11 BY <2>1
  <2>4. Cardinality(K) \in Nat /\ Cardinality(K) <= 11 BY ZenonT(60), <2>2, <2>3, FS_Subset, FS_CardinalityType
  <2>5. PICK i \in 1 .. 12 : i = 1 + Cardinality(K) BY <2>4
  <2>6. PICK s : s = Spacing(a) OBVIOUS
  <2>7. s = Spacings[i] BY <2>1, <2>5, <2>6 DEF Spacing
  <2>8. s \in Nat /\ s > 0 BY <2>7 DEF Spacings
  <2>9. PICK q, r : q = a \div s /\ r = a % s OBVIOUS
  <2>10. q \in Int /\ r \in Int BY <2>8, <2>9
  <2>11. Nearest(a) = s * (IF 2 * r > s \/ (2 * r = s /\ q % 2 = 1) THEN q + 1 ELSE q) BY <2>6, <2>9 DEF Nearest
  <2>12. PICK m \in Int : m = IF 2 * r > s \/ (2 * r = s /\ q % 2 = 1) THEN q + 1 ELSE q BY <2>10
  <2> QED BY <2>8, <2>11, <2>12
<1>2. CASE n \in -FloatLimit .. FloatLimit BY <1>2 DEF Float64
<1>3. CASE n > FloatLimit
  <2>1. n \in Nat /\ n \notin -FloatLimit .. FloatLimit BY <1>3, NumbersAssumption
  <2>2. Float64(n) = Nearest(n)
    <3>1. n > 0 BY <1>3, NumbersAssumption
    <3> QED BY <2>1, <3>1 DEF Float64
  <2> QED BY <1>1, <2>1, <2>2
<1>4. CASE n < -FloatLimit
  <2>1. -n \in Nat /\ n \notin -FloatLimit .. FloatLimit /\ ~(n > 0) BY <1>4, NumbersAssumption
  <2>2. Float64(n) = -Nearest(-n) BY <2>1 DEF Float64
  <2>3. PICK f \in Int : f = Nearest(-n) BY <1>1, <2>1
  <2> QED BY <2>2, <2>3
<1> QED BY <1>2, <1>3, <1>4, NumbersAssumption

\* A fused compare and jump (FusedBranchOp, the pairs of
\* optimizeFusedBranchPass) jumps when the comparison and the JumpIfFalse it
\* stands for do: for = and <> on all values, for < and > where neither is a
\* string, whose text only the comparison looks at.
THEOREM FusedBranchDecides ==
    ASSUME NEW op \in DOMAIN FusedBranchOp, NEW a, NEW b, a.Num \in Int, b.Num \in Int,
           op \in {"Lt", "Gt"} => ~IsString(a) /\ ~IsString(b)
    PROVE  JumpTaken(FusedBranchOp[op], a, b) <=> ~isTruthy(BinaryOp(op, a, b))
<1>1. PICK r : r = BinaryOp(op, a, b) OBVIOUS
<1>2. op \in {"Eq", "Neq", "Lt", "Gt"} BY DEF FusedBranchOp
<1>3. ASSUME EitherNull(a, b) PROVE JumpTaken(FusedBranchOp[op], a, b) <=> ~isTruthy(r)
  <2>1. r = Null BY <1>1, <1>2, <1>3 DEF BinaryOp, Compared
  <2>2. ~isTruthy(r) BY <2>1 DEF isTruthy, Null, Value
  <2>3. PICK j : j = FusedBranchOp[op] OBVIOUS
  <2>4. j \in CompareJumps BY <1>2, <2>3 DEF FusedBranchOp, CompareJumps
  <2>5. JumpTaken(j, a, b)
    <3>1. CASE j = "JumpIfNotEq" BY <1>3, <3>1 DEF JumpTaken
    <3>2. CASE j = "JumpIfEq" BY <1>3, <3>2 DEF JumpTaken
    <3>3. CASE j = "JumpIfNotLt" BY <1>3, <3>3 DEF JumpTaken
    <3>4. CASE j = "JumpIfLte" BY <1>3, <3>4 DEF JumpTaken
    <3> QED BY <2>4, <3>1, <3>2, <3>3, <3>4 DEF CompareJumps
  <2> QED BY <2>2, <2>3, <2>5
<1>4. ASSUME ~EitherNull(a, b) PROVE JumpTaken(FusedBranchOp[op], a, b) <=> ~isTruthy(r)
  <2>1. PICK c : c = compareValues(a, b) OBVIOUS
  <2>2. ASSUME r.Type = "Bool" PROVE isTruthy(r) <=> r.Num # 0
    <3> QED BY <2>2 DEF isTruthy
  <2>3. CASE op = "Eq"
    <3>1. r.Type = "Bool" /\ r.Num = IF c = 0 THEN 1 ELSE 0 BY <1>1, <1>4, <2>1, <2>3 DEF BinaryOp, Compared, Bool, Value
    <3>2. JumpTaken(FusedBranchOp[op], a, b) <=> c # 0 BY <1>4, <2>1, <2>3 DEF FusedBranchOp, JumpTaken
    <3>3. isTruthy(r) <=> c = 0 BY <2>2, <3>1
    <3> QED BY <3>2, <3>3
  <2>4. CASE op = "Neq"
    <3>1. r.Type = "Bool" /\ r.Num = IF c # 0 THEN 1 ELSE 0 BY <1>1, <1>4, <2>1, <2>4 DEF BinaryOp, Compared, Bool, Value
    <3>2. JumpTaken(FusedBranchOp[op], a, b) <=> c = 0 BY <1>4, <2>1, <2>4 DEF FusedBranchOp, JumpTaken
    <3>3. isTruthy(r) <=> c # 0 BY <2>2, <3>1
    <3> QED BY <3>2, <3>3
  <2>5. CASE op \in {"Lt", "Gt"}
    <3> DEFINE x == asFloat(a)
               y == asFloat(b)
    <3>0. x \in Int /\ y \in Int BY FloatIsInteger DEF asFloat
    <3>1. c = Sign(x - y) BY <2>1, <2>5 DEF compareValues
    <3> HIDE DEF x, y
    <3>2. c \in Int /\ (c < 0 <=> x < y) /\ (c > 0 <=> x > y) BY <3>0, <3>1 DEF Sign
    <3>3. CASE op = "Lt"
      <4>1. r.Type = "Bool" /\ r.Num = IF c < 0 THEN 1 ELSE 0 BY <1>1, <1>4, <2>1, <3>3 DEF BinaryOp, Compared, Bool, Value
      <4>2. JumpTaken(FusedBranchOp[op], a, b) <=> ~(x < y) BY <1>4, <3>3 DEF FusedBranchOp, JumpTaken, x, y
      <4>3. isTruthy(r) <=> c < 0 BY <2>2, <4>1
      <4> QED BY <3>2, <4>2, <4>3
    <3>4. CASE op = "Gt"
      <4>1. r.Type = "Bool" /\ r.Num = IF c > 0 THEN 1 ELSE 0 BY <1>1, <1>4, <2>1, <3>4 DEF BinaryOp, Compared, Bool, Value
      <4>2. JumpTaken(FusedBranchOp[op], a, b) <=> x <= y BY <1>4, <3>4 DEF FusedBranchOp, JumpTaken, x, y
      <4>3. isTruthy(r) <=> c > 0 BY <2>2, <4>1
      <4> QED BY <3>0, <3>2, <4>2, <4>3
    <3> QED BY <2>5, <3>3, <3>4
  <2> QED BY <1>2, <2>3, <2>4, <2>5
<1>5. JumpTaken(FusedBranchOp[op], a, b) <=> ~isTruthy(r) BY <1>3, <1>4
<1> QED BY <1>1, <1>5

Exact == -FloatLimit .. FloatLimit

\* What an int64 and a float64 both hold exactly.
LEMMA ExactNumbers ==
    ASSUME NEW n \in Exact
    PROVE  Float64(n) = n /\ Truncated(n) = n /\ Wrapped(n) = n
<1>1. n \in Int /\ -IntLimit < n /\ n < IntLimit BY NumbersAssumption DEF Exact
<1>2. Float64(n) = n BY DEF Float64, Exact
<1>3. Truncated(n) = n BY <1>1, NumbersAssumption DEF Truncated, Int64
<1>4. (n + IntLimit) % (2 * IntLimit) = n + IntLimit BY <1>1, NumbersAssumption
<1>5. Wrapped(n) = n BY <1>1, <1>4, NumbersAssumption DEF Wrapped
<1> QED BY <1>2, <1>3, <1>5

\* Where the operands of + and their sum are exact, + adds them as int64s do.
LEMMA AddIsExact ==
    ASSUME NEW m \in Exact, NEW n \in Exact, m + n \in Exact
    PROVE  addValues(Integer(m), Integer(n)) = Integer(Wrapped(m + n))
<1>1. /\ coerceInt64(Integer(m)) = m /\ coerceInt64(Integer(n)) = n
      /\ ~EitherNull(Integer(m), Integer(n))
      /\ Integer(m).Type = "Integer" /\ Integer(n).Type = "Integer"
  BY DEF coerceInt64, Integer, Value, IsString, EitherNull, IsNull
<1>2. addValues(Integer(m), Integer(n)) = Integer(Truncated(Float64(Float64(m) + Float64(n)))) BY <1>1 DEF addValues
<1>3. Float64(m) = m /\ Float64(n) = n BY ExactNumbers
<1>4. PICK s \in Exact : s = m + n OBVIOUS
<1>5. Float64(s) = s /\ Truncated(s) = s /\ Wrapped(s) = s BY ExactNumbers
<1> QED BY <1>2, <1>3, <1>4, <1>5

\* On int64s, the integer form of an operator (the opcodes the integer pass
\* puts for +, - and *) gives what the operator gives, for + where a float64
\* holds the operands and the sum.
THEOREM IntegerFormAgrees ==
    ASSUME NEW op \in DOMAIN IntegerForm, NEW m \in Int64, NEW n \in Int64,
           op = "Add" => {m, n, m + n} \subseteq Exact
    PROVE  IntegerOp(IntegerForm[op], coerceInt64(Integer(m)), coerceInt64(Integer(n)))
               = BinaryOp(op, Integer(m), Integer(n))
<1>1. op \in {"Add", "Sub", "Mul"} BY DEF IntegerForm
<1>2. /\ coerceInt64(Integer(m)) = m /\ coerceInt64(Integer(n)) = n
      /\ ~EitherNull(Integer(m), Integer(n))
  BY DEF coerceInt64, Integer, Value, IsString, EitherNull, IsNull
<1>3. CASE op = "Add"
  <2>1. addValues(Integer(m), Integer(n)) = Integer(Wrapped(m + n)) BY <1>3, AddIsExact
  <2>2. IntegerForm[op] = "IAdd" BY <1>3 DEF IntegerForm
  <2> QED BY <1>2, <1>3, <2>1, <2>2 DEF IntegerOp, BinaryOp
<1>4. CASE op = "Sub"
  <2>1. subtractValues(Integer(m), Integer(n)) = Integer(Wrapped(m - n)) BY <1>2 DEF subtractValues
  <2>2. IntegerForm[op] = "ISub" BY <1>4 DEF IntegerForm
  <2> QED BY <1>2, <1>4, <2>1, <2>2 DEF IntegerOp, BinaryOp
<1>5. CASE op = "Mul"
  <2>1. multiplyValues(Integer(m), Integer(n)) = Integer(Wrapped(m * n)) BY <1>2 DEF multiplyValues
  <2>2. IntegerForm[op] = "IMul" BY <1>5 DEF IntegerForm
  <2> QED BY <1>2, <1>5, <2>1, <2>2 DEF IntegerOp, BinaryOp
<1> QED BY <1>1, <1>3, <1>4, <1>5

\* The folder (foldVBSBinaryOp) gives what the operator would: for + where a
\* float64 holds the operands and the sum, for Mod where it holds the
\* operands or the folder takes them as integers, for the others always.
THEOREM FoldAgrees ==
    ASSUME NEW a, NEW b, NEW op \in FoldableOps, CanFold(a, b, op),
           op # "Concat" => a = Integer(a.Num) /\ b = Integer(b.Num),
           op = "Add" => {a.Num, b.Num, a.Num + b.Num} \subseteq Exact,
           op = "Mod" => (a.Num >= 0 /\ b.Num > 0) \/ {a.Num, b.Num} \subseteq Exact
    PROVE  foldVBSBinaryOp(a, b, op) = BinaryOp(op, a, b)
<1>1. ASSUME op # "Concat"
      PROVE  /\ a.Type = "Integer" /\ b.Type = "Integer" /\ ~EitherNull(a, b)
             /\ coerceInt64(a) = a.Num /\ coerceInt64(b) = b.Num
  <2>1. {a.Type, b.Type} = {"Integer"} BY <1>1 DEF CanFold, FoldableOps
  <2>2. a.Type = "Integer" /\ b.Type = "Integer" BY <2>1
  <2> QED BY <2>2 DEF EitherNull, IsNull, IsString, coerceInt64
<1>2. CASE op = "Concat"
  <2>1. a.Type # "Null" /\ b.Type # "Null" BY <1>2 DEF CanFold
  <2>2. concatValues(a, b) = String(valueToString(a) \o valueToString(b)) BY <2>1 DEF concatValues, IsNull
  <2> QED BY <1>2, <2>2 DEF foldVBSBinaryOp, BinaryOp
<1>3. CASE op = "Add"
  <2>1. PICK m \in Exact, n \in Exact : m = a.Num /\ n = b.Num /\ m + n \in Exact BY <1>3
  <2>2. a = Integer(m) /\ b = Integer(n) BY <1>3, <2>1
  <2>3. addValues(a, b) = Integer(Wrapped(m + n)) BY <2>1, <2>2, AddIsExact
  <2> QED BY <1>3, <2>1, <2>3 DEF foldVBSBinaryOp, BinaryOp
<1>4. CASE op = "Sub" BY <1>1, <1>4 DEF foldVBSBinaryOp, BinaryOp, subtractValues
<1>5. CASE op = "Mul" BY <1>1, <1>5 DEF foldVBSBinaryOp, BinaryOp, multiplyValues
<1>6. CASE op = "IDiv"
  <2>1. b.Num # 0 BY <1>6 DEF CanFold
  <2> QED BY <1>1, <1>6, <2>1 DEF foldVBSBinaryOp, BinaryOp, intDivideValues
<1>7. CASE op = "Mod"
  <2>1. b.Num # 0 BY <1>7 DEF CanFold
  <2>2. BinaryOp(op, a, b) = Integer(Remainder(a.Num, b.Num)) BY <1>1, <1>7, <2>1 DEF BinaryOp, modValues
  <2>3. CASE a.Num >= 0 /\ b.Num > 0 BY <1>7, <2>2, <2>3 DEF foldVBSBinaryOp
  <2>4. CASE ~(a.Num >= 0 /\ b.Num > 0)
    <3>1. PICK m \in Exact, n \in Exact : m = a.Num /\ n = b.Num BY <1>7, <2>4
    <3>2. Truncated(Float64(m)) = m /\ Truncated(Float64(n)) = n BY ExactNumbers
    <3> QED BY <1>7, <2>2, <2>4, <3>1, <3>2 DEF foldVBSBinaryOp
  <2> QED BY <2>3, <2>4
<1> QED BY <1>2, <1>3, <1>4, <1>5, <1>6, <1>7 DEF FoldableOps
=============================================================================
