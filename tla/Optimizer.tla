----------------------------- MODULE Optimizer ------------------------------
(***************************************************************************)
(* The optimizer of VBScript bytecode (axonvm/compiler_optimizer.go) as a  *)
(* sequence of passes over the code in place: rounds of passes until a     *)
(* round in which no pass reports a change. A pass is a step; what a page  *)
(* does must be the same before and after each.                            *)
(*                                                                         *)
(* Three of the passes never find their pattern in the code of this        *)
(* language, whose loads of a variable are each followed by a              *)
(* CoerceToValue, and are left out: local copy propagation, fused load and *)
(* branch, in-place arithmetic.                                            *)
(***************************************************************************)
EXTENDS Bytecode

CONSTANTS
    Programs,   \* the pages
    Emitted(_)  \* the bytecode the compiler emits for a page

VARIABLES
    program, \* the page being compiled
    code,    \* its bytecode
    pass,    \* the pass to run next, or "done"
    changed  \* a pass of this round reported a change

vars == <<program, code, pass, changed>>

PassNames == {"peephole", "integer", "deadjump", "fused", "pooling", "round", "done"}

(***************************************************************************)
(* Walking over the code.                                                  *)
(***************************************************************************)
TargetOps == {"Jump", "JumpIfFalse", "JumpIfTrue", "ForNextFastGlobalInt"} \cup CompareJumps
collectJumpTargets(c) == {c[p].to : p \in {q \in DOMAIN c : c[q].op \in TargetOps}}

\* targets is the set a pass collects before it starts.
hasTargetInRange(targets, from, to) == \E p \in targets : p \in from .. to

\* The next instruction after p that is not padding; 0 if there is none.
NextOp(c, p) == SelectInSubSeq(c, p + 1, Len(c), LAMBDA i : i.op # "Nop")
Blank(c, S) == [p \in DOMAIN c |-> IF p \in S THEN Nop ELSE c[p]]

IsConstant(c, p) == p \in DOMAIN c /\ c[p].op = "Constant"

(***************************************************************************)
(* Peephole pass: two constants and an operator become a constant.         *)
(***************************************************************************)
FoldableOps == {"Add", "Sub", "Mul", "IDiv", "Mod", "Concat"}
Operators(c) == {p \in DOMAIN c : c[p].op \in FoldableOps}

\* The operands a folder takes; + does not join strings.
CanFold(a, b, op) ==
    CASE op = "Concat" -> {a.Type, b.Type} \subseteq {"String", "Integer"}
      [] op \in {"IDiv", "Mod"} -> {a.Type, b.Type} = {"Integer"} /\ b.Num # 0
      [] OTHER -> {a.Type, b.Type} = {"Integer"}

\* The folder's own arithmetic: integers, and floats for a Mod of a negative
\* number or by one.
foldVBSBinaryOp(a, b, op) ==
    LET m == Truncated(Float64(a.Num))
        n == Truncated(Float64(b.Num))
    IN  CASE op = "Concat" -> String(valueToString(a) \o valueToString(b))
          [] op = "Add"  -> Integer(Wrapped(a.Num + b.Num))
          [] op = "Sub"  -> Integer(Wrapped(a.Num - b.Num))
          [] op = "Mul"  -> Integer(Wrapped(a.Num * b.Num))
          [] op = "IDiv" -> Integer(Wrapped(Quotient(a.Num, b.Num)))
          [] op = "Mod" /\ a.Num >= 0 /\ b.Num > 0 -> Integer(Remainder(a.Num, b.Num))
          [] op = "Mod" /\ ~(a.Num >= 0 /\ b.Num > 0) -> Integer(Remainder(m, n))

Foldable(c, i, targets) ==
    LET j == NextOp(c, i)
        k == NextOp(c, j)
    IN  /\ IsConstant(c, i) /\ IsConstant(c, j)
        /\ k \in DOMAIN c /\ c[k].op \in FoldableOps
        /\ ~hasTargetInRange(targets, i + 1, k)
        /\ CanFold(c[i].v, c[j].v, c[k].op)

\* Slip: the operand after the first is left in the code.
FoldedOperator(c, i) ==
    LET j == NextOp(c, i)
        k == NextOp(c, j)
    IN  [Blank(c, j + 1 .. k) EXCEPT ![i] = Constant(foldVBSBinaryOp(c[i].v, c[j].v, c[k].op))]

Folded(c, i) ==
    LET j == NextOp(c, i)
        k == NextOp(c, j)
    IN  [Blank(c, i + 1 .. k) EXCEPT ![i] = Constant(foldVBSBinaryOp(c[i].v, c[j].v, c[k].op))]

\* The folder and the operator at the place after next make the same of them.
FoldIsExact(c, i) ==
    LET j == NextOp(c, i)
        k == NextOp(c, j)
    IN  foldVBSBinaryOp(c[i].v, c[j].v, c[k].op) = BinaryOp(c[k].op, c[i].v, c[j].v)

\* The walk stays at a constant it has folded: the result may fold again.
\* exact keeps, for the properties, whether every fold so far was exact.
FoldStep(w, missed, targets) ==
    IF w.at \notin missed /\ Foldable(w.code, w.at, targets)
    THEN [w EXCEPT !.code = Folded(@, w.at), !.exact = @ /\ FoldIsExact(w.code, w.at)]
    ELSE [w EXCEPT !.at = @ + 1]

\* A constant that does not fold advances the walk by one byte, into its own
\* operand, and puts it out of step for a while: what follows may be missed.
\* Left out: an operand byte 1 is read as Constant, and the walk may fold what
\* is none. The two bytes behind must then be the index of a constant, which
\* takes more than 256 constants or an operand of the bytes 1 and 0 (a line, a
\* column, a variable, a jump to 256).
Missable(c) ==
    LET targets == collectJumpTargets(c)
    IN  {i \in DOMAIN c : /\ Foldable(c, i, targets)
                          /\ \E j \in 1 .. i - 1 : IsConstant(c, j) /\ ~Foldable(c, j, targets)}

\* Every turn passes a place or folds an operator away.
optimizePeepholePass(c, missed) ==
    LET targets == collectJumpTargets(c)
    IN  Repeat(LAMBDA n, w : FoldStep(w, missed, targets), Len(c) + Cardinality(Operators(c)),
               [code |-> c, at |-> 1, exact |-> TRUE])

(***************************************************************************)
(* Integer pass: operators on operands known to be integers become integer *)
(* operators. An entry of the pass's stack says whether the value is one,  *)
(* where it was pushed, and whether by a Constant.                         *)
(***************************************************************************)
Entry(int, at, const) == [int |-> int, at |-> at, const |-> const]
Unknown == Entry(FALSE, 0, FALSE)

popIntStack(st, n) == IF Len(st) > n THEN SubSeq(st, 1, Len(st) - n) ELSE <<>>
\* The n-th entry from the top.
Peek(st, n) == IF Len(st) >= n THEN st[Len(st) - n + 1] ELSE Unknown

\* Slip: what is known of the variables survives a jump.
clearIntInferenceOfStack(a) == [a EXCEPT !.stack = <<>>]

clearIntInference(a) == [a EXCEPT !.known = {}, !.stack = <<>>]

Log2[d \in Nat \ {0}] == IF d = 1 THEN 0 ELSE 1 + Log2[d \div 2]
IsPowerOfTwo(d) == d > 0 /\ 2^Log2[d] = d

IntegerForm == [Add |-> "IAdd", Sub |-> "ISub", Mul |-> "IMul"]

\* The constant divisor becomes the number of bits to shift.
rewriteDivisorConstantToShift(c, at, p) ==
    [c EXCEPT ![at] = Constant(Integer(Log2[c[at].v.Num])), ![p] = Op("IRightShift")]

NotInferred == {"Mod", "Concat", "Eq", "Neq", "Lt", "Gt", "Lte", "Gte", "And", "Or"}

InferStep(a, p) ==
    LET i == a.code[p]
        rhs == Peek(a.stack, 1)
        lhs == Peek(a.stack, 2)
        Push(n, e) == [a EXCEPT !.stack = Append(popIntStack(@, n), e)]
        Know(x, int) == [a EXCEPT !.known = IF int THEN @ \cup {x} ELSE @ \ {x}]
        bothInt == lhs.int /\ rhs.int
    IN  CASE i.op = "Constant"  -> Push(0, Entry(i.v.Type = "Integer", p, i.v.Type = "Integer"))
          [] i.op = "GetGlobal" -> Push(0, Entry(i.x \in a.known, p, FALSE))
          [] i.op \in {"SetGlobal", "LetGlobal"} -> [Know(i.x, rhs.int) EXCEPT !.stack = popIntStack(@, 1)]
          [] i.op \in {"IncGlobalInt", "DecGlobalInt"} -> Know(i.x, TRUE)
          [] i.op = "ForNextFastGlobalInt" -> [a EXCEPT !.known = @ \cup {i.x, i.y}, !.stack = <<>>]
          [] i.op \in {"Add", "Sub", "Mul"} ->
                 [Push(2, Entry(bothInt, p, FALSE)) EXCEPT
                     !.code[p] = IF bothInt THEN Op(IntegerForm[i.op]) ELSE @,
                     !.changed = @ \/ bothInt]
          [] i.op = "IDiv" ->
                 LET shift == bothInt /\ rhs.const /\ IsPowerOfTwo(a.code[rhs.at].v.Num)
                 IN  [Push(2, Entry(bothInt, p, FALSE)) EXCEPT
                         !.code = IF shift THEN rewriteDivisorConstantToShift(@, rhs.at, p) ELSE @,
                         !.changed = @ \/ shift]
          [] i.op \in IntegerOps -> Push(2, Entry(TRUE, p, FALSE))
          [] i.op \in NotInferred -> Push(2, Entry(FALSE, p, FALSE))
          [] i.op \in {"Neg", "Not"} -> Push(1, Entry(rhs.int, p, FALSE))
          [] i.op = "Write"  -> [a EXCEPT !.stack = popIntStack(@, 1)]
          [] i.op = "WriteN" -> [a EXCEPT !.stack = popIntStack(@, i.n)]
          [] i.op \in {"Jump", "JumpIfFalse", "JumpIfTrue"} -> clearIntInference(a)
          [] OTHER -> a

optimizeIntegerArithmeticPass(c) ==
    LET targets == collectJumpTargets(c)
        Infer(p, a) == InferStep(IF p \in targets THEN clearIntInference(a) ELSE a, p)
    IN  Repeat(Infer, Len(c), [code |-> c, changed |-> FALSE, known |-> {}, stack |-> <<>>])

(***************************************************************************)
(* Dead jump pass: a JumpIfFalse after a constant that is false makes what *)
(* it jumps over unreachable.                                              *)
(***************************************************************************)
isCompileTimeFalseValue(v) ==
    CASE v.Type \in {"Bool", "Integer"} -> v.Num = 0
      [] v.Type \in {"Empty", "Null"} -> TRUE
      [] v.Type = "String" -> v.Str = <<>>

IsDeadJump(c, p, prev, targets) ==
    /\ c[p].to > p + 1
    /\ IsConstant(c, prev) /\ isCompileTimeFalseValue(c[prev].v)
    /\ ~hasTargetInRange(targets, p + 1, c[p].to - 1)

\* Slip: a branch that is blank already counts as a change.
BranchNeverBlank(c, p) == FALSE

BranchIsBlank(c, p) == \A q \in p + 1 .. c[p].to - 1 : c[q].op = "Nop"
BranchRemoved(c, p) == Blank(c, p + 1 .. c[p].to - 1)

\* prev is the instruction before p that is not padding. What has been
\* removed is padding, which the walk passes over.
DeadStep(a, p, targets) ==
    CASE a.code[p].op = "Nop" -> a
      [] a.code[p].op = "JumpIfFalse" /\ IsDeadJump(a.code, p, a.prev, targets) ->
             [code |-> BranchRemoved(a.code, p), changed |-> a.changed \/ ~BranchIsBlank(a.code, p), prev |-> p]
      [] OTHER -> [a EXCEPT !.prev = p]

optimizeDeadConditionalJumpPass(c) ==
    LET targets == collectJumpTargets(c)
    IN  Repeat(LAMBDA p, a : DeadStep(a, p, targets), Len(c), [code |-> c, changed |-> FALSE, prev |-> 0])

(***************************************************************************)
(* Fused branch pass: a comparison and the JumpIfFalse after it become one *)
(* instruction.                                                            *)
(***************************************************************************)
FusedBranchOp == [Eq |-> "JumpIfNotEq", Neq |-> "JumpIfEq", Lt |-> "JumpIfNotLt", Gt |-> "JumpIfLte"]

IsFusable(c, p, targets) ==
    LET j == NextOp(c, p)
    IN  /\ c[p].op \in DOMAIN FusedBranchOp
        /\ j \in DOMAIN c /\ c[j].op = "JumpIfFalse"
        /\ ~hasTargetInRange(targets, p + 1, j)

Fused(c, p) ==
    LET j == NextOp(c, p)
    IN  [Blank(c, p + 1 .. j) EXCEPT ![p] = Jump(FusedBranchOp[c[p].op], c[j].to)]

FuseAt(c, p, targets) == IF IsFusable(c, p, targets) THEN Fused(c, p) ELSE c

optimizeFusedBranchPass(c) ==
    LET targets == collectJumpTargets(c) IN Repeat(LAMBDA p, a : FuseAt(a, p, targets), Len(c), c)

(***************************************************************************)
(* Constant pooling pass: two to four constants in a row are one           *)
(* instruction.                                                            *)
(***************************************************************************)
\* One more constant, if one follows.
Gather(c, ps, targets) ==
    LET next == NextOp(c, Last(ps))
    IN  IF IsConstant(c, next) /\ ~hasTargetInRange(targets, Last(ps) + 1, next) THEN Append(ps, next) ELSE ps

Gathered(c, p, targets) == Gather(c, Gather(c, Gather(c, <<p>>, targets), targets), targets)

Pooled(c, ps) ==
    [Blank(c, ps[1] + 1 .. Last(ps)) EXCEPT ![ps[1]] = ConstantN([n \in DOMAIN ps |-> c[ps[n]].v])]

PoolAt(c, p, targets) ==
    LET ps == Gathered(c, p, targets)
    IN  IF IsConstant(c, p) /\ Len(ps) >= 2 THEN Pooled(c, ps) ELSE c

\* What is pooled is blank and does not start another pool.
optimizeConstantPoolingPass(c) ==
    LET targets == collectJumpTargets(c) IN Repeat(LAMBDA p, a : PoolAt(a, p, targets), Len(c), c)

(***************************************************************************)
(* What the passes rely on. The compiler emits code in which the height of *)
(* the stack at an instruction is the same whatever way leads there.       *)
(***************************************************************************)
\* How many values an instruction leaves on the stack.
Results(i) ==
    CASE i.op \in {"Constant", "GetGlobal", "CoerceToValue", "Neg", "Not"} \cup BinaryOps \cup IntegerOps -> 1
      [] i.op = "ConstantN" -> Len(i.vs)
      [] OTHER -> 0

Opcodes == BinaryOps \cup IntegerOps \cup TargetOps
           \cup {"Halt", "Nop", "Line", "Constant", "ConstantN", "GetGlobal", "CoerceToValue", "SetGlobal", "LetGlobal",
                 "IncGlobalInt", "DecGlobalInt", "Neg", "Not", "Write", "WriteN"}

IsInstruction(i) ==
    /\ i.op \in Opcodes
    /\ i.op = "Constant" => i.v # Raise
    /\ i.op = "ConstantN" => Len(i.vs) \in Nat /\ i.vs = [k \in 1 .. Len(i.vs) |-> i.vs[k]]
    /\ i.op = "WriteN" => i.n \in Nat

\* Where the run may be after instruction p.
Successors(c, p) ==
    (IF c[p].op \in TargetOps THEN {c[p].to} ELSE {}) \cup (IF c[p].op \in {"Jump", "Halt"} THEN {} ELSE {p + 1})

\* h is the height of the stack at every instruction of c.
IsHeight(c, h) ==
    /\ Len(c) \in Nat \ {0} /\ DOMAIN c = 1 .. Len(c)
    /\ h \in [1 .. Len(c) -> Nat] /\ h[1] = 0
    /\ \A p \in DOMAIN c :
        /\ IsInstruction(c[p])
        /\ h[p] >= Operands(c[p])
        /\ c[p].op = "Halt" => h[p] = 0
        /\ \A q \in Successors(c, p) : q \in DOMAIN c /\ h[q] = h[p] - Operands(c[p]) + Results(c[p])

\* The heights as one walk over the code finds them: a jump ahead tells the
\* height at its target, an instruction nothing leads to begins a statement.
Heights(c) ==
    Repeat(LAMBDA p, h : [q \in DOMAIN c |-> IF q > p /\ q \in Successors(c, p)
                                            THEN h[p] - Operands(c[p]) + Results(c[p]) ELSE h[q]],
           Len(c), [q \in DOMAIN c |-> 0])

ASSUME EmittedAssumption ==
    \A p \in Programs : IsHeight(Emitted(p), Heights(Emitted(p)))

(***************************************************************************)
(* The rounds.                                                             *)
(***************************************************************************)
Init ==
    /\ program \in Programs
    /\ code = Emitted(program)
    /\ pass = "peephole"
    /\ changed = FALSE

\* A pass that leaves the code c and reports ch; the next one follows.
Ran(name, next, c, ch) ==
    /\ pass = name
    /\ code' = c
    /\ changed' = (changed \/ ch)
    /\ pass' = next
    /\ UNCHANGED program

Peephole ==
    \E missed \in SUBSET Missable(code) :
        LET c == optimizePeepholePass(code, missed).code IN Ran("peephole", "integer", c, c # code)

IntegerArithmetic ==
    LET a == optimizeIntegerArithmeticPass(code) IN Ran("integer", "deadjump", a.code, a.changed)

DeadConditionalJump ==
    LET a == optimizeDeadConditionalJumpPass(code) IN Ran("deadjump", "fused", a.code, a.changed)

FusedBranch ==
    LET c == optimizeFusedBranchPass(code) IN Ran("fused", "pooling", c, c # code)

ConstantPooling ==
    LET c == optimizeConstantPoolingPass(code) IN Ran("pooling", "round", c, c # code)

\* Another round if a pass of this one reported a change.
NextRound ==
    /\ pass = "round"
    /\ pass' = IF changed THEN "peephole" ELSE "done"
    /\ changed' = FALSE
    /\ UNCHANGED <<program, code>>

Done == pass = "done" /\ UNCHANGED vars

Next == Peephole \/ IntegerArithmetic \/ DeadConditionalJump \/ FusedBranch \/ ConstantPooling \/ NextRound \/ Done

\* The compiler runs the passes without waiting for anything: as long as it
\* is not done, it goes on to another pass. (Every step but Done does.)
Advance == pass # "done" /\ pass' \in PassNames

Spec == Init /\ [][Next]_vars /\ WF_pass(Advance)

(***************************************************************************)
(* Properties.                                                             *)
(***************************************************************************)
\* TYPE: the pass to run, and code whose every jump leads to a place in it
\* and whose last instruction does not let the run fall off its end.
TypeOK ==
    /\ pass \in PassNames
    /\ changed \in BOOLEAN
    /\ \A p \in DOMAIN code : IsInstruction(code[p]) /\ Successors(code, p) \subseteq DOMAIN code

\* SAFETY: no instruction finds the VM's stack too short, and a page that
\* ends leaves nothing on it: no pass takes away one of a push and its pop. A
\* page that runs a loop of such code panics, or grows the stack until it is
\* refused.
StackBalanced == LET r == Run(code) IN r.status # "panic" /\ (r.status = "ok" => r.stack = <<>>)

\* What is seen of a run: how it ended, the line it was at, what it wrote and
\* the values of the variables.
Outcome(c) == LET r == Run(c) IN <<r.status, r.line, r.out, r.env>>

\* A peephole pass of which every fold is exact. Not every one is: the folder
\* adds integers, the operator + adds floats.
ExactPeephole ==
    /\ pass = "peephole"
    /\ \E missed \in SUBSET Missable(code) :
           LET w == optimizePeepholePass(code, missed) IN w.exact /\ code' = w.code

\* ACTION: folding constants exactly and pooling them change nothing that is
\* seen of the page, be it stopped by the timeout in the middle of what was
\* folded.
ConstantsKeepOutcome == [][ExactPeephole \/ ConstantPooling => Outcome(code') = Outcome(code)]_vars

\* The JumpIfFalse at p tests the constant at prev, and only padding is
\* between; the constant is false.
TestsFalse(c, p, prev) ==
    /\ prev < p /\ c[p].op = "JumpIfFalse"
    /\ IsConstant(c, prev) /\ isCompileTimeFalseValue(c[prev].v)
    /\ \A q \in prev + 1 .. p - 1 : c[q].op = "Nop"

\* Such a JumpIfFalse is reached by a jump too, which comes with a value of
\* its own: the case that the dead jump pass does not look at.
TestIsShared(c) ==
    \E p, prev \in DOMAIN c : TestsFalse(c, p, prev) /\ hasTargetInRange(collectJumpTargets(c), prev + 1, p)

\* ACTION: where no test is shared, a dead branch is not missed
\* (optimizeDeadConditionalJumpPass): what it blanks is never run, though the
\* pass looks at no more than the constant before the jump and the targets
\* behind it.
DeadBranchesKeepOutcome == [][DeadConditionalJump /\ ~TestIsShared(code) => Outcome(code') = Outcome(code)]_vars

\* LIVENESS: the rounds come to an end (optimizePeephole's loop): no pass
\* undoes, or does again, what another has done.
Terminates == <>(pass = "done")
=============================================================================
