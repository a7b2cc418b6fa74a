------------------------------ MODULE Compiler ------------------------------
(***************************************************************************)
(* The compiler of top-level VBScript: one pass over the source that emits *)
(* instructions (axonvm/compiler_stmt_parser.go, compiler_expr.go).        *)
(*                                                                         *)
(* base is the number of instructions emitted before. A jump whose target  *)
(* is not known yet is emitted with a mark and patched at the end of its   *)
(* statement, as emitJump, patchJump and the loop contexts do. Of the      *)
(* locations the compiler emits, the one a statement starts with is kept.  *)
(***************************************************************************)
EXTENDS VBScript, Bytecode

Mark == [If |-> -1, Select |-> -2, Do |-> -3, For |-> -4]

Patched(code, mark, end) ==
    [p \in DOMAIN code |->
        IF code[p].op \in {"Jump", "JumpIfFalse"} /\ code[p].to = mark
        THEN Jump(code[p].op, end) ELSE code[p]]

\* The address after the instructions emitted since base.
After(base, code) == base + Len(code) + 1

(***************************************************************************)
(* Expressions.                                                            *)
(***************************************************************************)
\* a AndAlso b, a OrElse b: both operands jump to the second constant.
ShortCircuit(l, r, base, op) ==
    LET test  == IF op = "AndAlso" THEN "JumpIfFalse" ELSE "JumpIfTrue"
        short == base + Len(l) + Len(r) + 5
    IN  l \o <<Jump(test, short)>> \o r \o <<Jump(test, short),
            Constant(Bool(op = "AndAlso")), Jump("Jump", short + 1),
            Constant(Bool(op = "OrElse"))>>

RECURSIVE ExpressionCode(_, _)
ExpressionCode(e, base) ==
    CASE e.k = "Lit" -> <<Constant(e.v)>>
      [] e.k = "Var" -> <<Slot("GetGlobal", e.x), Op("CoerceToValue")>>
      [] e.k \in {"Neg", "Not"} -> Append(ExpressionCode(e.l, base), Op(e.k))
      [] e.k \in {"AndAlso", "OrElse"} ->
             LET l == ExpressionCode(e.l, base)
             IN  ShortCircuit(l, ExpressionCode(e.r, base + Len(l) + 1), base, e.k)
      [] OTHER ->
             LET l == ExpressionCode(e.l, base)
             IN  Append(l \o ExpressionCode(e.r, base + Len(l)), Op(e.k))

(***************************************************************************)
(* Assignments and output.                                                 *)
(***************************************************************************)
\* x = x + 1 and x = x - 1 have an instruction of their own.
IncrementOf(x, op) == <<Slot("GetGlobal", x), Op("CoerceToValue"), Constant(Integer(1)), Op(op)>>

LetCode(s, base) ==
    LET rhs == ExpressionCode(s.e, base)
    IN  CASE rhs = IncrementOf(s.x, "Add") -> <<Slot("IncGlobalInt", s.x)>>
          [] rhs = IncrementOf(s.x, "Sub") -> <<Slot("DecGlobalInt", s.x)>>
          [] OTHER -> Append(rhs, Slot("LetGlobal", s.x))

WriteCode(s, base) ==
    Append(FoldLeft(LAMBDA code, e : code \o ExpressionCode(e, base + Len(code)), <<>>, s.es),
           Count("WriteN", Len(s.es)))

(***************************************************************************)
(* Statements.                                                             *)
(***************************************************************************)
RECURSIVE StatementCode(_, _), BranchesCode(_, _, _), CasesCode(_, _, _, _)

BlockCode(ss, base) ==
    FoldLeft(LAMBDA code, s : code \o StatementCode(s, base + Len(code)), <<>>, ss)

\* If c Then block [ElseIf c Then block] [Else block]
BranchesCode(bs, els, base) ==
    IF bs = <<>> THEN IF els = <<>> THEN <<>> ELSE BlockCode(els[1], base)
    ELSE LET cond == ExpressionCode(Head(bs)[1], base)
             body == BlockCode(Head(bs)[2], base + Len(cond) + 1)
             leave == IF Len(bs) = 1 /\ els = <<>> THEN <<>> ELSE <<Jump("Jump", Mark.If)>>
             next == base + Len(cond) + 1 + Len(body) + Len(leave)
         IN  cond \o <<Jump("JumpIfFalse", next + 1)>> \o body \o leave
                  \o BranchesCode(Tail(bs), els, next)

IfCode(s, base) ==
    LET code == BranchesCode(s.branches, s.els, base)
    IN  Patched(code, Mark.If, After(base, code))

Test(mode, e, base) == ExpressionCode(e, base) \o (IF mode = "until" THEN <<Op("Not")>> ELSE <<>>)

\* Do [While|Until c] body Loop [While|Until c]
DoCode(s, base) ==
    LET start == base + 1
        pre  == IF s.pre = "none" THEN <<>>
                ELSE Test(s.pre, s.e, base) \o <<Jump("JumpIfFalse", Mark.Do)>>
        body == pre \o BlockCode(s.body, base + Len(pre))
        post == IF s.post = "none" THEN <<Jump("Jump", start)>>
                ELSE Test(s.post, s.e, base + Len(body))
                         \o <<Jump("JumpIfFalse", Mark.Do), Jump("Jump", start)>>
        code == body \o post
    IN  Patched(code, Mark.Do, After(base, code))

Temp(name, s) == "__" \o name \o "_" \o ToString(s.n)

StepCode(step) == IF step >= 0 THEN <<Constant(Integer(step))>>
                  ELSE <<Constant(Integer(-step)), Op("Neg")>>

Compare(x, y, op) == <<Slot("GetGlobal", x), Slot("GetGlobal", y), Op(op)>>

\* Step 1 and -1: one test before the loop, and one instruction that steps,
\* tests and jumps. A loop without statements between two integer literals
\* is replaced by the value it leaves in its variable.
UnitForCode(s, base, fromCode, toCode) ==
    LET y == Temp("for_end", s)
        head == Compare(s.x, y, IF s.step = 1 THEN "Lte" ELSE "Gte")
        bodyStart == base + Len(head) + 1
        body == BlockCode(s.body, bodyStart)
        code == head \o <<Jump("JumpIfFalse", Mark.For)>> \o body
                     \o <<ForNext(s.x, y, s.step, bodyStart + 1)>>
        IsConstInt(c) == Len(c) = 1 /\ c[1].op = "Constant" /\ c[1].v.Type = "Integer"
        dead == /\ \A p \in DOMAIN body : body[p].op \in {"Line", "Nop"}
                /\ IsConstInt(fromCode) /\ IsConstInt(toCode)
        a == fromCode[1].v.Num
        b == toCode[1].v.Num
        runs == IF s.step = 1 THEN a <= b ELSE a >= b
    IN  IF dead THEN <<Constant(Integer(IF runs THEN b + s.step ELSE a)), Slot("LetGlobal", s.x)>>
        ELSE Patched(code, Mark.For, After(base, code))

\* Any other step: the direction is tested in every round.
AnyForCode(s, base) ==
    LET y == Temp("for_end", s)
        z == Temp("for_step", s)
        down == base + 9      \* the test of a loop that counts down
        start == base + 13    \* the first instruction of the body
        head == <<Slot("GetGlobal", z), Constant(Integer(0)), Op("Gte"), Jump("JumpIfFalse", down + 1)>>
                \o Compare(s.x, y, "Lte") \o <<Jump("JumpIfFalse", Mark.For), Jump("Jump", start + 1)>>
                \o Compare(s.x, y, "Gte") \o <<Jump("JumpIfFalse", Mark.For)>>
        body == BlockCode(s.body, start)
        next == <<Slot("GetGlobal", s.x), Slot("GetGlobal", z), Op("Add"), Slot("SetGlobal", s.x)>>
        code == head \o body \o next \o <<Jump("Jump", base + 1)>>
    IN  Patched(code, Mark.For, After(base, code))

ForCode(s, base) ==
    LET fromCode == ExpressionCode(s.from, base)
        toCode == ExpressionCode(s.to, base + Len(fromCode) + 1)
        set == Append(fromCode, Slot("SetGlobal", s.x))
               \o Append(toCode, Slot("SetGlobal", Temp("for_end", s)))
               \o Append(StepCode(s.step), Slot("SetGlobal", Temp("for_step", s)))
    IN  set \o (IF s.step \in {1, -1} THEN UnitForCode(s, base + Len(set), fromCode, toCode)
                ELSE AnyForCode(s, base + Len(set)))

\* One clause of a Case, over the value kept in slot x.
ClauseCode(c, x, base) ==
    LET l == ExpressionCode(c.l, base + 1)
        r == ExpressionCode(c.r, base + Len(l) + 3)
    IN  IF c.op = "To"
        THEN <<Slot("GetGlobal", x)>> \o l \o <<Op("Gte"), Slot("GetGlobal", x)>> \o r
                 \o <<Op("Lte"), Op("And")>>
        ELSE <<Slot("GetGlobal", x)>> \o l \o <<Op(c.op)>>

ClausesCode(cs, x, base) ==
    FoldLeftDomain(LAMBDA code, i : code \o ClauseCode(cs[i], x, base + Len(code))
                                         \o (IF i > 1 THEN <<Op("Or")>> ELSE <<>>), <<>>, cs)

CasesCode(cs, els, x, base) ==
    IF cs = <<>> THEN IF els = <<>> THEN <<>> ELSE Append(BlockCode(els[1], base), Jump("Jump", Mark.Select))
    ELSE LET test == ClausesCode(Head(cs)[1], x, base)
             body == BlockCode(Head(cs)[2], base + Len(test) + 1)
             next == base + Len(test) + Len(body) + 2
         IN  test \o <<Jump("JumpIfFalse", next + 1)>> \o body \o <<Jump("Jump", Mark.Select)>>
                  \o CasesCode(Tail(cs), els, x, next)

SelectCode(s, base) ==
    LET x == Temp("select_value", s)
        set == Append(ExpressionCode(s.e, base), Slot("SetGlobal", x))
        code == set \o CasesCode(s.cases, s.els, x, base + Len(set))
    IN  Patched(code, Mark.Select, After(base, code))

StatementCode(s, base) ==
    <<Count("Line", s.n)>> \o
    CASE s.k = "Let"    -> LetCode(s, base + 1)
      [] s.k = "Write"  -> WriteCode(s, base + 1)
      [] s.k = "Show"   -> Append(ExpressionCode(s.e, base + 1), Op("Write"))
      [] s.k = "If"     -> IfCode(s, base + 1)
      [] s.k = "Do"     -> DoCode(s, base + 1)
      [] s.k = "For"    -> ForCode(s, base + 1)
      [] s.k = "Select" -> SelectCode(s, base + 1)
      [] s.k = "Exit"   -> <<Jump("Jump", Mark[s.loop])>>

\* The bytecode of a page, before it is optimized.
Compile(program) == Append(BlockCode(program, 0), Op("Halt"))
=============================================================================
