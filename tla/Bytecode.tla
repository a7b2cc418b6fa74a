------------------------------ MODULE Bytecode ------------------------------
(***************************************************************************)
(* The instructions of the VM that a page without procedures or objects    *)
(* uses, and their effect (axonvm/vm.go, the loop of Run).                 *)
(*                                                                         *)
(* A program is a sequence of instructions and an address is an index of   *)
(* it: bytes and operand widths are left out, and a constant is held by    *)
(* the instruction that loads it. An instruction the optimizer blanked is  *)
(* a Nop, so that addresses never move.                                    *)
(***************************************************************************)
EXTENDS Values

CONSTANTS
    Interval, \* BOUND: instructions between two looks at the clock (1024 in the code)
    Slices    \* BOUND: how often the clock is looked at before the script has timed out

ASSUME BoundsAssumption == Interval \in Nat /\ Slices \in Nat

Op(o)           == [op |-> o]
Constant(v)     == [op |-> "Constant", v |-> v]
ConstantN(vs)   == [op |-> "ConstantN", vs |-> vs]  \* Constant2, 3 and 4
Slot(o, x)      == [op |-> o, x |-> x]
Jump(o, to)     == [op |-> o, to |-> to]
Count(o, n)     == [op |-> o, n |-> n]
ForNext(x, y, step, to) == [op |-> "ForNextFastGlobalInt", x |-> x, y |-> y, step |-> step, to |-> to]
Nop             == Op("Nop")

BinaryOps == {"Add", "Sub", "Mul", "IDiv", "Mod", "Concat", "Eq", "Neq", "Lt", "Gt", "Lte", "Gte", "And", "Or"}
IntegerOps == {"IAdd", "ISub", "IMul", "IRightShift"}
CompareJumps == {"JumpIfNotEq", "JumpIfEq", "JumpIfNotLt", "JumpIfLte"}

\* How many values an instruction takes off the stack.
Operands(i) ==
    CASE i.op \in BinaryOps \cup IntegerOps \cup CompareJumps -> 2
      [] i.op \in {"Neg", "Not", "SetGlobal", "LetGlobal", "JumpIfFalse", "JumpIfTrue", "Write", "CoerceToValue"} -> 1
      [] i.op = "WriteN" -> i.n
      [] OTHER -> 0

(***************************************************************************)
(* The machine.                                                            *)
(***************************************************************************)
Loaded == [ip |-> 1, stack |-> <<>>, env |-> <<>>, out |-> <<>>, line |-> 0, status |-> "running"]

GlobalOf(s, x) == IF x \in DOMAIN s.env THEN s.env[x] ELSE Empty
Store(s, x, v) == [s EXCEPT !.env = (x :> v) @@ @]

\* The integer opcodes coerce their operands and never raise. No float is
\* involved.
IntegerOp(op, a, b) ==
    CASE op = "IAdd" -> Integer(Wrapped(a + b))
      [] op = "ISub" -> Integer(Wrapped(a - b))
      [] op = "IMul" -> Integer(Wrapped(a * b))
      [] op = "IRightShift" -> Integer(IF b <= 0 THEN a ELSE a \div 2^b)

\* A comparison with Null jumps as a false condition does.
JumpTaken(op, a, b) ==
    CASE op = "JumpIfNotEq" -> EitherNull(a, b) \/ compareValues(a, b) # 0
      [] op = "JumpIfEq"    -> EitherNull(a, b) \/ compareValues(a, b) = 0
      [] op = "JumpIfNotLt" -> EitherNull(a, b) \/ ~(asFloat(a) < asFloat(b))
      [] op = "JumpIfLte"   -> EitherNull(a, b) \/ asFloat(a) <= asFloat(b)

Result(s, v) == IF v = Raise THEN [s EXCEPT !.status = "error"] ELSE [s EXCEPT !.stack = Append(@, v)]
StoreResult(s, x, v) == IF v = Raise THEN [s EXCEPT !.status = "error"] ELSE Store(s, x, v)
JumpWhen(s, i, taken) == IF taken THEN [s EXCEPT !.ip = i.to] ELSE s

IsInteger(v) == v.Type = "Integer"
Incremented(v) == IF IsInteger(v) THEN Integer(Wrapped(v.Num + 1)) ELSE addValues(v, Integer(1))

\* The loop variable takes its step. Only two integers are counted and
\* compared as integers; else + adds and asFloat compares.
ForNextStep(s, i) ==
    LET x == GlobalOf(s, i.x)
        y == GlobalOf(s, i.y)
        exact == IsInteger(x) /\ IsInteger(y)
        v == CASE i.step < 0 -> subtractValues(x, Integer(1))
               [] i.step > 0 /\ exact -> Incremented(x)
               [] OTHER -> addValues(x, Integer(1))
        after == StoreResult(s, i.x, v)
        Read(w) == IF exact THEN w.Num ELSE asFloat(w)
    IN  IF v = Raise THEN after
        ELSE JumpWhen(after, i, IF i.step > 0 THEN Read(v) <= Read(y) ELSE Read(v) >= Read(y))

Written(out, vs) == FoldLeft(LAMBDA o, v : o \o valueToString(v), out, vs)

\* The effect of instruction i; s is past it, without the operands args.
Effect(i, args, s) ==
    CASE i.op = "Halt" -> [s EXCEPT !.status = "ok"]
      [] i.op = "Nop"  -> s
      [] i.op = "Line" -> [s EXCEPT !.line = i.n]
      [] i.op = "Constant"  -> Result(s, i.v)
      [] i.op = "ConstantN" -> [s EXCEPT !.stack = @ \o i.vs]
      [] i.op = "GetGlobal" -> Result(s, GlobalOf(s, i.x))
      [] i.op = "CoerceToValue" -> Result(s, args[1])
      [] i.op \in {"SetGlobal", "LetGlobal"} -> Store(s, i.x, args[1])
      [] i.op = "IncGlobalInt" -> StoreResult(s, i.x, Incremented(GlobalOf(s, i.x)))
      [] i.op = "DecGlobalInt" -> StoreResult(s, i.x, subtractValues(GlobalOf(s, i.x), Integer(1)))
      [] i.op = "ForNextFastGlobalInt" -> ForNextStep(s, i)
      [] i.op \in BinaryOps  -> Result(s, BinaryOp(i.op, args[1], args[2]))
      [] i.op \in IntegerOps -> Result(s, IntegerOp(i.op, coerceInt64(args[1]), coerceInt64(args[2])))
      [] i.op \in {"Neg", "Not"} -> Result(s, UnaryOp(i.op, args[1]))
      [] i.op = "Jump"        -> JumpWhen(s, i, TRUE)
      [] i.op = "JumpIfFalse" -> JumpWhen(s, i, ~isTruthy(args[1]))
      [] i.op = "JumpIfTrue"  -> JumpWhen(s, i, isTruthy(args[1]))
      [] i.op \in CompareJumps -> JumpWhen(s, i, JumpTaken(i.op, args[1], args[2]))
      [] i.op \in {"Write", "WriteN"} -> [s EXCEPT !.out = Written(@, args)]

\* One turn of the loop. Taking a value off an empty stack is a Go panic.
Turn(code, s) ==
    IF s.ip > Len(code) THEN [s EXCEPT !.status = "ok"]
    ELSE LET i == code[s.ip]
             rest == Len(s.stack) - Operands(i)
         IN  IF rest < 0 THEN [s EXCEPT !.status = "panic"]
             ELSE Effect(i, SubSeq(s.stack, rest + 1, Len(s.stack)),
                         [s EXCEPT !.ip = @ + 1, !.stack = SubSeq(@, 1, rest)])

\* The loop with n turns: turn i makes Step(i, a) of what the last one left.
Repeat(Step(_, _), n, a) ==
    LET at[i \in 0 .. n] == IF i = 0 THEN a ELSE Step(i, at[i - 1]) IN at[n]

\* The turns between two looks at the clock. A run that has ended stays as
\* it is.
Slice(code, s) ==
    Repeat(LAMBDA i, r : IF r.status = "running" THEN Turn(code, r) ELSE r, Interval, s)

Executed(code) ==
    Repeat(LAMBDA i, r : IF r.status = "running" THEN Slice(code, r) ELSE r, Slices, Loaded)

Run(code) == LET s == Executed(code)
             IN  IF s.status = "running" THEN [s EXCEPT !.status = "timeout"] ELSE s
=============================================================================
