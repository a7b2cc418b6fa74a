------------------------------ MODULE VBScript ------------------------------
(***************************************************************************)
(* The statements of a VBScript page at the top level, and what a page     *)
(* means: the reference the compiled and the optimized page are compared   *)
(* with. It evaluates the syntax tree, so it has no jumps, no stack and no *)
(* instruction, and takes from Values only what one operator does to two   *)
(* values. Pages are assumed to end.                                       *)
(***************************************************************************)
EXTENDS Values

(***************************************************************************)
(* Syntax.                                                                 *)
(***************************************************************************)
Lit(v)        == [k |-> "Lit", v |-> v]
Var(x)        == [k |-> "Var", x |-> x]
Un(op, l)     == [k |-> op, l |-> l]        \* Neg, Not
Bin(op, l, r) == [k |-> op, l |-> l, r |-> r]  \* BinaryOp's, AndAlso, OrElse

\* Every statement carries its line.
Let(n, x, e)      == [k |-> "Let", n |-> n, x |-> x, e |-> e]
Write(n, es)      == [k |-> "Write", n |-> n, es |-> es]  \* Response.Write e1 & e2 & ...
Show(n, e)        == [k |-> "Show", n |-> n, e |-> e]     \* <%= e %>
\* branches is a sequence of pairs (condition, block); els has no block or one.
IfBlock(n, branches, els) == [k |-> "If", n |-> n, branches |-> branches, els |-> els]
\* pre and post are "none", "while" or "until"; at most one is not "none".
DoLoop(n, pre, post, e, body) ==
    [k |-> "Do", n |-> n, pre |-> pre, post |-> post, e |-> e, body |-> body]
ForLoop(n, x, from, to, step, body) ==
    [k |-> "For", n |-> n, x |-> x, from |-> from, to |-> to, step |-> step, body |-> body]
\* cases is a sequence of pairs (clauses, block); els has no block or one.
SelectCase(n, e, cases, els) ==
    [k |-> "Select", n |-> n, e |-> e, cases |-> cases, els |-> els]
Clause(op, l)  == [op |-> op, l |-> l, r |-> l]        \* Case Is op l; Case l is "Eq"
Between(l, r)  == [op |-> "To", l |-> l, r |-> r]      \* Case l To r
ExitLoop(n, loop) == [k |-> "Exit", n |-> n, loop |-> loop]  \* loop is "For" or "Do"

(***************************************************************************)
(* The value of an expression: Raise if an operator in it raises.          *)
(***************************************************************************)
Global(env, x) == IF x \in DOMAIN env THEN env[x] ELSE Empty
Assign(env, x, v) == [y \in DOMAIN env \cup {x} |-> IF y = x THEN v ELSE env[y]]

RECURSIVE Eval(_, _)
Eval(e, env) ==
    CASE e.k = "Lit" -> e.v
      [] e.k = "Var" -> Global(env, e.x)
      [] e.k \in {"Neg", "Not"} ->
             LET v == Eval(e.l, env) IN IF v = Raise THEN Raise ELSE UnaryOp(e.k, v)
      [] OTHER ->
             LET a == Eval(e.l, env)
                 b == Eval(e.r, env)
             IN  CASE a = Raise -> Raise
                   [] e.k = "AndAlso" /\ ~isTruthy(a) -> Bool(FALSE)
                   [] e.k = "OrElse" /\ isTruthy(a) -> Bool(TRUE)
                   [] b = Raise -> Raise
                   [] e.k \in {"AndAlso", "OrElse"} -> Bool(isTruthy(b))
                   [] OTHER -> BinaryOp(e.k, a, b)

(***************************************************************************)
(* The effect of a block. status is "ok", "error", or the kind of loop     *)
(* being left.                                                             *)
(***************************************************************************)
Start == [env |-> <<>>, out |-> <<>>, line |-> 0, status |-> "ok"]

Failed(st) == [st EXCEPT !.status = "error"]
\* The loop ends here if its body was left for another reason than its end.
Left(st, loop) == IF st.status = loop THEN [st EXCEPT !.status = "ok"] ELSE st

ClauseHolds(c, sel, env) ==
    LET l == Eval(c.l, env)
        r == Eval(c.r, env)
    IN  CASE Raise \in {l, r} -> Raise
          [] c.op = "To" -> logicalAnd(BinaryOp("Gte", sel, l), BinaryOp("Lte", sel, r))
          [] OTHER -> BinaryOp(c.op, sel, l)

\* All clauses of a Case are evaluated.
AnyClause(cs, sel, env) ==
    LET v == [i \in DOMAIN cs |-> ClauseHolds(cs[i], sel, env)]
    IN  IF \E i \in DOMAIN cs : v[i] = Raise THEN Raise
        ELSE FoldLeft(logicalOr, v[1], Tail(v))

RECURSIVE Block(_, _), Statement(_, _), Branches(_, _, _), Looping(_, _), Counting(_, _, _), Cases(_, _, _, _)

Block(ss, st) ==
    IF ss = <<>> \/ st.status # "ok" THEN st
    ELSE Block(Tail(ss), Statement(Head(ss), [st EXCEPT !.line = Head(ss).n]))

Statement(s, st) ==
    CASE s.k = "Let" ->
             LET v == Eval(s.e, st.env)
             IN  IF v = Raise THEN Failed(st) ELSE [st EXCEPT !.env = Assign(@, s.x, v)]
      [] s.k = "Write" ->
             LET vs == [i \in DOMAIN s.es |-> Eval(s.es[i], st.env)]
             IN  IF \E i \in DOMAIN vs : vs[i] = Raise THEN Failed(st)
                 ELSE [st EXCEPT !.out = FoldLeft(LAMBDA o, v : o \o valueToString(v), @, vs)]
      [] s.k = "Show" -> Statement(Write(s.n, <<s.e>>), st)
      [] s.k = "If" -> Branches(s.branches, s.els, st)
      [] s.k = "Do" ->
             IF s.pre # "none" THEN Left(Looping(s, st), "Do")
             ELSE LET after == Block(s.body, st)
                  IN  Left(IF after.status = "ok" THEN Looping(s, after) ELSE after, "Do")
      [] s.k = "For" ->
             LET a == Eval(s.from, st.env)
                 begun == [st EXCEPT !.env = Assign(@, s.x, a)]
                 b == Eval(s.to, begun.env)
             IN  CASE a = Raise -> Failed(st)
                   [] b = Raise -> Failed(begun)
                   [] OTHER -> Left(Counting(s, b, begun), "For")
      [] s.k = "Select" ->
             LET v == Eval(s.e, st.env)
             IN  IF v = Raise THEN Failed(st) ELSE Cases(s.cases, s.els, v, st)
      [] s.k = "Exit" -> [st EXCEPT !.status = s.loop]

Branches(bs, els, st) ==
    IF bs = <<>> THEN IF els = <<>> THEN st ELSE Block(els[1], st)
    ELSE LET c == Eval(Head(bs)[1], st.env)
         IN  CASE c = Raise -> Failed(st)
               [] isTruthy(c) -> Block(Head(bs)[2], st)
               [] OTHER -> Branches(Tail(bs), els, st)

\* The test of a Do loop and the rounds after it.
Looping(s, st) ==
    LET c == IF s.pre = "none" /\ s.post = "none" THEN Bool(TRUE) ELSE Eval(s.e, st.env)
        test == IF "until" \in {s.pre, s.post} /\ c # Raise THEN logicalNot(c) ELSE c
    IN  CASE test = Raise -> Failed(st)
          [] ~isTruthy(test) -> st
          [] OTHER -> LET after == Block(s.body, st)
                      IN  IF after.status = "ok" THEN Looping(s, after) ELSE after

\* The test of a For loop and the rounds after it.
Counting(s, limit, st) ==
    LET i == Global(st.env, s.x)
        within == BinaryOp(IF s.step >= 0 THEN "Lte" ELSE "Gte", i, limit)
        after == Block(s.body, st)
        next == addValues(Global(after.env, s.x), Integer(s.step))
    IN  CASE ~isTruthy(within) -> st
          [] after.status # "ok" -> after
          [] next = Raise -> Failed(after)
          [] OTHER -> Counting(s, limit, [after EXCEPT !.env = Assign(@, s.x, next)])

Cases(cs, els, sel, st) ==
    IF cs = <<>> THEN IF els = <<>> THEN st ELSE Block(els[1], st)
    ELSE LET c == AnyClause(Head(cs)[1], sel, st.env)
         IN  CASE c = Raise -> Failed(st)
               [] isTruthy(c) -> Block(Head(cs)[2], st)
               [] OTHER -> Cases(Tail(cs), els, sel, st)

(***************************************************************************)
(* What can be seen of a run: how it ended (an error with its line), what  *)
(* was written and what the variables hold.                                *)
(***************************************************************************)
Seen(variables, r) ==
    [status |-> r.status,
     line   |-> IF r.status = "error" THEN r.line ELSE 0,
     out    |-> r.out,
     vars   |-> [x \in variables |-> Global(r.env, x)]]

Meaning(variables, program) == Seen(variables, Block(program, Start))
=============================================================================
