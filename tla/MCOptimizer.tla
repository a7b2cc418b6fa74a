---------------------------- MODULE MCOptimizer -----------------------------
(***************************************************************************)
(* TLC instances of Optimizer: families of pages. The pages of MCPages     *)
(* have none of the shapes the code compiles to something else:            *)
(*   - AndAlso is not the whole condition of an If or a loop,              *)
(*   - < and > decide a jump over integers, Booleans and Null only,        *)
(*   - the bounds of a For loop are integers,                              *)
(*   - a variable that is incremented holds an integer,                    *)
(*   - the dividend of \ is not negative where it is a known integer,      *)
(*   - no number is beyond FloatLimit,                                      *)
(*   - no + joins strings above two known integers on the stack.           *)
(***************************************************************************)
EXTENDS PageCompilation

MCVariables == {"x", "y"}

I(n) == Lit(Integer(n))
S(c) == Lit(String(<<c>>))
True == Lit(Bool(TRUE))
False == Lit(Bool(FALSE))
X == Var("x")
Y == Var("y")

(***************************************************************************)
(* Expressions: constants that fold, integers that are known, strings and  *)
(* Null among them, and operators that raise.                              *)
(***************************************************************************)
Nested(op1, op2, a, b, c) == Bin(op1, a, Bin(op2, b, c))
LeftNested(op1, op2, a, b, c) == Bin(op2, Bin(op1, a, b), c)

Arithmetic ==
    {<<Let(1, "x", I(5)), Let(2, "y", Nested(op1, op2, a, b, c)), Write(3, <<Y, I(1), I(2)>>)>> :
        op1, op2 \in {"Add", "Sub", "Mul", "IDiv", "Mod"}, a, b \in {I(4), X}, c \in {I(0), I(4), X}}

Typed ==
    {<<Let(1, "y", LeftNested(op1, op2, a, b, c)), Show(2, Y), Let(3, "x", Bin("Mul", I(2), I(3)))>> :
        op1, op2 \in {"Add", "Concat"},
        a, b \in {I(2), S(97), Lit(Null)}, c \in {I(2), S(97), S(51), Lit(Null), Lit(Empty), True}}

(***************************************************************************)
(* Conditions, constant and not.                                           *)
(***************************************************************************)
Conditions ==
    {Lit(Empty), Lit(Null), False, I(0), Lit(String(<<>>)), True, S(48), Un("Not", True),
     Bin("Sub", I(1), I(1)), Bin("Eq", X, I(1)), Bin("Neq", X, I(1)), Bin("Lt", X, I(1)),
     Bin("Gt", X, I(0)), Bin("Gte", X, I(1)), Bin("OrElse", False, Bin("Eq", X, I(1))),
     Un("Not", Bin("AndAlso", Bin("Gt", X, I(0)), True)),
     Bin("Or", Bin("Eq", X, I(0)), Bin("Eq", X, I(1)))}

Branching ==
    {<<Let(1, "x", v),
       IfBlock(2, <<<<c1, <<Write(3, <<X, S(97)>>)>>>>, <<c2, <<Let(4, "x", I(7))>>>>>>, els),
       Let(6, "y", Bin("Add", X, I(2)))>> :
        v \in {I(1), Lit(Null)}, c1 \in Conditions,
        c2 \in {False, True, Bin("Eq", X, I(1)), Bin("Lt", X, I(1)), Bin("Gte", X, I(1))}, els \in {<<>>, <<<<Show(5, S(98))>>>>}}

\* Two ways to the same place, with different values in x.
Joining ==
    {<<Let(1, "x", I(5)), IfBlock(2, <<<<c, <<Let(3, "x", v)>>>>>>, els), Let(5, "y", Bin(op, X, I(4))), Show(6, Y)>> :
        c \in {False, True, Bin("Eq", Y, I(0)), Bin("Neq", X, I(5))},
        v \in {S(97), Lit(Null), S(52), Un("Neg", I(9))}, els \in {<<>>, <<<<Let(4, "y", X)>>>>},
        op \in {"Add", "Sub", "Mul", "IDiv"}}

Valued ==
    {<<Let(1, "x", a), Let(2, "y", Bin(op, b, Bin("Eq", X, I(1)))), Write(3, <<Y, S(33)>>),
       IfBlock(4, <<<<Y, <<Write(5, <<S(97)>>)>>>>>>, <<>>)>> :
        a \in {I(0), I(1)}, op \in {"AndAlso", "OrElse", "And", "Or"},
        b \in {True, False, Bin("Lt", X, I(1)), Lit(Null)}}

(***************************************************************************)
(* Loops.                                                                  *)
(***************************************************************************)
Increment(n, x) == Let(n, x, Bin("Add", Var(x), I(1)))

ForBodies ==
    {<<>>,
     <<Write(2, <<X, S(44)>>)>>,
     <<Increment(2, "x"), Show(3, X)>>,
     <<IfBlock(2, <<<<Bin("Gt", X, I(1)), <<ExitLoop(3, "For")>>>>>>, <<>>), Let(4, "y", Bin("Mul", X, X))>>,
     <<IfBlock(2, <<<<False, <<ForLoop(3, "y", I(1), I(2), 1, <<Show(4, Y)>>)>>>>>>, <<<<Show(5, X)>>>>)>>,
     <<ForLoop(2, "y", X, I(2), 1, <<IfBlock(3, <<<<Bin("Eq", Y, I(2)), <<ExitLoop(4, "For")>>>>>>, <<>>),
                                     Write(5, <<X, Y>>)>>)>>,
     <<Let(2, "y", Bin("IDiv", I(4), Bin("Sub", I(2), X)))>>,
     <<DoLoop(2, "none", "none", True, <<IfBlock(3, <<<<True, <<ExitLoop(4, "For")>>>>>>, <<>>)>>)>>}

Counted ==
    {<<ForLoop(1, "x", a, b, step, body), Let(6, "y", Bin("Add", X, I(1))), Show(7, Y)>> :
        a \in {I(0), I(1), I(3)}, b \in {I(1), I(3), Un("Neg", I(1))}, step \in {1, -1, 2, -2},
        body \in ForBodies \ {<<Increment(2, "x"), Show(3, X)>>}}
    \cup {<<ForLoop(1, "x", a, b, step, <<Increment(2, "x"), Show(3, X)>>)>> :
        a \in {I(0), I(1)}, b \in {I(1), I(3)}, step \in {1, 2}}

DoBodies ==
    {<<Increment(3, "x")>>,
     <<Increment(3, "x"), IfBlock(4, <<<<Bin("Eq", X, I(2)), <<ExitLoop(5, "Do")>>>>>>, <<>>), Show(6, X)>>,
     <<Let(3, "y", Bin("Add", X, I(3))), Let(4, "x", Bin("Add", X, I(2))),
       IfBlock(5, <<<<I(0), <<ExitLoop(6, "Do")>>>>>>, <<>>)>>,
     <<ForLoop(3, "y", I(1), I(3), 1, <<ExitLoop(4, "Do")>>)>>}

Conditional ==
    {<<Let(1, "x", a), DoLoop(2, mode[1], mode[2], c, body), Write(8, <<X, Y>>)>> :
        a \in {I(0), I(4)}, mode \in {<<"while", "none">>, <<"none", "while">>},
        c \in {Bin("Lt", X, I(3)), False, Lit(Null), Bin("Gt", I(3), X)}, body \in DoBodies}
    \cup {<<Let(1, "x", a), DoLoop(2, mode[1], mode[2], c, body), Write(8, <<X, Y>>)>> :
        a \in {I(0), I(4)}, mode \in {<<"until", "none">>, <<"none", "until">>},
        c \in {Bin("Gt", X, I(3)), True, Bin("Gte", X, I(2))}, body \in DoBodies}

(***************************************************************************)
(* Select Case.                                                            *)
(***************************************************************************)
Clauses == {Clause("Eq", I(1)), Clause("Eq", S(97)), Clause("Eq", Lit(Null)), Clause("Gt", I(2)),
            Between(I(0), I(1)), Clause("Neq", Bin("IDiv", I(1), Bin("Sub", X, I(3))))}

Selecting ==
    {<<Let(1, "x", v),
       SelectCase(2, X, <<<<cs, <<Show(3, S(97))>>>>, <<<<c>>, <<Let(4, "y", X)>>>>>>, els), Show(6, Y)>> :
        v \in {I(0), I(1), I(3)}, cs \in {<<c1>> : c1 \in Clauses} \cup {<<c1, c2>> : c1, c2 \in Clauses},
        c \in {Clause("Eq", I(0)), Clause("Eq", I(1))}, els \in {<<>>, <<<<Show(5, S(98))>>>>}}

MCPages == Arithmetic \cup Typed \cup Branching \cup Joining \cup Valued \cup Counted \cup Conditional \cup Selecting

(***************************************************************************)
(* A condition with AndAlso.                                               *)
(***************************************************************************)
MCAndAlso ==
    {<<Let(1, "x", v), IfBlock(2, <<<<Bin("AndAlso", Bin("Gt", X, I(0)), True), <<Write(3, <<S(97)>>)>>>>>>, <<>>)>> :
        v \in {I(0), I(1)}}

\* Sums beyond what a float64 holds exactly: of constants, and of a variable
\* known to be an integer.
MCWide ==
    {<<Write(1, <<Bin("Add", I(FloatLimit), I(1))>>)>>,
     <<Let(1, "x", I(FloatLimit)), Let(2, "y", Bin("Add", X, I(1)))>>}

\* A limit that is text.
MCForLimit == {<<ForLoop(1, "x", I(1), S(51), 1, <<Write(2, <<X>>)>>)>>}
=============================================================================
