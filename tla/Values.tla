------------------------------- MODULE Values -------------------------------
(***************************************************************************)
(* The values of a VBScript page and the operators on them                 *)
(* (axonvm/vm_value_ops.go): Empty, Null, Boolean, Integer and String. A   *)
(* string is the sequence of its character codes. Doubles, dates, arrays   *)
(* and objects are left out, and with them / and ^. And and Or, bitwise    *)
(* on numbers, are defined on Booleans and Null. A numeral is assumed to   *)
(* fit an int64.                                                           *)
(*                                                                         *)
(* An operator that raises a runtime error returns Raise.                  *)
(***************************************************************************)
EXTENDS Integers, Sequences, SequencesExt

CONSTANTS
    IntLimit,   \* BOUND: int64s are -IntLimit .. IntLimit - 1 (2^63 in the code)
    FloatLimit, \* BOUND: up to here a float64 holds every integer (2^53 in the code)
    Saturates   \* a float beyond int64 converts to the nearest int64 (arm64), or to the least (amd64)

ASSUME NumbersAssumption ==
    /\ IntLimit \in Nat /\ FloatLimit \in Nat
    /\ 0 < FloatLimit /\ FloatLimit < IntLimit
    /\ Saturates \in BOOLEAN

\* The Go struct Value: its type, and the field that type uses.
Value(t, num, str) == [Type |-> t, Num |-> num, Str |-> str]
Integer(n) == Value("Integer", n, <<>>)
String(s)  == Value("String", 0, s)
Bool(b)    == Value("Bool", IF b THEN 1 ELSE 0, <<>>)
Empty      == Value("Empty", 0, <<>>)
Null       == Value("Null", 0, <<>>)
Raise      == Value("Raise", 0, <<>>)

IsNull(a)   == a.Type = "Null"
IsString(a) == a.Type = "String"
EitherNull(a, b) == IsNull(a) \/ IsNull(b)

(***************************************************************************)
(* Text of a value and number of a text.                                   *)
(***************************************************************************)
Digits[n \in Nat] == IF n < 10 THEN <<48 + n>> ELSE Append(Digits[n \div 10], 48 + (n % 10))

TrueText  == <<84, 114, 117, 101>>
FalseText == <<70, 97, 108, 115, 101>>
NullText  == <<78, 117, 108, 108>>

valueToString(v) ==
    CASE v.Type = "Empty"   -> <<>>
      [] v.Type = "Null"    -> NullText
      [] v.Type = "Bool"    -> IF v.Num # 0 THEN TrueText ELSE FalseText
      [] v.Type = "Integer" -> IF v.Num < 0 THEN <<45>> \o Digits[-v.Num] ELSE Digits[v.Num]
      [] v.Type = "String"  -> v.Str

\* Only unsigned decimal numbers are told from other texts.
IsNumeric(s) == s # <<>> /\ \A i \in DOMAIN s : s[i] \in 48 .. 57
Parsed(s)    == IF IsNumeric(s) THEN FoldLeft(LAMBDA n, d : 10 * n + (d - 48), 0, s) ELSE 0

coerceInt64(v) == IF IsString(v) THEN Parsed(v.Str) ELSE v.Num
isTruthy(v) == CASE v.Type \in {"Bool", "Integer"} -> v.Num # 0
                 [] v.Type = "String" -> v.Str \notin {<<>>, <<48>>}
                 [] OTHER -> FALSE

(***************************************************************************)
(* Numbers of the machine: int64 wraps around, float64 is rounded.         *)
(***************************************************************************)
Int64 == -IntLimit .. IntLimit - 1
Wrapped(n) == ((n + IntLimit) % (2 * IntLimit)) - IntLimit

\* What lies between two float64s at a: 1, 2 from FloatLimit on, and so on.
Spacings == <<1, 2, 4, 8, 16, 32, 64, 128, 256, 512, 1024, 2048>>
Spacing(a) == Spacings[1 + Cardinality({k \in 1 .. 11 : FloatLimit * Spacings[k] <= a})]

\* The float64 nearest to a, the even one of two.
Nearest(a) ==
    LET s == Spacing(a)
        q == a \div s
        twice == 2 * (a % s)
    IN  s * (IF twice > s \/ (twice = s /\ q % 2 = 1) THEN q + 1 ELSE q)

Float64(n) == IF n \in -FloatLimit .. FloatLimit THEN n
              ELSE IF n > 0 THEN Nearest(n) ELSE -Nearest(-n)

Truncated(f) == IF f \in Int64 THEN f
                ELSE IF Saturates /\ f > 0 THEN IntLimit - 1 ELSE -IntLimit

\* The numeric field as it is: a string counts as 0, whatever it says.
asFloat(v) == Float64(v.Num)

(***************************************************************************)
(* Arithmetic.                                                             *)
(***************************************************************************)
\* Two strings, or a string and Empty, are joined; a string and an integer
\* are added if the string is a number. Integers too are added as floats; -
\* and * stay with integers.
addValues(a, b) ==
    LET types == {a.Type, b.Type}
        numbers == \A v \in {a, b} : IsString(v) => IsNumeric(v.Str)
    IN  CASE EitherNull(a, b) -> Null
          [] "String" \in types /\ types \subseteq {"String", "Empty"} ->
                 String(valueToString(a) \o valueToString(b))
          [] types = {"String", "Integer"} /\ ~numbers -> Raise
          [] types = {"String", "Bool"} -> Raise
          [] OTHER -> Integer(Truncated(Float64(Float64(coerceInt64(a)) + Float64(coerceInt64(b)))))

subtractValues(a, b) == IF EitherNull(a, b) THEN Null ELSE Integer(Wrapped(coerceInt64(a) - coerceInt64(b)))
multiplyValues(a, b) == IF EitherNull(a, b) THEN Null ELSE Integer(Wrapped(coerceInt64(a) * coerceInt64(b)))

\* Division towards zero and its remainder, as Go does them.
Quotient(m, n) == LET q == (IF m < 0 THEN -m ELSE m) \div (IF n < 0 THEN -n ELSE n)
                  IN  IF (m < 0) = (n < 0) THEN q ELSE -q
Remainder(m, n) == m - n * Quotient(m, n)

intDivideValues(a, b) ==
    CASE EitherNull(a, b) -> Null
      [] coerceInt64(b) = 0 -> Raise
      [] OTHER -> Integer(Wrapped(Quotient(coerceInt64(a), coerceInt64(b))))
modValues(a, b) ==
    CASE EitherNull(a, b) -> Null
      [] coerceInt64(b) = 0 -> Raise
      [] OTHER -> Integer(Remainder(coerceInt64(a), coerceInt64(b)))

negValue(v) == CASE IsNull(v) -> Null
                 [] IsString(v) /\ ~IsNumeric(v.Str) -> Raise
                 [] OTHER -> Integer(Wrapped(-coerceInt64(v)))

concatValues(a, b) ==
    LET Text(v) == IF IsNull(v) THEN <<>> ELSE valueToString(v)
    IN  String(Text(a) \o Text(b))

(***************************************************************************)
(* Comparison and logic.                                                   *)
(***************************************************************************)
Sign(n) == IF n < 0 THEN -1 ELSE IF n > 0 THEN 1 ELSE 0

\* Byte by byte; a prefix comes first.
TextOrder(s, t) ==
    LET differ == {i \in DOMAIN s \cap DOMAIN t : s[i] # t[i]}
    IN  IF differ = {} THEN Sign(Len(s) - Len(t)) ELSE Sign(s[Min(differ)] - t[Min(differ)])

compareValues(a, b) ==
    IF IsString(a) \/ IsString(b) THEN TextOrder(valueToString(a), valueToString(b))
    ELSE Sign(asFloat(a) - asFloat(b))

Compared(a, b, Test(_)) == IF EitherNull(a, b) THEN Null ELSE Bool(Test(compareValues(a, b)))

logicalAnd(a, b) ==
    IF EitherNull(a, b) THEN IF Bool(FALSE) \in {a, b} THEN Bool(FALSE) ELSE Null
    ELSE Bool(isTruthy(a) /\ isTruthy(b))
logicalOr(a, b) ==
    IF EitherNull(a, b) THEN IF Bool(TRUE) \in {a, b} THEN Bool(TRUE) ELSE Null
    ELSE Bool(isTruthy(a) \/ isTruthy(b))
logicalNot(v) ==
    CASE IsNull(v) -> Null
      [] v.Type = "Bool" -> Bool(v.Num = 0)
      [] IsString(v) /\ ~IsNumeric(v.Str) -> Raise
      [] OTHER -> Integer(-coerceInt64(v) - 1)

\* What the opcode of a binary operator leaves on the stack.
BinaryOp(op, a, b) ==
    CASE op = "Add"    -> addValues(a, b)
      [] op = "Sub"    -> subtractValues(a, b)
      [] op = "Mul"    -> multiplyValues(a, b)
      [] op = "IDiv"   -> intDivideValues(a, b)
      [] op = "Mod"    -> modValues(a, b)
      [] op = "Concat" -> concatValues(a, b)
      [] op = "Eq"     -> Compared(a, b, LAMBDA c : c = 0)
      [] op = "Neq"    -> Compared(a, b, LAMBDA c : c # 0)
      [] op = "Lt"     -> Compared(a, b, LAMBDA c : c < 0)
      [] op = "Gt"     -> Compared(a, b, LAMBDA c : c > 0)
      [] op = "Lte"    -> Compared(a, b, LAMBDA c : c <= 0)
      [] op = "Gte"    -> Compared(a, b, LAMBDA c : c >= 0)
      [] op = "And"    -> logicalAnd(a, b)
      [] op = "Or"     -> logicalOr(a, b)

UnaryOp(op, v) == IF op = "Neg" THEN negValue(v) ELSE logicalNot(v)
=============================================================================
