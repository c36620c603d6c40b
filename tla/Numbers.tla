------------------------------- MODULE Numbers -------------------------------
(***************************************************************************)
(* What the numeric primitives promise to a program                        *)
(* (primitives-numeric.c): integers without bounds.  A program keeps       *)
(* integers in variables, applies a primitive to one or two of them, and   *)
(* keeps the result in a variable.  How an integer is stored, what it      *)
(* shares with others, and when the collector runs does not show.          *)
(***************************************************************************)
EXTENDS Integers
LOCAL INSTANCE Bitwise

CONSTANTS Global,    \* the variables of the program
          Operands,  \* the integers a program starts with and computes with
          Ops,       \* the primitives it uses
          MaxLength  \* the length of the longest vector

VARIABLES numbers,   \* the integer in each variable
          last       \* the last operation, its operands and its result

\* Two's complement, wide enough for the operands and one bit more.
Wide == 2 ^ 10
Unsigned(v) == v % Wide
Signed(u) == IF u >= Wide \div 2 THEN u - Wide ELSE u

\* The operations that give an integer, each with the operands for which it does so.
\* (bitwise-ior ends with the digits of x, and bitwise-xor with a negative x.)
Meant(op, x, y) ==
  /\ op \in {"mul_non_neg", "div_non_neg", "rem_non_neg"} => x >= 0
  /\ op \in {"div_non_neg", "rem_non_neg"} => y > 0
  /\ op = "bitwise_ior" => x < 0 \/ y \in 0 .. x
  /\ op = "bitwise_xor" => x >= 0
  /\ op = "vector_length" => x \in 0 .. MaxLength

Apply(op, x, y) ==
  CASE op = "add"         -> x + y
    [] op = "sub"         -> x - y
    [] op = "mul_non_neg" -> x * y
    [] op = "div_non_neg" -> x \div y
    [] op = "rem_non_neg" -> x % y
    [] op = "bitwise_ior" -> Signed(Unsigned(x) | Unsigned(y))
    [] op = "bitwise_and" -> Signed(Unsigned(x) & Unsigned(y))
    [] op = "bitwise_xor" -> Signed(Unsigned(x) ^^ Unsigned(y))
    [] op = "bitwise_not" -> -x - 1
    [] op = "vector_length" -> x

Holds(op, x, y) == CASE op = "equal" -> x = y [] op = "lt" -> x < y [] op = "gt" -> x > y

\* Those whose result decides a branch.
Questions == {"equal", "lt", "gt"}
Answer(op, x, y) == IF Holds(op, x, y) THEN 1 ELSE 0

NInit ==
  /\ numbers \in [Global -> Operands]
  /\ last = [op |-> "none", x |-> 0, y |-> 0, result |-> 0]

Compute ==
  \E op \in Ops \ Questions : \E i, j, k \in Global :
    LET x == numbers[i]
        y == numbers[j]
    IN /\ Meant(op, x, y)
       /\ numbers' = [numbers EXCEPT ![k] = Apply(op, x, y)]
       /\ last' = [op |-> op, x |-> x, y |-> y, result |-> Apply(op, x, y)]

Ask ==
  \E op \in Ops \cap Questions : \E i, j \in Global :
    /\ last' = [op |-> op, x |-> numbers[i], y |-> numbers[j], result |-> Answer(op, numbers[i], numbers[j])]
    /\ numbers' = numbers

NSpec == NInit /\ [][Compute \/ Ask]_<<numbers, last>>
=============================================================================
