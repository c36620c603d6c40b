------------------------------- MODULE Bignum -------------------------------
(***************************************************************************)
(* The integers of the virtual machine (src/main/bignum.c) and the numeric *)
(* primitives on them (src/main/primitives-numeric.c).                     *)
(*                                                                         *)
(* An integer is a small integer, encoded in the pointer, or a list of     *)
(* digits, the lowest first, that ends in a small integer.  Digits lie in  *)
(* RAM cells, or in ROM for the constants of the program.  Lists share     *)
(* their ends, and an operation builds its result digit by digit.          *)
(*                                                                         *)
(* Every digit that is built may call the collector.  Here the collector   *)
(* runs at every one of them, takes every cell that no root leads to, and  *)
(* the lowest cell it has taken is used next: what an operation forgets to *)
(* register is gone at once.  The roots are the five bignum_tmp, the four  *)
(* registers, and the variables of the program.                            *)
(***************************************************************************)
EXTENDS Integers
LOCAL INSTANCE Bitwise

CONSTANTS
  Global, Operands, Ops, \* see Numbers
  HeapEnd,               \* the number of RAM cells
  digit_width,           \* bits of a digit, and of a pointer
  MAX_SMALL_INT_VALUE    \* the largest integer encoded in a pointer

VARIABLES
  vm,     \* cells, registers, the temporaries of bignum.c and a returned value
  glob,   \* the variables of the program
  last    \* history: the last operation, its operands and its result

vars == <<vm, glob, last>>

Base == 2 ^ digit_width
MIN_SMALL_INT_VALUE == -1

-----------------------------------------------------------------------------
(***************************************************************************)
(* The address space: RAM, ROM, small integers, the other constants.  The  *)
(* ROM has a cell for each constant that is no small integer, with the     *)
(* place of its high part.  ENCODE_SMALL_INT is a sum of the width of a    *)
(* digit, so that it wraps for the digit that stands for -1.               *)
(***************************************************************************)
Cell == 0 .. HeapEnd - 1
Least == CHOOSE v \in Operands \cup {0} : \A w \in Operands \cup {0} : v <= w
Greatest == CHOOSE v \in Operands \cup {0} : \A w \in Operands \cup {0} : w <= v
RomCell == HeapEnd .. HeapEnd + Greatest - Least
SMALL_INT_START == HeapEnd + Greatest - Least + 1
ENCODE_SMALL_INT(v) == SMALL_INT_START + ((v + 1) % Base)
SMALL_INT_VALUE(p) == p - SMALL_INT_START - 1
SMALL_INT_MAX == SMALL_INT_START + MAX_SMALL_INT_VALUE + 1
NEG1 == ENCODE_SMALL_INT(-1)
ZERO == ENCODE_SMALL_INT(0)
POS1 == ENCODE_SMALL_INT(1)
NIL == SMALL_INT_MAX + 1

Constant(v) ==
  IF v \in MIN_SMALL_INT_VALUE .. MAX_SMALL_INT_VALUE THEN ENCODE_SMALL_INT(v) ELSE HeapEnd + v - Least
RomValue(p) == p - HeapEnd + Least

integer_hi(m, x) ==
  CASE x \in Cell    -> m.hi[x]
    [] x \in RomCell -> Constant(RomValue(x) \div Base)
    [] x = NEG1      -> NEG1
    [] OTHER         -> ZERO

integer_lo(m, x) ==
  CASE x \in Cell    -> m.lo[x]
    [] x \in RomCell -> RomValue(x) % Base
    [] OTHER         -> SMALL_INT_VALUE(x) % Base

-----------------------------------------------------------------------------
(***************************************************************************)
(* The collector, and the allocation of a digit.  The sweep links the free *)
(* cells through the field that is the digit of an integer.                *)
(***************************************************************************)
Temporaries == {"tmp1", "tmp2", "tmp3", "tmp4", "tmp5"}
Registers == {"reg1", "reg2", "reg3", "reg4"}
Roots(m) == {m.root[r] : r \in Temporaries \cup Registers} \cup {glob[g] : g \in Global}

RECURSIVE Kept(_, _)
Kept(m, S) ==
  LET T == S \cup (Cell \cap {m.hi[c] : c \in S}) IN IF T = S THEN S ELSE Kept(m, T)

Set(m, r, p) == [m EXCEPT !.root[r] = p]

new_bignum(m, value, high) ==
  LET free == Cell \ Kept(m, Cell \cap Roots(m))
      p == CHOOSE c \in free : \A d \in free : c <= d
  IN [m EXCEPT !.lo = [c \in Cell |-> IF c = p THEN value % Base ELSE IF c \in free THEN (c + 1) % Base ELSE @[c]],
               !.hi[p] = high, !.val = p]

\* What was returned goes into a root.
Keep(m, r) == Set(m, r, m.val)

\* bignum_tmp1 = new_bignum(d, bignum_tmp1)
Prefix(m, d) == Keep(new_bignum(m, d, m.root.tmp1), "tmp1")

-----------------------------------------------------------------------------
(***************************************************************************)
(* norm(prefix, n): the integer n with the digits of prefix in front of    *)
(* it.  The cells of prefix become the cells of the result.                *)
(***************************************************************************)
Absorbed_BelowOnly(n, d) ==
  \/ n = ZERO /\ d < MAX_SMALL_INT_VALUE
  \/ n = NEG1 /\ d >= Base + MIN_SMALL_INT_VALUE

Absorbed(n, d) ==
  \/ n = ZERO /\ d <= MAX_SMALL_INT_VALUE
  \/ n = NEG1 /\ d >= Base + MIN_SMALL_INT_VALUE

RECURSIVE norm(_, _, _)
norm(m, prefix, n) ==
  IF prefix = NIL THEN [m EXCEPT !.val = n]
  ELSE LET d == integer_lo(m, prefix)
           rest == integer_hi(m, prefix)
       IN IF Absorbed(n, d)
          THEN norm(m, rest, ENCODE_SMALL_INT(IF n = ZERO THEN d ELSE d - Base))
          ELSE norm([m EXCEPT !.hi[prefix] = n], rest, prefix)

\* The end of an operation: its value is norm(bignum_tmp1, n), and it clears its root.
Finish_Held(m, n) == norm(m, m.root.tmp1, n)

Finish(m, n) == Set(norm(m, m.root.tmp1, n), "tmp1", NIL)

RECURSIVE negp(_, _)
negp(m, x) ==
  LET hi == integer_hi(m, x) IN IF hi = ZERO THEN FALSE ELSE hi = NEG1 \/ negp(m, hi)

RECURSIVE BitsOf(_)
BitsOf(d) == IF d = 0 THEN 0 ELSE 1 + BitsOf(d \div 2)

RECURSIVE integer_length(_, _)
integer_length(m, x) ==
  LET next == integer_hi(m, x)
  IN IF next = ZERO THEN BitsOf(integer_lo(m, x)) ELSE digit_width + integer_length(m, next)

negative_carry(carry) == IF carry THEN NEG1 ELSE ZERO
invert(x) == IF x = ZERO THEN NEG1 ELSE ZERO

RECURSIVE CmpFrom(_, _, _, _)
CmpFrom(m, x, y, result) ==
  LET xlo == integer_lo(m, x)
      ylo == integer_lo(m, y)
  IN CASE x \in {ZERO, NEG1} -> IF x = y THEN result ELSE IF negp(m, y) THEN 2 ELSE 0
       [] x \notin {ZERO, NEG1} /\ y \in {ZERO, NEG1} -> IF negp(m, x) THEN 0 ELSE 2
       [] OTHER -> CmpFrom(m, integer_hi(m, x), integer_hi(m, y),
                           IF xlo = ylo THEN result ELSE IF xlo < ylo THEN 0 ELSE 2)

\* 0 when x < y, 1 when x = y, 2 when x > y.
cmp(m, x, y) == CmpFrom(m, x, y, 1)

-----------------------------------------------------------------------------
(***************************************************************************)
(* The operations that build a result.  Each gives the machine after it,   *)
(* with the pointer it returns in val.  The intermediate results are in    *)
(* the temporaries, as in bignum.c; x and y themselves are held by the     *)
(* caller.                                                                 *)
(***************************************************************************)
RECURSIVE shr_(_, _)
shr_(m, x) ==
  IF x \in {ZERO, NEG1} THEN Finish(m, x)
  ELSE LET hi == integer_hi(m, x)
           top == (integer_lo(m, hi) % 2) * 2 ^ (digit_width - 1)
       IN shr_(Prefix(m, integer_lo(m, x) \div 2 + top), hi)

shr(m, x) == shr_(Set(m, "tmp1", NIL), x)

RECURSIVE shl_(_, _, _)
shl_(m, x, negc) ==
  IF x = negc THEN Finish(m, x)
  ELSE LET d == integer_lo(m, x)
       IN shl_(Prefix(m, 2 * d + (IF negc = NEG1 THEN 1 ELSE 0)), integer_hi(m, x),
               negative_carry(d >= 2 ^ (digit_width - 1)))

shl(m, x) == shl_(Set(m, "tmp1", NIL), x, ZERO)

RECURSIVE shift_left_(_, _)
shift_left_(m, n) ==
  LET s == IF n % digit_width # 0 THEN shl(m, m.root.tmp2) ELSE new_bignum(m, 0, m.root.tmp2)
  IN IF n = 0 THEN Set([m EXCEPT !.val = m.root.tmp2], "tmp2", NIL)
     ELSE shift_left_(Keep(s, "tmp2"), IF n % digit_width # 0 THEN n - 1 ELSE n - digit_width)

shift_left(m, x, n) == IF x = ZERO THEN [m EXCEPT !.val = x] ELSE shift_left_(Set(m, "tmp2", x), n)

\* The last digit of a product: the carry, followed by zero or by minus one.
ScaleEnd(m, carry, sign) ==
  LET small == IF sign = ZERO THEN carry <= MAX_SMALL_INT_VALUE ELSE carry >= Base + MIN_SMALL_INT_VALUE
      ended(n) == Finish(n, n.val)
  IN IF small THEN Finish(m, ENCODE_SMALL_INT(carry)) ELSE ended(new_bignum(m, carry, sign))

RECURSIVE scale_(_, _, _, _)
scale_(m, n, x, carry) ==
  LET product == integer_lo(m, x) * n + carry
  IN CASE x = ZERO -> ScaleEnd(m, carry, ZERO)
       [] x = NEG1 -> ScaleEnd(m, (carry - n) % Base, NEG1)
       [] OTHER    -> scale_(Prefix(m, product), n, integer_hi(m, x), product \div Base)

scale(m, n, x) ==
  CASE n = 0 \/ x = ZERO      -> [m EXCEPT !.val = ZERO]
    [] n = 1 /\ x # ZERO      -> [m EXCEPT !.val = x]
    [] n \notin {0, 1} /\ x # ZERO -> scale_(Set(m, "tmp1", NIL), n, x, 0)

\* One digit of a sum, and whether it carries: the sum may wrap around.
SumDigit(dx, dy, negc) == (dx + dy + (IF negc = NEG1 THEN 1 ELSE 0)) % Base
Carries(d, dy, negc) == IF negc = ZERO THEN d < dy ELSE d <= dy

RECURSIVE add_(_, _, _, _)
add_(m, x, y, negc) ==
  LET dy == integer_lo(m, y)
      d == SumDigit(integer_lo(m, x), dy, negc)
  IN IF x = negc THEN Finish(m, y)
     ELSE IF y = negc THEN Finish(m, x)
     ELSE add_(Prefix(m, d), integer_hi(m, x), integer_hi(m, y), negative_carry(Carries(d, dy, negc)))

add(m, x, y) == add_(Set(m, "tmp1", NIL), x, y, ZERO)

RECURSIVE sub_(_, _, _, _)
sub_(m, x, y, negc) ==
  LET dy == Base - 1 - integer_lo(m, y)
      d == SumDigit(integer_lo(m, x), dy, negc)
  IN IF x = negc /\ y \in {ZERO, NEG1} THEN Finish(m, invert(y))
     ELSE IF y = invert(negc) THEN Finish(m, x)
     ELSE sub_(Prefix(m, d), integer_hi(m, x), integer_hi(m, y), negative_carry(Carries(d, dy, negc)))

sub(m, x, y) == sub_(Set(m, "tmp1", NIL), x, y, NEG1)

\* "We need to register the result of scale because add can cause GC."
RegisterScaled_Not(m, n, y) == scale(m, n, y)

RegisterScaled(m, n, y) == Keep(scale(m, n, y), "tmp2")

RECURSIVE mulnonneg_(_, _, _)
mulnonneg_(m, x, y) ==
  LET next == integer_hi(m, x)
      prefixed == Set(Keep(new_bignum(m, integer_lo(m, m.root.tmp4), m.root.tmp3), "tmp3"),
                      "tmp4", integer_hi(m, m.root.tmp4))
      added(k) == Keep(add(k, k.root.tmp4, k.val), "tmp4")
      cleared(k) == Set(Set(Set(k, "tmp2", NIL), "tmp3", NIL), "tmp4", NIL)
      ended(k) == norm(cleared(k), k.root.tmp3, k.root.tmp4)
  IN IF next = ZERO THEN ended(prefixed)
     ELSE mulnonneg_(added(RegisterScaled(prefixed, integer_lo(m, next), y)), next, y)

\* x * y, for x >= 0.
mulnonneg(m, x, y) == mulnonneg_(Keep(scale(Set(m, "tmp3", NIL), integer_lo(m, x), y), "tmp4"), x, y)

RECURSIVE divnonneg_(_, _)
divnonneg_(m, lx) ==
  LET doubled == Keep(shl(m, m.root.tmp3), "tmp3")
      subtracted(k) == Keep(sub(k, k.root.tmp4, k.root.tmp5), "tmp4")
      counted(k) == Keep(add(k, POS1, k.root.tmp3), "tmp3")
      divided(k) == IF cmp(k, k.root.tmp4, k.root.tmp5) >= 1 THEN counted(subtracted(k)) ELSE k
      halved(k) == Keep(shr(k, k.root.tmp5), "tmp5")
      next == halved(divided(doubled))
  IN IF lx = 0 THEN next ELSE divnonneg_(next, lx - 1)

\* The quotient of x and y, for x >= 0 and y > 0.  bignum_tmp5 keeps what is left of y.
divnonneg(m, x, y) ==
  LET i == [m EXCEPT !.root.tmp4 = x, !.root.tmp5 = y, !.root.tmp3 = ZERO]
      lx == integer_length(m, x)
      ly == integer_length(m, y)
      s == shift_left(i, y, lx - ly)
      quotient(d) == Set(Set([d EXCEPT !.val = d.root.tmp3], "tmp3", NIL), "tmp4", NIL)
  IN quotient(IF lx >= ly THEN divnonneg_(Keep(s, "tmp5"), lx - ly) ELSE i)

\* The digit of each operation on bits, and what follows the digits at the end of x.
BitDigit(op, dx, dy) ==
  CASE op = "ior" -> dx | dy
    [] op = "and" -> dx & dy
    [] op = "xor" -> dx ^^ dy
    [] op = "not" -> Base - 1 - dx

BitEnd(op, x, y) ==
  CASE op = "ior" -> x
    [] op = "and" -> IF x = ZERO THEN ZERO ELSE y
    [] op = "xor" -> IF x = ZERO THEN y ELSE x
    [] op = "not" -> IF x = ZERO THEN NEG1 ELSE ZERO

RECURSIVE bitwise_(_, _, _, _)
bitwise_(op, m, x, y) ==
  LET n == Prefix(m, BitDigit(op, integer_lo(m, x), integer_lo(m, y)))
  IN IF x \in {ZERO, NEG1} THEN Finish(m, BitEnd(op, x, y))
     ELSE bitwise_(op, n, integer_hi(n, x), integer_hi(n, y))

bitwise(op, m, x, y) == bitwise_(op, Set(m, "tmp1", NIL), x, y)

\* decode_int() reads the digit as the signed number that num_part is declared to be.
SignedDigit(d) == IF d >= Base \div 2 THEN d - Base ELSE d

decode_int(m, p) ==
  IF p >= SMALL_INT_START THEN SMALL_INT_VALUE(p)
  ELSE SignedDigit(integer_lo(m, p)) + SMALL_INT_VALUE(integer_hi(m, p))

encode_int(m, val) ==
  IF val \in MIN_SMALL_INT_VALUE .. MAX_SMALL_INT_VALUE THEN [m EXCEPT !.val = ENCODE_SMALL_INT(val)]
  ELSE new_bignum(m, val % Base, ENCODE_SMALL_INT(val \div Base))

-----------------------------------------------------------------------------
(***************************************************************************)
(* The integer that a pointer stands for, and the pointers that are in the *)
(* form in which the comparisons expect an integer: no list of digits      *)
(* stands for a small integer, and neither does an end of it.              *)
(***************************************************************************)
RECURSIVE IntegerAt(_, _)
IntegerAt(m, p) ==
  IF p >= SMALL_INT_START THEN SMALL_INT_VALUE(p)
  ELSE integer_lo(m, p) + Base * IntegerAt(m, integer_hi(m, p))

RECURSIVE Normal(_, _)
Normal(m, p) ==
  \/ p \in SMALL_INT_START .. SMALL_INT_MAX
  \/ p \in RomCell
  \/ /\ p \in Cell
     /\ IntegerAt(m, p) \notin MIN_SMALL_INT_VALUE .. MAX_SMALL_INT_VALUE
     /\ Normal(m, m.hi[p])

numbers == [g \in Global |-> IntegerAt(vm, glob[g])]

N == INSTANCE Numbers WITH MaxLength <- Base - 1

-----------------------------------------------------------------------------
(***************************************************************************)
(* The primitives.  A program loads reg1 and reg2 from its variables,      *)
(* calls a primitive, and stores the result; it computes with Operands.    *)
(***************************************************************************)
Init ==
  /\ vm = [hi |-> [c \in Cell |-> ZERO], lo |-> [c \in Cell |-> 0], val |-> ZERO,
           root |-> [r \in Temporaries \cup Registers |-> NIL]]
  /\ glob \in {[g \in Global |-> Constant(n[g])] : n \in [Global -> Operands]}
  /\ last = [op |-> "none", x |-> 0, y |-> 0, result |-> 0]

Loaded(i, j) == [vm EXCEPT !.root.reg1 = glob[i], !.root.reg2 = glob[j]]
Cleared(m) == [m EXCEPT !.root.reg1 = NIL, !.root.reg2 = NIL]

\* A call of the primitive op, whose C function body gives the pointer for reg1.
Primitive(op, body(_, _, _)) ==
  \E i, j, k \in Global :
    LET x == numbers[i]
        y == numbers[j]
    IN /\ op \in Ops
       /\ {x, y} \subseteq Operands
       /\ N!Meant(op, x, y)
       /\ \E m \in {Cleared(body(Loaded(i, j), glob[i], glob[j]))} :
            /\ vm' = m
            /\ glob' = [glob EXCEPT ![k] = m.val]
            /\ last' = [op |-> op, x |-> x, y |-> y, result |-> IntegerAt(m, m.val)]

\* A comparison: the program branches on the answer.
Predicate(op, holds(_)) ==
  \E i, j \in Global :
    /\ op \in Ops
    /\ {numbers[i], numbers[j]} \subseteq Operands
    /\ last' = [op |-> op, x |-> numbers[i], y |-> numbers[j],
                result |-> IF holds(cmp(vm, glob[i], glob[j])) THEN 1 ELSE 0]
    /\ UNCHANGED <<vm, glob>>

Add == Primitive("add", add)
Sub == Primitive("sub", sub)
MulNonNeg == Primitive("mul_non_neg", mulnonneg)
DivNonNeg == Primitive("div_non_neg", divnonneg)

\* x - y * (x / y); the registers hold the quotient and the product.
rem_non_neg(m, x, y) ==
  LET divided == Keep(divnonneg(m, x, y), "reg3")
      multiplied(k) == Keep(mulnonneg(k, y, k.root.reg3), "reg4")
      subtracted(k) == sub(k, x, k.root.reg4)
      cleared(k) == Set(Set(k, "reg3", NIL), "reg4", NIL)
  IN cleared(subtracted(multiplied(divided)))

RemNonNeg == Primitive("rem_non_neg", rem_non_neg)

Equal == Predicate("equal", LAMBDA c : c = 1)
Lt == Predicate("lt", LAMBDA c : c < 1)
Gt == Predicate("gt", LAMBDA c : c > 1)

BitwiseIor == Primitive("bitwise_ior", LAMBDA m, x, y : bitwise("ior", m, x, y))
BitwiseXor == Primitive("bitwise_xor", LAMBDA m, x, y : bitwise("xor", m, x, y))
BitwiseAnd == Primitive("bitwise_and", LAMBDA m, x, y : bitwise("and", m, x, y))
BitwiseNot == Primitive("bitwise_not", LAMBDA m, x, y : bitwise("not", m, x, y))

\* make-u8vector decodes the length of a vector, which is stored unsigned, and
\* u8vector-length encodes it.
VectorLength == Primitive("vector_length", LAMBDA m, x, y : encode_int(m, decode_int(m, x) % Base))

Next ==
  \/ Add \/ Sub \/ MulNonNeg \/ DivNonNeg \/ RemNonNeg \/ Equal \/ Lt \/ Gt
  \/ BitwiseIor \/ BitwiseXor \/ BitwiseAnd \/ BitwiseNot \/ VectorLength

Spec == Init /\ [][Next]_vars

-----------------------------------------------------------------------------
(***************************************************************************)
(* Every primitive gives the integer it is meant to give, and changes no   *)
(* other integer of the program: not those that share digits with its      *)
(* operands or with its result, and not when the collector takes cells in  *)
(* the middle of it.                                                       *)
(***************************************************************************)
ImplementsNumbers == N!NSpec

\* Every integer of the program is in normal form: norm() leaves out what can be
\* left out.  cmp() takes the longer list for the larger integer, and add() and sub()
\* test for zero and minus one by their pointers.
AllNormal == \A g \in Global : Normal(vm, glob[g])

\* Between two primitives nothing is held but what a division leaves in bignum_tmp5.
NothingHeld == \A r \in DOMAIN vm.root \ {"tmp5"} : vm.root[r] = NIL
=============================================================================
