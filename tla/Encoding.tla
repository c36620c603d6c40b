------------------------------ MODULE Encoding ------------------------------
(***************************************************************************)
(* The bytes of instructions: what assembler.rkt writes for those with an  *)
(* operand, and what interpreter.c makes of the bytes it reads.            *)
(***************************************************************************)
EXTENDS Integers, Sequences

asm_8(n) == n % 256
asm_16(n) == <<n % 256, (n \div 256) % 256>>

(***************************************************************************)
(* The instructions with an operand, none for an operand that the compiler *)
(* refuses.                                                                *)
(***************************************************************************)
push_constant_UpTo32(n) == IF n <= 32 THEN <<n>> ELSE <<160 + ((n \div 256) % 16), n % 256>>

push_constant(n) == IF n <= 31 THEN <<n>> ELSE <<160 + ((n \div 256) % 16), n % 256>>

OperandInstr(op, n) ==
  CASE op = "push_constant" -> push_constant(n)
    [] op = "push_stack"    -> IF n > 31 THEN <<>> ELSE <<32 + n>>
    [] op = "push_global"   -> IF n <= 15 THEN <<64 + n>> ELSE <<142, asm_8(n)>>
    [] op = "set_global"    -> IF n <= 15 THEN <<80 + n>> ELSE <<143, asm_8(n)>>
    [] op = "call"          -> IF n > 15 THEN <<>> ELSE <<96 + n>>
    [] op = "jump"          -> IF n > 15 THEN <<>> ELSE <<112 + n>>

\* The pointer that the cells of the ROM hold for a constant.
to_rom_index(n) ==
  CASE n < 3          -> n + 65533
    [] n \in 3 .. 259 -> (n - 3) + 65024
    [] n > 259        -> (n - 260) + 57344

-----------------------------------------------------------------------------
(***************************************************************************)
(* What the interpreter does with the bytes of an instruction at self: the *)
(* instruction, and the address, index or pointer that it computes.        *)
(***************************************************************************)
AbsoluteOp == <<"call_toplevel", "jump_toplevel", "goto", "goto_if_false", "closure">>

\* Addresses and pointers have sixteen bits.
Instr(op, n) == [op |-> op, n |-> n % 65536]
Low(b) == b % 16
Small(b) == b % 32

ShortConstant(r1) == IF r1 < 3 THEN r1 + 65533 ELSE (r1 - 3) + 65024
LongConstant(r1) ==
  CASE r1 < 3          -> r1 + 65533
    [] r1 \in 3 .. 259 -> (r1 - 3) + 65024
    [] r1 > 259        -> (r1 - 260) + 57344

Decoded(bytes, self) ==
  LET b == bytes[1]
      byte == bytes[2]
  IN CASE b \in 0 .. 31    -> Instr("push_constant", ShortConstant(Small(b)))
       [] b \in 32 .. 63   -> Instr("push_stack", Small(b))
       [] b \in 64 .. 79   -> Instr("push_global", Low(b))
       [] b \in 80 .. 95   -> Instr("set_global", Low(b))
       [] b \in 96 .. 111  -> Instr("call", Low(b))
       [] b \in 112 .. 127 -> Instr("jump", Low(b))
       [] b \in 128 .. 143 -> Instr("jump_toplevel", self + 1 + Low(b))
       [] b \in 144 .. 159 -> Instr("goto_if_false", self + 1 + Low(b))
       [] b \in 160 .. 175 -> Instr("push_constant", LongConstant(Low(b) * 256 + byte))
       [] b \in 176 .. 180 -> Instr(AbsoluteOp[b - 175], byte + 256 * bytes[3])
       [] b \in 181 .. 185 -> Instr(AbsoluteOp[b - 180], self + 2 + byte - 128)
       [] b = 190          -> Instr("push_global", byte)
       [] b = 191          -> Instr("set_global", byte)
       [] OTHER            -> Instr("none", 0)

-----------------------------------------------------------------------------
(***************************************************************************)
(* A memory that is cleared before some bytes are stored, and the markers  *)
(* of an image of a program, which stand at its first two places.          *)
(***************************************************************************)
Byte(memory, addr) == IF addr \in DOMAIN memory THEN memory[addr] ELSE 0

MarkersRight(memory) == Byte(memory, 0) = 215 /\ Byte(memory, 1) = 251
=============================================================================
