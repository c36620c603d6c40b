------------------------------- MODULE Image -------------------------------
(***************************************************************************)
(* The image of a program: what assemble (assembler.rkt) makes of its      *)
(* constants, globals and instructions, and how the machine finds them     *)
(* again through the macros for the ROM (vm-arch.h) and the globals.       *)
(*                                                                         *)
(* A program is a sequence of instructions with an operand.  The branches  *)
(* and labels between them are in Assembler.                               *)
(***************************************************************************)
EXTENDS Encoding, FiniteSets

CONSTANT Programs  \* the programs that are assembled

VARIABLES
  code,       \* the program
  pass,       \* "collecting", "header", "code" or "refused"
  at,         \* the instruction that the pass has come to
  constants,  \* the constants with their numbers of uses, sorted after the first pass
  globals,    \* the globals likewise
  image       \* the bytes

imageVars == <<code, pass, at, constants, globals, image>>

-----------------------------------------------------------------------------
(***************************************************************************)
(* The objects of a program that is read.                                  *)
(***************************************************************************)
False == [kind |-> "false"]
True == [kind |-> "true"]
Null == [kind |-> "null"]
Integer(n) == [kind |-> "integer", n |-> n]
Char(c) == [kind |-> "char", code |-> c]
Symbol(name) == [kind |-> "symbol", name |-> name]
Pair(car, cdr) == [kind |-> "pair", car |-> car, cdr |-> cdr]
Text(chars) == [kind |-> "string", chars |-> chars]
Vector(elems) == [kind |-> "vector", elems |-> elems]
U8Vector(bytes) == [kind |-> "u8vector", bytes |-> bytes]

List(s) ==
  LET from[i \in 1 .. Len(s) + 1] == IF i > Len(s) THEN Null ELSE Pair(s[i], from[i + 1])
  IN from[1]

Ints(s) == List([i \in DOMAIN s |-> Integer(s[i])])

-----------------------------------------------------------------------------
(***************************************************************************)
(* Constants and globals are collected in the order in which the code has  *)
(* them, with the number of instructions that name them.                   *)
(***************************************************************************)
Indirect == -1

encode_direct(o) ==
  CASE o.kind = "false" -> 0
    [] o.kind = "true"  -> 1
    [] o.kind = "null"  -> 2
    [] o.kind = "integer" -> IF o.n \in -1 .. 255 THEN o.n + 4 ELSE Indirect
    [] OTHER -> Indirect

translate_constant(o) == IF o.kind = "char" THEN Integer(o.code) ELSE o

\* The content of an object, which is what d3 points to if it is no pair.
Content(o) ==
  CASE o.kind = "pair"     -> <<o.car, o.cdr>>
    [] o.kind = "symbol"   -> <<>>
    [] o.kind = "string"   -> <<Ints(o.chars)>>
    [] o.kind = "vector"   -> <<List(o.elems)>>
    [] o.kind = "u8vector" -> <<Ints(o.bytes)>>
    [] o.kind = "integer"  -> <<Integer(o.n \div 65536)>>

Known(o, table) == \E i \in DOMAIN table : table[i].obj = o
At(o, table) == CHOOSE i \in DOMAIN table : table[i].obj = o

RECURSIVE add_constant(_, _, _)
add_constant(obj, table, from_code) ==
  LET o == translate_constant(obj)
      new == Append(table, [obj |-> o, count |-> IF from_code THEN 1 ELSE 0])
      parts == Content(o)
  IN IF encode_direct(o) # Indirect THEN table
     ELSE IF Known(o, table)
       THEN IF from_code THEN [table EXCEPT ![At(o, table)].count = @ + 1] ELSE table
     ELSE CASE Len(parts) = 0 -> new
            [] Len(parts) = 1 -> add_constant(parts[1], new, FALSE)
            [] Len(parts) = 2 -> CHOOSE r \in {add_constant(parts[2], c, FALSE) :
                                                c \in {add_constant(parts[1], new, FALSE)}} : TRUE

add_global(var, table) ==
  IF Known(var, table) THEN [table EXCEPT ![At(var, table)].count = @ + 1]
  ELSE Append(table, [obj |-> var, count |-> 1])

NamesGlobal(instr) == instr.op \in {"push_global", "set_global"}

\* The most often used ones come first, in the order of the code if they are used as often.
Sorted(table) ==
  LET ahead(i, j) == table[i].count > table[j].count \/ (table[i].count = table[j].count /\ i < j)
      place == CHOOSE p \in {[j \in DOMAIN table |-> 1 + Cardinality({i \in DOMAIN table : ahead(i, j)})]} : TRUE
  IN [k \in DOMAIN table |-> table[CHOOSE j \in DOMAIN table : place[j] = k]]

-----------------------------------------------------------------------------
(***************************************************************************)
(* The bytes: a header, the cells of the constants, the instructions.      *)
(***************************************************************************)
encode_constant(obj) ==
  LET o == translate_constant(obj)
  IN IF encode_direct(o) # Indirect THEN encode_direct(o) ELSE 259 + At(o, constants)

Pointer(obj) == asm_16(to_rom_index(encode_constant(obj)))

PairCell_CarFirst(car, cdr) == Pointer(car) \o Pointer(cdr) \o <<0>>

PairCell(car, cdr) == Pointer(cdr) \o Pointer(car) \o <<0>>

assemble_constant(o) ==
  CASE o.kind = "integer"  -> asm_16(o.n) \o Pointer(Content(o)[1]) \o <<20>>
    [] o.kind = "pair"     -> PairCell(o.car, o.cdr)
    [] o.kind = "symbol"   -> <<255, 255, 255, 255, 52>>
    [] o.kind = "string"   -> <<255, 255>> \o Pointer(Content(o)[1]) \o <<24>>
    [] o.kind = "vector"   -> PairCell(Content(o)[1].car, Content(o)[1].cdr)
    [] o.kind = "u8vector" -> Pointer(Content(o)[1]) \o asm_16(Len(o.bytes)) \o <<48>>

\* Mutant: the marker in the other order of its bytes.
Header_BigEndian == <<251, 215>> \o <<asm_8(Len(constants)), asm_8(Len(globals))>>

Header == asm_16(64471) \o <<asm_8(Len(constants)), asm_8(Len(globals))>>

Operand(instr) == IF NamesGlobal(instr) THEN At(instr.arg, globals) - 1 ELSE encode_constant(instr.arg)

-----------------------------------------------------------------------------
(***************************************************************************)
(* The two passes over the code.                                           *)
(***************************************************************************)
ImageInit ==
  /\ code \in Programs
  /\ pass = "collecting" /\ at = 1
  /\ constants = <<>> /\ globals = <<>> /\ image = <<>>

Collect ==
  /\ pass = "collecting" /\ at <= Len(code)
  /\ LET instr == code[at]
     IN IF NamesGlobal(instr)
        THEN globals' = add_global(instr.arg, globals) /\ UNCHANGED constants
        ELSE constants' = add_constant(instr.arg, constants, TRUE) /\ UNCHANGED globals
  /\ at' = at + 1
  /\ UNCHANGED <<code, pass, image>>

\* What sort-constants and sort-globals refuse.
TooMany == Len(constants) > 257 \/ Len(globals) > 257

Sort ==
  /\ pass = "collecting" /\ at > Len(code)
  /\ constants' = Sorted(constants)
  /\ globals' = Sorted(globals)
  /\ pass' = IF TooMany THEN "refused" ELSE "header"
  /\ at' = 1
  /\ UNCHANGED <<code, image>>

\* The header and the constants, unless one of them is an empty vector, which has no car.
WriteConstants ==
  /\ pass = "header"
  /\ \/ /\ Known(Vector(<<>>), constants)
        /\ pass' = "refused" /\ UNCHANGED image
     \/ /\ ~Known(Vector(<<>>), constants)
        /\ \E cells \in {[i \in DOMAIN constants |-> assemble_constant(constants[i].obj)]} :
             image' = Header \o [k \in 1 .. 5 * Len(cells) |-> cells[(k + 4) \div 5][((k - 1) % 5) + 1]]
        /\ pass' = "code"
  /\ UNCHANGED <<code, at, constants, globals>>

WriteInstr ==
  /\ pass = "code" /\ at <= Len(code)
  /\ image' = image \o OperandInstr(code[at].op, Operand(code[at]))
  /\ at' = at + 1
  /\ UNCHANGED <<code, pass, constants, globals>>

assemble == Collect \/ Sort \/ WriteConstants \/ WriteInstr

Assembled == pass = "code" /\ at > Len(code)

-----------------------------------------------------------------------------
(***************************************************************************)
(* The memory of the machine, as mm_init() and the interpreter read it.    *)
(***************************************************************************)
\* What mm_init() and interpreter() take from the header.
reserved_cells_count(global_count) == (global_count + 1) \div 2

Started(memory) ==
  [reserved |-> reserved_cells_count(Byte(memory, 3)), pc |-> Byte(memory, 2) * 5 + 4]

IN_ROM(p) == p \in 57344 .. 65023

\* The cell that a pointer names in rom_heap, which starts behind the header.
Rom(memory, p) ==
  LET b(k) == Byte(memory, 4 + 5 * (p % 8192) + k)
  IN [low |-> b(0) + 256 * b(1), high |-> b(2) + 256 * b(3), type |-> b(4) \div 4]

\* The instruction that the interpreter reads, and the place of the next one.
Fetched(memory, pc) == Decoded([k \in 1 .. 3 |-> Byte(memory, pc + k - 1)], pc)
Behind(memory, pc) == pc + (IF Byte(memory, pc) \div 16 = 10 THEN 2 ELSE 1)

\* Whether the pointer p stands for an object, if the symbols stand where symbol says.
RECURSIVE Denotes(_, _, _, _)
Denotes(memory, p, obj, symbol) ==
  LET o == translate_constant(obj)
      cell == Rom(memory, p)
      is(kind, type) == o.kind = kind /\ IN_ROM(p) /\ cell.type = type
  IN \/ o.kind = "false" /\ p = 65533
     \/ o.kind = "true" /\ p = 65534
     \/ o.kind = "null" /\ p = 65535
     \/ o.kind = "integer" /\ p \in 65024 .. 65280 /\ (p % 512) - 1 = o.n
     \/ is("integer", 5) /\ cell.low = o.n % 65536 /\ Denotes(memory, cell.high, Integer(o.n \div 65536), symbol)
     \/ is("pair", 0) /\ Denotes(memory, cell.high, o.car, symbol) /\ Denotes(memory, cell.low, o.cdr, symbol)
     \/ is("symbol", 13) /\ p = symbol[o.name]
     \/ is("string", 6) /\ Denotes(memory, cell.high, Ints(o.chars), symbol)
     \/ o.kind = "vector" /\ Denotes(memory, p, List(o.elems), symbol)
     \/ is("u8vector", 12) /\ cell.high = Len(o.bytes) /\ Denotes(memory, cell.low, Ints(o.bytes), symbol)

\* The place of a global among the cells of the heap: GLOBAL_GET and GLOBAL_SET.
GlobalSlot(i) == <<i \div 2, IF i % 2 = 1 THEN "car" ELSE "cdr">>
=============================================================================
