------------------------------ MODULE Assembler ------------------------------
(***************************************************************************)
(* The assembler: the forms of the instructions (assembler.rkt), the loops *)
(* of asm-assemble that choose among them (asm.rkt), and what the          *)
(* interpreter makes of the bytes (interpreter.c).                         *)
(*                                                                         *)
(* The code is a sequence of items: labels, branches to labels, which are  *)
(* put off until the positions are known, instructions with an operand,    *)
(* and the bytes of other instructions, of which only the number counts.   *)
(***************************************************************************)
EXTENDS Encoding

CONSTANTS
  Label,         \* the labels of the code
  Branches,      \* the branches it uses, as pairs of an instruction and a label
  Operands,      \* the operand instructions it uses, as pairs of a name and a number
  Fill,          \* the lengths of the stretches of other instructions
  asm_start_pos, \* where the code starts, behind the constants
  MaxItems       \* a bound on the length of the code

VARIABLES
  code,    \* the code stream: labels, branches, operand instructions, other bytes
  label,   \* the position of every label
  form,    \* for every item the alternative that is tried first, if it is a branch
  size,    \* the size of every branch
  pc,      \* the loop of asm-assemble
  image    \* what was produced for every item, and where

vars == <<code, label, form, size, pc, image>>

-----------------------------------------------------------------------------
(***************************************************************************)
(* The four alternatives of label-instr.  0 stands for #f.                 *)
(***************************************************************************)
Opcode ==
  [call_toplevel |-> <<0, 181, 0, 176>>, jump_toplevel |-> <<128, 182, 0, 177>>, goto |-> <<0, 183, 0, 178>>,
   goto_if_false |-> <<144, 184, 0, 179>>, closure |-> <<0, 185, 0, 180>>]

Length == <<1, 2, 2, 3>>

\* An instruction takes a byte at least.
ASSUME AssemblerAssumption ==
  /\ asm_start_pos \in Nat /\ MaxItems \in Nat /\ Fill \subseteq Nat \ {0}
  /\ Branches \subseteq (DOMAIN Opcode) \X Label
  /\ Operands \subseteq
       {"push_constant", "push_stack", "push_global", "set_global", "call", "jump"} \X Nat

\* The operand of the f-th alternative for a branch at self to target.
Distance(f, target, self) ==
  CASE f = 1 -> target - (self + 1)
    [] f = 2 -> 128 + target - (self + 2)
    [] f = 3 -> 2048 + target - (self + 2)
    [] f = 4 -> target

Limit_Inclusive == <<15, 256, 4095, 65535>>

Limit == <<15, 255, 4095, 65535>>

Fits(op, f, target, self) ==
  f = 4 \/ (Opcode[op][f] # 0 /\ Distance(f, target, self) \in 0 .. Limit[f])

LabelInstr(op, f, target, self) ==
  LET d == Distance(f, target, self)
  IN CASE f = 1 -> <<asm_8(Opcode[op][f] + d)>>
       [] f = 2 -> <<Opcode[op][f], asm_8(d)>>
       [] f = 3 -> asm_16(Opcode[op][f] * 256 + d)
       [] f = 4 -> <<Opcode[op][f]>> \o asm_16(d)

-----------------------------------------------------------------------------
(***************************************************************************)
(* The code stream is extended item by item.                               *)
(***************************************************************************)
IsLabel(i) == code[i].kind = "label"
IsBranch(i) == code[i].kind = "branch"
Items == 1 .. Len(code)

\* The room of an item, for a branch its size in s.
Room(i, s) ==
  CASE code[i].kind = "label"   -> 0
    [] code[i].kind = "branch"  -> s[i]
    [] code[i].kind = "operand" -> Len(OperandInstr(code[i].op, code[i].n))
    [] code[i].kind = "bytes"   -> code[i].n

\* Where the items stand when the branches have the sizes s.
Places(s) ==
  LET place[i \in Items] == IF i = 1 THEN asm_start_pos ELSE place[i - 1] + Room(i - 1, s)
  IN place

Init ==
  /\ code = <<>> /\ label = <<>> /\ image = <<>>
  /\ form = <<>> /\ size = <<>>
  /\ pc = "build"

Extend(item) ==
  /\ pc = "build" /\ Len(code) < MaxItems
  /\ code' = Append(code, item)
  /\ form' = Append(form, 1)
  /\ size' = Append(size, 0)
  /\ UNCHANGED <<label, pc, image>>

LabelItem(l) == [kind |-> "label", l |-> l]

\* "asm-label, label multiply defined" otherwise.
asm_label(l) == LabelItem(l) \notin {code[i] : i \in Items} /\ Extend(LabelItem(l))
asm_at_assembly(op, l) == Extend([kind |-> "branch", op |-> op, l |-> l])
\* A bound: such an instruction only comes first, since its bytes depend on no position.
WithOperand(op, n) ==
  code = <<>> /\ OperandInstr(op, n) # <<>> /\ Extend([kind |-> "operand", op |-> op, n |-> n])
OtherInstructions(n) == Extend([kind |-> "bytes", n |-> n])

-----------------------------------------------------------------------------
(***************************************************************************)
(* asm-assemble.  Every action is one loop through the list of items.      *)
(***************************************************************************)
LabelPositions(s) ==
  [l \in {code[i].l : i \in {j \in Items : IsLabel(j)}} |->
     Places(s)[CHOOSE i \in Items : code[i] = LabelItem(l)]]

\* asm-pass1: the first approximation, in which the branches take no room.
\* Every branch leads to a label of the code.
asm_pass1 ==
  /\ pc = "build" /\ code # <<>>
  /\ \A i \in Items : IsBranch(i) => \E j \in Items : code[j] = LabelItem(code[i].l)
  /\ label' = LabelPositions(size)
  /\ pc' = "sizes"
  /\ UNCHANGED <<code, form, size, image>>

\* The first alternative that fits, of those that no earlier round has refused.
NextForm(i, self) ==
  LET fits(f) == Fits(code[i].op, f, label[code[i].l], self)
  IN CHOOSE f \in form[i] .. 4 : fits(f) /\ \A g \in form[i] .. f - 1 : ~fits(g)

Sizes_NewSizes ==
  /\ pc = "sizes"
  /\ LET at[i \in Items] ==
           IF i = 1 THEN asm_start_pos
           ELSE at[i - 1] + IF IsBranch(i - 1) THEN Length[NextForm(i - 1, at[i - 1])] ELSE Room(i - 1, size)
     IN form' = [i \in Items |-> IF IsBranch(i) THEN NextForm(i, at[i]) ELSE form[i]]
  /\ size' = [i \in Items |-> IF IsBranch(i) THEN Length[form'[i]] ELSE 0]
  /\ pc' = "labels"
  /\ UNCHANGED <<code, label, image>>

\* loop2 and loop3: the sizes, where the items stand with the sizes of the last round.
Sizes ==
  /\ pc = "sizes"
  /\ form' = [i \in Items |-> IF IsBranch(i) THEN NextForm(i, Places(size)[i]) ELSE form[i]]
  /\ size' = [i \in Items |-> IF IsBranch(i) THEN Length[form'[i]] ELSE 0]
  /\ pc' = "labels"
  /\ UNCHANGED <<code, label, image>>

Labels_Changed ==
  /\ pc = "labels"
  /\ label' = LabelPositions(size)
  /\ pc' = "sizes"
  /\ UNCHANGED <<code, form, size, image>>

\* loop4: the labels, with the new sizes.  When one has moved, all starts again.
Labels ==
  /\ pc = "labels"
  /\ label' = LabelPositions(size)
  /\ pc' = IF label' = label THEN "produce" ELSE "sizes"
  /\ UNCHANGED <<code, form, size, image>>

\* loop5: the bytes.  "asm-assemble, inconsistency detected" when a label is elsewhere.
Bytes(i) ==
  CASE code[i].kind = "branch"  -> LabelInstr(code[i].op, form[i], label[code[i].l], Places(size)[i])
    [] code[i].kind = "operand" -> OperandInstr(code[i].op, code[i].n)
    [] OTHER                    -> <<>>

Produce ==
  /\ pc = "produce"
  /\ label = LabelPositions([i \in Items |-> IF IsBranch(i) THEN Len(Bytes(i)) ELSE 0])
  /\ image' = [i \in Items |-> [at |-> Places(size)[i], bytes |-> Bytes(i)]]
  /\ pc' = "done"
  /\ UNCHANGED <<code, label, form, size>>

Loops == Sizes \/ Labels \/ Produce

Building ==
  \/ \E l \in Label : asm_label(l)
  \/ \E b \in Branches : asm_at_assembly(b[1], b[2])
  \/ \E o \in Operands : WithOperand(o[1], o[2])
  \/ \E n \in Fill : OtherInstructions(n)

Next == Building \/ asm_pass1 \/ Loops

\* Once it has started, asm-assemble runs on.
Spec == Init /\ [][Next]_vars /\ WF_vars(Loops)

-----------------------------------------------------------------------------
(***************************************************************************)
(* The loops stop as soon as no label has moved.  Behind the last label    *)
(* branches may still have grown in the last round, so that those after    *)
(* them were chosen for another place: the interpreter is only sure to     *)
(* follow a branch that a label comes after, or no earlier branch since    *)
(* the last label.                                                         *)
(***************************************************************************)
Settled(i) ==
  \/ \E j \in i .. Len(code) : IsLabel(j)
  \/ \A j \in 1 .. i - 1 : IsBranch(j) => \E k \in j .. i : IsLabel(k)

Reaches(i) ==
  Decoded(image[i].bytes, image[i].at) =
    [op |-> code[i].op, n |-> image[CHOOSE j \in Items : code[j] = LabelItem(code[i].l)].at]

\* Whichever form was chosen for a branch, among labels that moved while it was chosen,
\* the interpreter takes it for the same instruction and goes to the label.
BranchesReach == pc = "done" => \A i \in Items : IsBranch(i) /\ Settled(i) => Reaches(i)

\* An alternative that was refused in some round is never one that would do in the end,
\* so that the loops, which never go back, find the smallest code.  The exception is the
\* form of four bits when only branches lie between: in the first round, where they take
\* no room, the branch itself seems to be behind its label.
Refused(i, f) == f = 1 /\ \A j \in i + 1 .. Len(code) : label[code[i].l] > image[j].at => IsBranch(j) \/ IsLabel(j)

NoneShorter ==
  pc = "done" => \A i \in Items, f \in 1 .. 3 :
    (IsBranch(i) /\ Settled(i) /\ Length[f] < Len(image[i].bytes) /\ ~Refused(i, f)) =>
      ~Fits(code[i].op, f, label[code[i].l], image[i].at)

\* The interpreter finds in the bytes of an instruction the operand the compiler put
\* there, whichever form it took; for a constant, the object that the ROM would point to.
OperandsDecode ==
  pc = "done" => \A i \in Items : code[i].kind = "operand" =>
    Decoded(image[i].bytes, image[i].at) =
      [op |-> code[i].op, n |-> IF code[i].op = "push_constant" THEN to_rom_index(code[i].n) ELSE code[i].n]

\* The loops of asm-assemble come to an end, and without an inconsistency.
Terminates == pc # "build" ~> pc = "done"
=============================================================================
