------------------------------- MODULE Loader -------------------------------
(***************************************************************************)
(* From the code of a program to a machine that is ready to run it: the    *)
(* assembler writes the image into a HEX file, the file may be damaged,    *)
(* and initialisations() (main.c) reads it and starts the heap.            *)
(***************************************************************************)
EXTENDS Image, HexFile

CONSTANT Exposed  \* the programs whose files are damaged

ASSUME LoaderAssumption == Exposed \subseteq Programs

VARIABLES
  machine,  \* what the heap and the interpreter have taken from the header, none before
  read      \* the instructions that the interpreter has read

vars == <<machine, read, imageVars, hexVars>>

None == [reserved |-> 0, pc |-> 0]

Init ==
  /\ ImageInit
  /\ HexInit
  /\ machine = None
  /\ read = <<>>

Assembling == assemble /\ UNCHANGED <<machine, read, hexVars>>

WriteFile ==
  /\ Assembled
  /\ Write(image)
  /\ UNCHANGED <<machine, read, imageVars>>

Medium ==
  /\ code \in Exposed
  /\ Damage
  /\ UNCHANGED <<machine, read, imageVars>>

ReadFile ==
  /\ Read
  /\ UNCHANGED <<machine, read, imageVars>>

\* mm_init() looks at the markers once more.
mm_init ==
  /\ loading = "loaded"
  /\ machine = None
  /\ MarkersRight(buffer)
  /\ machine' = Started(buffer)
  /\ UNCHANGED <<read, imageVars, hexVars>>

\* The interpreter reads one instruction after the other, as many as were written.
Fetch ==
  /\ machine # None
  /\ Len(read) < Len(code)
  /\ read' = Append(read, Fetched(buffer, machine.pc))
  /\ machine' = [machine EXCEPT !.pc = Behind(buffer, @)]
  /\ UNCHANGED <<imageVars, hexVars>>

Next == Assembling \/ WriteFile \/ Medium \/ ReadFile \/ mm_init \/ Fetch

Spec == Init /\ [][Next]_vars

-----------------------------------------------------------------------------
(***************************************************************************)
(* Properties.  Those of HexFile are checked for the images of Programs.   *)
(***************************************************************************)
Symbols == {constants[i].obj.name : i \in {j \in DOMAIN constants : constants[j].obj.kind = "symbol"}}

Apart(f) == \A s, t \in DOMAIN f : f[s] = f[t] => s = t

ROM == {57343 + i : i \in DOMAIN constants}

\* A machine that was started from the image as it was written reads every instruction of
\* the program as it was meant: a constant is pushed as a pointer that stands for the
\* object, with one cell for each symbol, through the short and the long form, through
\* cells shared with other constants; every global has a slot of its own, among the cells
\* that the heap reserves.  Programs with more than 255 constants or globals, whose number
\* has no room in the header, and with more than 16 globals, for which the interpreter has
\* no instruction, are left aside (assemble and assemble-constant, mm_init(), interpreter()).
RunsAsMeant ==
  (machine # None /\ Len(read) = Len(code) /\ Intact /\ Len(constants) <= 255 /\ Len(globals) <= 16) =>
     /\ \A k \in DOMAIN code : read[k].op = code[k].op
     /\ \E symbol \in {f \in [Symbols -> ROM] : Apart(f)} :
          \A k \in DOMAIN code : ~NamesGlobal(code[k]) => Denotes(buffer, read[k].n, code[k].arg, symbol)
     /\ \A j, k \in {k \in DOMAIN code : NamesGlobal(code[k])} :
          /\ GlobalSlot(read[k].n)[1] < machine.reserved
          /\ GlobalSlot(read[j].n) = GlobalSlot(read[k].n) <=> code[j].arg = code[k].arg
=============================================================================
