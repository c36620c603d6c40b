------------------------------ MODULE Compiler ------------------------------
(***************************************************************************)
(* The compiler put together, up to the assembler: a program is parsed and *)
(* rewritten (FrontEnd), analysed and compiled to basic blocks (CodeGen),  *)
(* which are pruned, ordered and made into linear code (Schedule).  Then   *)
(* the code runs, on a machine that does for the instructions what the     *)
(* interpreter does, while the source machine (Source) follows it through  *)
(* the program as it was written.                                          *)
(***************************************************************************)
EXTENDS Source, FrontEnd, CodeGen, Schedule

CONSTANT Programs     \* the programs: sequences of definitions and expressions

\* A program has a definition, as the library has, so its root is never folded away.
ASSUME ProgramsAssumption ==
  \A p \in Programs :
    /\ p.kind = "seq" /\ Defined(p) # {}
    /\ Defined(p) \cup {Eta(id) : id \in Primitive} \cup {def.var : def \in Range(Boxes)} \subseteq Global

VARIABLE
  machine   \* of the running code: where it is, its frame, the suspended frames, the globals

vars == <<source, seen, fvars, svars, machine>>

-----------------------------------------------------------------------------
(***************************************************************************)
(* The machine.  A frame has the slots, the topmost first, and the         *)
(* variables of the closure.  A pair that cons has made has a place among  *)
(* the pairs, for it may be changed; a list is a constant or that of a     *)
(* rest parameter, which no program changes.                               *)
(***************************************************************************)
Started == [at |-> 1, slots |-> <<>>, closed |-> <<>>, conts |-> <<>>, pairs |-> <<>>, globals |-> <<>>]

Instr == code[machine.at]
Top == machine.slots[1]
Advance(m) == [m EXCEPT !.at = @ + 1]
PushOn(v, m) == [m EXCEPT !.slots = <<v>> \o @]
PopOff(n, m) == [m EXCEPT !.slots = SubSeq(@, n + 1, Len(@))]

Place(label) == CHOOSE i \in DOMAIN code : code[i].op = "label" /\ code[i].arg = label

\* The number of parameters stands behind the label of a procedure.
EntryAt(label) == code[Place(label) + 1]

\* The n arguments are on top of the stack, the last one first; in the frame of the
\* procedure the first one is on top, and a rest parameter has the list of the others.
Frame(np, args) ==
  IF np >= 0 THEN args ELSE Append(SubSeq(args, 1, -np - 1), List(SubSeq(args, -np, Len(args))))
Enter(label, n, closed, m) ==
  [m EXCEPT !.at = Place(label) + 2, !.closed = closed,
            !.slots = Frame(EntryAt(label).arg, Reverse(SubSeq(@, 1, n)))]
Suspend(n, m) ==
  [m EXCEPT !.conts = <<[at |-> m.at + 1, slots |-> SubSeq(m.slots, n + 1, Len(m.slots)), closed |-> m.closed]>> \o @]

Return(v, m) ==
  LET cont == Head(m.conts)
  IN [m EXCEPT !.at = cont.at, !.slots = <<v>> \o cont.slots, !.closed = cont.closed, !.conts = Tail(@)]

Pushed(n, m) == IF n < Len(m.slots) THEN m.slots[n + 1] ELSE m.closed[n - Len(m.slots) + 1]

\* The values on the list of pairs that is given to closure.  They are part of the closure,
\* and their pairs, made just before, are left aside.
RECURSIVE OnList(_, _)
OnList(v, m) == IF v.kind = "list" THEN <<>> ELSE <<m.pairs[v.at].car>> \o OnList(m.pairs[v.at].cdr, m)
MakeClosure(label, closed, m) ==
  PushOn([kind |-> "procedure", label |-> label, closed |-> closed],
         PopOff(1, [m EXCEPT !.pairs = SubSeq(@, 1, Len(@) - Len(closed))]))

\* Prim.
Visible == Instr.op = "prim" /\ Instr.arg.id \notin Folders \cup {"cons", "set-car!", "#%not"}
Invisible(id, m) ==
  CASE id = "cons"     ->
         PushOn([kind |-> "pair", at |-> Len(m.pairs) + 1],
                PopOff(2, [m EXCEPT !.pairs = Append(@, [car |-> m.slots[2], cdr |-> Top])]))
    [] id = "set-car!" -> PopOff(2, [m EXCEPT !.pairs[m.slots[2].at].car = Top])
    [] id = "#%not"    -> PushOn(Truth(IsFalse(Top)), PopOff(1, m))
    [] id = "car" /\ Top.kind = "pair" -> PushOn(m.pairs[Top.at].car, PopOff(1, m))
    [] id \in Folders /\ ~(id = "car" /\ Top.kind = "pair") ->
         PushOn(Fold(id, Reverse(SubSeq(m.slots, 1, Instr.arg.n))), PopOff(Instr.arg.n, m))

Executed(m) ==
  CASE Instr.op = "label"         -> Advance(m)
    [] Instr.op = "push-constant" -> Advance(PushOn(Instr.arg, m))
    [] Instr.op = "push-stack"    -> Advance(PushOn(Pushed(Instr.arg, m), m))
    [] Instr.op = "push-global"   -> Advance(PushOn(GlobalIn(m.globals, Instr.arg), m))
    [] Instr.op = "set-global"    -> Advance(PopOff(1, [m EXCEPT !.globals = (Instr.arg :> Top) @@ @]))
    [] Instr.op = "goto"          -> [m EXCEPT !.at = Place(Instr.arg)]
    [] Instr.op = "goto-if-false" ->
         IF IsFalse(Top) THEN PopOff(1, [m EXCEPT !.at = Place(Instr.arg[1])]) ELSE Advance(PopOff(1, m))
    [] Instr.op = "closure"       -> Advance(MakeClosure(Instr.arg, OnList(Top, m), m))
    [] Instr.op = "pop"           -> Advance(PopOff(1, m))
    [] Instr.op = "prim"          -> Advance(Invisible(Instr.arg.id, m))
    [] Instr.op = "return"        -> Return(Top, m)
    [] Instr.op = "call-toplevel" -> Enter(Instr.arg, EntryAt(Instr.arg).arg, <<>>, Suspend(EntryAt(Instr.arg).arg, m))
    [] Instr.op = "jump-toplevel" -> Enter(Instr.arg, EntryAt(Instr.arg).arg, <<>>, m)
    [] Instr.op = "call"          -> Enter(Top.label, Instr.arg, Top.closed, PopOff(1, Suspend(Instr.arg + 1, m)))
    [] Instr.op = "jump"          -> Enter(Top.label, Instr.arg, Top.closed, PopOff(1, m))

-----------------------------------------------------------------------------
Init ==
  /\ \E p \in Programs : source = Begin(p) /\ FrontEndInit(p)
  /\ ScheduleInit
  /\ seen = Nothing
  /\ machine = Started

Rewriting == FrontEndNext /\ UNCHANGED <<source, seen, svars, machine>>

\* The graph is not needed any more.
Generating ==
  /\ pc = "compile" /\ Finished
  /\ \E ctx \in {Compiled(ast)} : StartWith(BasicBlocks(ctx))
  /\ ast' = NoGraph
  /\ UNCHANGED <<source, seen, passes, agenda, machine>>

Scheduling == Schedule /\ UNCHANGED <<source, seen, fvars, machine>>

\* Between two primitives the source machine goes first and the code after it, which is
\* a choice of this model, since their steps do not meet.
Followed == source.todo = <<>> \/ AtPrimitive
SourceProceeds == pc = "linear" /\ Proceed /\ UNCHANGED <<fvars, svars, machine>>

CodeProceeds ==
  /\ pc = "linear" /\ Followed /\ ~Visible
  /\ machine' = Executed(machine)
  /\ UNCHANGED <<source, seen, fvars, svars>>

\* The code applies a primitive; the source machine gets the same result.
Applies ==
  /\ pc = "linear" /\ Followed /\ Visible
  /\ LET id == Instr.arg.id
         n == Instr.arg.n
     IN /\ seen' = Applied(id, Reverse(SubSeq(machine.slots, 1, n)))
        /\ \E v \in Results :
             /\ machine' = Advance([machine EXCEPT
                  !.slots = (IF id \in Unspecified THEN <<>> ELSE <<v>>) \o SubSeq(@, n + 1, Len(@))])
             /\ source' = IF AtPrimitive THEN After(v) ELSE source
        /\ pc' = IF id = "#%halt" THEN "halted" ELSE pc
  /\ UNCHANGED <<fvars, bbs, worklist, here, done, list, dumped, falls, code>>

Running == SourceProceeds \/ CodeProceeds \/ Applies

Next == Rewriting \/ Generating \/ Scheduling \/ Running

\* The compiler and the program it made run on.
Spec == Init /\ [][Next]_vars /\ WF_vars(Next)

-----------------------------------------------------------------------------
(***************************************************************************)
(* What the compiler promises.                                             *)
(***************************************************************************)
\* The linear code applies the primitives that the program applies, in the same order,
\* to the same arguments, whatever their results are: no branch is inverted or lost, no
\* block falls through into another, and each variable is found in its slot.
ImplementsSource ==
  /\ \E p \in Programs : source = Begin(p)
  /\ seen = Nothing
  /\ [][SourceNext]_<<source, seen>>

\* Wherever the code gets to, on whatever way, the stack has the size that the compiler
\* counted on when it computed the places of the variables; and no code runs into the
\* number of parameters that stands before a procedure.
SlotsCounted ==
  pc = "linear" =>
    /\ Instr.op # "entry"
    /\ "size" \in DOMAIN Instr => Len(machine.slots) = Instr.size

\* Between two passes the nodes of the program are a tree, in which each child knows its
\* parent: however calls have been replaced by copies of bodies and bodies by their
\* parts, no node is at two places and none is left with the parent it had.
NoNodeShared ==
  pc = "compile" /\ agenda = <<>> =>
    \A parent \in Below(ast, Root) : \A i \in DOMAIN Kids(ast, parent) :
      /\ Parent(ast, Kids(ast, parent)[i]) = parent
      /\ \A j \in 1 .. i - 1 : Kids(ast, parent)[j] # Kids(ast, parent)[i]

\* The compiler comes to an end, and the code always comes to its next primitive.
ComesToNext == []<>(pc = "halted" \/ (pc = "linear" /\ Visible))
=============================================================================
