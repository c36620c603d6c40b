------------------------------ MODULE Schedule ------------------------------
(***************************************************************************)
(* From basic blocks to linear code: remove-useless-bbs! of the tree       *)
(* shaker (tree-shaker.rkt), renumber-labels (back-end.rkt), reorder! and  *)
(* linearize (scheduling.rkt).                                             *)
(*                                                                         *)
(* A block is a label and a sequence of instructions, of which the last    *)
(* one is the jump.  Where a jump leads to the block that comes next it is *)
(* left out.  (tighten-jump-cascades! goes through the numbers of the      *)
(* blocks and not through the blocks, and so changes none.)                *)
(***************************************************************************)
EXTENDS Integers, Sequences, FiniteSets, SequencesExt

VARIABLES
  bbs,       \* the basic blocks by their labels, from 0 on
  pc,        \* the pass that runs
  worklist,  \* of reorder!: the labels still to look at
  here,      \* of reorder!: the blocks to place now, none or one
  done,      \* of reorder!: the blocks that have their place, and which
  list,      \* of linearize: the work list, with its cells and its two ends
  dumped,    \* of linearize: the blocks that have been emitted
  falls,     \* of linearize: whether the code emitted last goes on to what follows
  code       \* the linear code

svars == <<bbs, pc, worklist, here, done, list, dumped, falls, code>>

Calls == {"closure", "call-toplevel", "jump-toplevel"}

Instrs(b) == bbs[b].instrs
Jump(b) == Last(Instrs(b))

\* The labels an instruction refers to, in the order in which they are looked at.
Labels(instr) ==
  CASE instr.op = "goto" \/ instr.op \in Calls -> <<instr.arg>>
    [] instr.op = "goto-if-false" -> instr.arg
    [] OTHER -> <<>>

Targets(b) == UNION {ToSet(Labels(Instrs(b)[i])) : i \in DOMAIN Instrs(b)}

\* What the passes rely on: a block is a sequence of instructions, each with an operation
\* and an argument, that ends with the only jump; and no label leads to nowhere.
IsInstruction(instr) ==
  /\ instr = [field \in DOMAIN instr |-> instr[field]] /\ {"op", "arg"} \subseteq DOMAIN instr
  /\ instr.op # "label"
  /\ instr.op = "goto-if-false" => instr.arg = <<instr.arg[1], instr.arg[2]>>
IsBlock(instrs) ==
  /\ Len(instrs) \in Nat \ {0} /\ instrs = [i \in 1 .. Len(instrs) |-> instrs[i]]
  /\ \A i \in 1 .. Len(instrs) :
       /\ IsInstruction(instrs[i])
       /\ instrs[i].op \in {"goto", "goto-if-false", "jump-toplevel"} => i = Len(instrs)
       /\ instrs[i].op \in {"closure", "call-toplevel"} => i < Len(instrs)
WellFormed ==
  /\ DOMAIN bbs \subseteq Nat /\ IsFiniteSet(DOMAIN bbs) /\ 0 \in DOMAIN bbs
  /\ \A b \in DOMAIN bbs : IsBlock(Instrs(b)) /\ Targets(b) \subseteq DOMAIN bbs

-----------------------------------------------------------------------------
(***************************************************************************)
(* remove-useless-bbs!.                                                    *)
(***************************************************************************)
\* The blocks with a reference count above 0: block 0 and what it leads to.
Useful ==
  LET visited[n \in 0 .. Cardinality(DOMAIN bbs)] ==
        IF n = 0 THEN {0} ELSE UNION {{b} \cup Targets(b) : b \in visited[n - 1]}
  IN visited[Cardinality(DOMAIN bbs)]

\* renumber-labels: the blocks kept are those in new's domain, new gives their labels.
Fix(instr, new) ==
  CASE instr.op = "goto" \/ instr.op \in Calls -> [instr EXCEPT !.arg = new[@]]
    [] instr.op = "goto-if-false" -> [instr EXCEPT !.arg = <<new[@[1]], new[@[2]]>>]
    [] OTHER -> instr

renumber_labels(new) ==
  [label \in {new[b] : b \in DOMAIN new} |->
     LET b == CHOOSE c \in DOMAIN new : new[c] = label
     IN [label |-> label, instrs |-> [i \in DOMAIN Instrs(b) |-> Fix(Instrs(b)[i], new)]]]

remove_useless_bbs ==
  /\ pc = "shake"
  /\ \E useful \in {Useful} : \E new \in {[b \in useful |-> Cardinality({c \in useful : c < b})]} :
       bbs' = renumber_labels(new)
  /\ pc' = "reorder"
  /\ UNCHANGED <<worklist, here, done, list, dumped, falls, code>>

-----------------------------------------------------------------------------
(***************************************************************************)
(* reorder!: a block is followed by the one its jump leads to, the else    *)
(* branch before the then branch; what has to be placed later goes to the  *)
(* front of the work list.                                                 *)
(***************************************************************************)
Unscheduled(b) == b \notin DOMAIN done

\* label-refs, over the instructions from the jump back to the first one.
LabelRefs(b) ==
  LET refs[n \in 0 .. Len(Instrs(b))] ==
        IF n = 0 THEN <<>>
        ELSE refs[n - 1] \o (IF Instrs(b)[n].op \in Calls THEN <<Instrs(b)[n].arg>> ELSE <<>>)
  IN refs[Len(Instrs(b))]

\* The block placed next to b, of the first of these labels that has no place.
Open(b, labels) == {i \in DOMAIN labels : labels[i] # b /\ Unscheduled(labels[i])}
FirstUnscheduled(b, labels) == {labels[i] : i \in {j \in Open(b, labels) : \A k \in Open(b, labels) : j <= k}}

schedule_here(b) ==
  LET labels == IF Jump(b).op \in Calls THEN <<>> ELSE Reverse(Labels(Jump(b)))
      else_open == Jump(b).op = "goto-if-false" /\ 1 \in Open(b, labels)
  IN /\ done' = [c \in DOMAIN done \cup {b} |-> IF c = b THEN Cardinality(DOMAIN done) ELSE done[c]]
     /\ here' = FirstUnscheduled(b, labels)
     /\ worklist' = (IF else_open THEN <<labels[2]>> ELSE <<>>) \o LabelRefs(b) \o worklist

ScheduleHere ==
  /\ pc = "reorder"
  /\ \E b \in here : schedule_here(b)
  /\ UNCHANGED <<bbs, pc, list, dumped, falls, code>>

schedule_todo_Keeps ==
  /\ pc = "reorder" /\ here = {} /\ worklist # <<>>
  /\ here' = IF Unscheduled(Head(worklist)) THEN {Head(worklist)} ELSE {}
  /\ worklist' = IF Unscheduled(Head(worklist)) THEN Tail(worklist) ELSE worklist
  /\ UNCHANGED <<bbs, pc, done, list, dumped, falls, code>>

schedule_todo ==
  /\ pc = "reorder" /\ here = {} /\ worklist # <<>>
  /\ here' = IF Unscheduled(Head(worklist)) THEN {Head(worklist)} ELSE {}
  /\ worklist' = Tail(worklist)
  /\ UNCHANGED <<bbs, pc, done, list, dumped, falls, code>>

\* The end of reorder!, and the beginning of linearize.
Reordered ==
  /\ pc = "reorder" /\ here = {} /\ worklist = <<>>
  /\ \E new \in {[b \in DOMAIN bbs |-> IF Unscheduled(b) THEN b ELSE done[b]]} :
       bbs' = renumber_labels(new)
  /\ list' = [cells |-> <<[label |-> 0, pos |-> 0, rest |-> 0]>>, first |-> 1, last |-> 1]
  /\ falls' = TRUE
  /\ pc' = "linearize"
  /\ UNCHANGED <<worklist, here, done, dumped, code>>

-----------------------------------------------------------------------------
(***************************************************************************)
(* The work list of linearize is a list of mutable pairs behind a header   *)
(* that holds its last pair.  Pairs are numbered as they are made; 0 is    *)
(* the empty list as a rest, and the header as the last pair.              *)
(***************************************************************************)
\* The pairs of the list in their order: the first one and the rests, with 0 behind the
\* last.  (The function that does not refer to itself is one that TLC computes once.)
Listed(l) ==
  LET rest == [c \in 0 .. Len(l.cells) |-> IF c = 0 THEN 0 ELSE l.cells[c].rest]
      cell[n \in 0 .. Len(l.cells)] == IF n = 0 THEN l.first ELSE rest[cell[n - 1]]
  IN [n \in 0 .. Len(l.cells) |-> cell[n]]

\* schedule!, at the tail or at the head.
ScheduleTail(l, label, pos) ==
  LET cell == Len(l.cells) + 1
      cells == Append(l.cells, [label |-> label, pos |-> pos, rest |-> 0])
  IN [cells |-> IF l.last = 0 THEN cells ELSE [cells EXCEPT ![l.last].rest = cell],
      first |-> IF l.last = 0 THEN cell ELSE l.first,
      last  |-> cell]

ScheduleHead(l, label, pos) ==
  LET cell == Len(l.cells) + 1
  IN [cells |-> Append(l.cells, [label |-> label, pos |-> pos, rest |-> l.first]),
      first |-> cell,
      last  |-> IF l.last = 0 THEN cell ELSE l.last]

Without_First_KeepLast(l) == [l EXCEPT !.first = l.cells[l.first].rest]

\* get, when the code falls through: the first label leaves the list.
Without_First(l) ==
  LET rest == l.cells[l.first].rest
  IN [l EXCEPT !.first = rest, !.last = IF rest = 0 THEN 0 ELSE @]

\* The places on the list of the labels that have not been emitted, and their pairs.
Waiting(l, out) ==
  LET listed == Listed(l)
      places == {n \in DOMAIN listed : listed[n] # 0 /\ l.cells[listed[n]].label \notin out}
  IN [n \in places |-> l.cells[listed[n]]]

\* get, when it does not: the label put down last of those not emitted, which stays.
Best(waiting) ==
  waiting[CHOOSE n \in DOMAIN waiting :
            \A k \in DOMAIN waiting : \/ waiting[k].pos < waiting[n].pos
                                      \/ waiting[k].pos = waiting[n].pos /\ n <= k].label

\* next: the label that get would come to, none or one.
NextLabels(waiting) ==
  {waiting[n].label : n \in {k \in DOMAIN waiting : \A j \in DOMAIN waiting : k <= j}}

-----------------------------------------------------------------------------
(***************************************************************************)
(* dump-bb: the label, the instructions, and what is left of the jump.     *)
(***************************************************************************)
Plain(op, arg) == [op |-> op, arg |-> arg]
Not == Plain("prim", [id |-> "#%not", n |-> 1])

Put_CallsOnly(l, instr, pos) ==
  IF instr.op = "call-toplevel" THEN ScheduleTail(l, instr.arg, pos) ELSE l

Put(l, instr, pos) ==
  IF instr.op \in {"closure", "call-toplevel"} THEN ScheduleTail(l, instr.arg, pos) ELSE l

\* The work list after the instructions before the jump.
Referred(b, l, pos) ==
  LET put[i \in 0 .. Len(Instrs(b)) - 1] ==
        IF i = 0 THEN l ELSE Put(put[i - 1], Instrs(b)[i], pos + i)
  IN put[Len(Instrs(b)) - 1]

\* The labels of the jump go to the head, the else branch before the then branch.
JumpScheduled(b, l, pos) ==
  LET labels == Labels(Jump(b))
      put[i \in 0 .. Len(labels)] == IF i = 0 THEN l ELSE ScheduleHead(put[i - 1], labels[i], pos)
  IN put[Len(labels)]

JumpCode_ElseLabel(b, next) ==
  LET jump == Jump(b)
  IN CASE jump.op = "goto" ->
            IF jump.arg \in next THEN [code |-> <<>>, falls |-> TRUE] ELSE [code |-> <<jump>>, falls |-> FALSE]
       [] jump.op = "goto-if-false" ->
            IF jump.arg[2] \in next
            THEN [code |-> <<[jump EXCEPT !.arg = <<@[2]>>]>>, falls |-> TRUE]
            ELSE [code |-> <<[jump EXCEPT !.arg = <<@[1]>>], Plain("goto", jump.arg[2])>>, falls |-> FALSE]
       [] OTHER -> [code |-> <<jump>>, falls |-> FALSE]

\* What is emitted for the jump when next is the label to come, and whether the code
\* then falls through.
JumpCode(b, next) ==
  LET jump == Jump(b)
  IN CASE jump.op = "goto" ->
            IF jump.arg \in next THEN [code |-> <<>>, falls |-> TRUE] ELSE [code |-> <<jump>>, falls |-> FALSE]
       [] jump.op = "goto-if-false" ->
            (CASE jump.arg[2] \in next ->
                    [code |-> <<[jump EXCEPT !.arg = <<@[1]>>]>>, falls |-> TRUE]
               [] jump.arg[2] \notin next /\ jump.arg[1] \in next ->
                    [code |-> <<Not, [jump EXCEPT !.arg = <<@[2]>>]>>, falls |-> TRUE]
               [] OTHER ->
                    [code |-> <<[jump EXCEPT !.arg = <<@[1]>>], Plain("goto", jump.arg[2])>>, falls |-> FALSE])
       [] OTHER -> [code |-> <<jump>>, falls |-> FALSE]

DumpBlock(b, l) ==
  \E after \in {JumpScheduled(b, Referred(b, l, Len(code)), Len(code) + Len(Instrs(b)))} :
    \E jump \in {JumpCode(b, NextLabels(Waiting(after, dumped \cup {b})))} :
      /\ dumped' = dumped \cup {b}
      /\ list' = after
      /\ code' = code \o <<Plain("label", b)>> \o Front(Instrs(b)) \o jump.code
      /\ falls' = jump.falls

\* dump: one label that get returns.
GetFirst ==
  /\ falls /\ list.first # 0
  /\ \E b \in {list.cells[list.first].label} :
       \/ b \in dumped /\ list' = Without_First(list) /\ UNCHANGED <<dumped, falls, code>>
       \/ b \notin dumped /\ DumpBlock(b, Without_First(list))

GetBest ==
  /\ ~falls /\ DOMAIN Waiting(list, dumped) # {}
  /\ \E b \in {Best(Waiting(list, dumped))} : DumpBlock(b, list)

Dump == pc = "linearize" /\ (GetFirst \/ GetBest) /\ UNCHANGED <<bbs, pc, worklist, here, done>>

Linearized ==
  /\ pc = "linearize"
  /\ IF falls THEN list.first = 0 ELSE DOMAIN Waiting(list, dumped) = {}
  /\ pc' = "linear"
  /\ UNCHANGED <<bbs, worklist, here, done, list, dumped, falls, code>>

-----------------------------------------------------------------------------
ScheduleInit ==
  /\ bbs = <<>>
  /\ pc = "compile"
  /\ worklist = <<>> /\ here = {0} /\ done = <<>>
  /\ list = [cells |-> <<>>, first |-> 0, last |-> 0] /\ dumped = {} /\ falls = TRUE
  /\ code = <<>>

\* What comp.rkt has made, when it is given.
StartWith(blocks) ==
  /\ bbs' = blocks
  /\ pc' = "shake"
  /\ UNCHANGED <<worklist, here, done, list, dumped, falls, code>>

Schedule == remove_useless_bbs \/ ScheduleHere \/ schedule_todo \/ Reordered \/ Dump \/ Linearized

\* Any well-formed blocks, and what becomes of them.
Given ==
  /\ pc = "compile" /\ pc' = "shake" /\ WellFormed'
  /\ UNCHANGED <<worklist, here, done, list, dumped, falls, code>>
Stopped == pc = "linear" /\ pc' = "halted" /\ UNCHANGED <<bbs, worklist, here, done, list, dumped, falls, code>>
ScheduleNext == Given \/ Schedule \/ Stopped
ScheduleSpec == ScheduleInit /\ [][ScheduleNext]_svars

-----------------------------------------------------------------------------
\* A label always leads to one place.  As long as there are blocks, to a block; and in the
\* code every block that is referred to has been emitted, once.
Emitted(b) == Cardinality({i \in DOMAIN code : code[i].op = "label" /\ code[i].arg = b})
EmittedOnce ==
  /\ pc \in {"shake", "reorder"} => WellFormed
  /\ pc = "linear" => \A b \in DOMAIN bbs : Emitted(b) = 1

\* The end of the work list that linearize appends to is the end of the list that it
\* takes labels from.
ListKeepsItsEnd ==
  pc = "linearize" =>
    IF list.first = 0 THEN list.last = 0
    ELSE \E n \in DOMAIN Listed(list) :
           list.last # 0 /\ Listed(list)[n] = list.last /\ list.cells[list.last].rest = 0
=============================================================================
