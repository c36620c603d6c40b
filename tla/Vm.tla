--------------------------------- MODULE Vm ---------------------------------
(***************************************************************************)
(* The instructions of the virtual machine on the heap of cells            *)
(* (src/main/interpreter.c, primitives-control.c, primitives-list.c and    *)
(* the constructors of vm-arch.c).  The environment is a list of cells     *)
(* that starts at env.  To spare the collector, pop() gives the cell it    *)
(* takes off that list straight back to the free list, and a call links    *)
(* the cells of its arguments into the environment of the procedure, and   *)
(* into the list of its remaining arguments, instead of copying them.      *)
(* That is correct only while no one else holds these cells.  When no cell *)
(* is free, an allocation in the middle of an instruction runs mm_gc(),    *)
(* which keeps only what the registers and the globals lead to.            *)
(*                                                                         *)
(* A code address stands for what the compiler knows of it: a procedure    *)
(* entry is its parameters, and a place in a procedure is the number of    *)
(* slots of its frame and how many of them are temporaries.                *)
(*                                                                         *)
(* vm.spent is history: the continuations that have been used.             *)
(***************************************************************************)
EXTENDS Objects, FiniteSets

CONSTANTS
  Entries,     \* the procedure entry points: [params, rest]
  OneShot,     \* does the program use a continuation at most once?
  MaxSlots,    \* bound: the slots of a frame
  MaxArgs,     \* bound: the arguments of a call
  MaxIndex     \* bound: the index of an LDSTK instruction

ASSUME VmAssumption ==
  /\ Entries \subseteq [params : Nat, rest : BOOLEAN]
  /\ MaxSlots \in Nat /\ MaxArgs \in Nat /\ MaxIndex \in Nat

VARIABLES
  vm,          \* the heap and the registers
  pc,          \* the code address: [slots, temps]
  halted       \* has the interpreter returned, or stopped on FATAL?

vars == <<vm, pc, halted>>

GlobalVars == 0 .. 2 * Reserved - 1

\* mm_init(): calloc, the globals, then a sweep of a heap without marks.
Init ==
  /\ vm = [type |-> [c \in Cell |-> CONS_TYPE],
           car  |-> [c \in Cell |-> IF c \in ReservedCell THEN NIL ELSE 0],
           cdr  |-> [c \in Cell |-> IF c \in ReservedCell THEN NIL
                                    ELSE NextIn(Cell \ ReservedCell, c + 1)],
           free_cells |-> NextIn(Cell \ ReservedCell, 0),
           env |-> NIL, cont |-> NIL,
           reg1 |-> NIL, reg2 |-> NIL, reg3 |-> NIL, reg4 |-> NIL,
           exhausted |-> FALSE, spent |-> {}]
  /\ pc = [slots |-> 0, temps |-> 0]
  /\ halted = FALSE

-----------------------------------------------------------------------------
(***************************************************************************)
(* Memory.  Each operator takes the virtual machine and returns it changed.*)
(***************************************************************************)
\* Everything that can be followed from a set of values.
Followed(m, from) ==
  LET grow[n \in 0 .. HeapEnd] ==
        IF n = 0 THEN from \cap Cell
        ELSE UNION {{c} \cup LinksOf(c, m.type, m.car, m.cdr) : c \in grow[n - 1]}
  IN grow[HeapEnd]

Registers(m) == {m.reg1, m.reg2, m.reg3, m.reg4, m.cont, m.env}
Live(m) == Followed(m, ReservedCell \cup Registers(m))

\* mm_gc(), as the atomic step that Collector specifies and MarkSweep implements.
mm_gc(m) ==
  LET garbage == Cell \ Live(m)
  IN [m EXCEPT !.cdr = [c \in Cell |-> IF c \in garbage THEN NextIn(garbage, c + 1) ELSE @[c]],
               !.free_cells = NextIn(garbage, 0)]

Available(m) == IF m.free_cells = NIL THEN mm_gc(m) ELSE m

\* mm_new_ram_cell() and the constructors that fill the cell; the new cell is
\* the head of the free list of Available(m).
Allocate(m, type, car, cdr) ==
  LET a == Available(m)
      p == a.free_cells
  IN IF p = NIL THEN [a EXCEPT !.exhausted = TRUE]
     ELSE [a EXCEPT !.free_cells = a.cdr[p],
                    !.type[p] = type, !.car[p] = car, !.cdr[p] = cdr,
                    !.spent = @ \ {p}]
Allocated(m) == Available(m).free_cells

new_pair(m, car, cdr)       == Allocate(m, CONS_TYPE, car, cdr)
new_string(m, chars)        == Allocate(m, STRING_TYPE, chars, 0)
new_closure(m, env, code)   == Allocate(m, CLOSURE_TYPE, env, code)
new_cont(m, parent, closure) == Allocate(m, CONTINUATION_TYPE, parent, closure)

return_to_free_list(m, p) ==
  [m EXCEPT !.type[p] = CONS_TYPE, !.cdr[p] = m.free_cells, !.free_cells = p]

Push(m, v) == [new_pair(m, v, m.env) EXCEPT !.env = Allocated(m)]

\* pop(): the top value, and the machine without it.
TopOf(m) == m.car[m.env]
pop(m) == return_to_free_list([m EXCEPT !.env = m.cdr[m.env]], m.env)

\* The n-th cell of the environment and its value, NIL beyond its end.
NthCell(m, n) ==
  LET next(c) == IF c \in Cell THEN m.cdr[c] ELSE NIL
      at[i \in 0 .. n] == IF i = 0 THEN m.env ELSE next(at[i - 1])
  IN at[n]
Nth(m, n) == IF NthCell(m, n) \notin Cell THEN NIL ELSE m.car[NthCell(m, n)]

Global(m, i) == IF i % 2 = 1 THEN m.car[i \div 2] ELSE m.cdr[i \div 2]
GLOBAL_SET(m, i, v) ==
  IF i % 2 = 1 THEN [m EXCEPT !.car[i \div 2] = v] ELSE [m EXCEPT !.cdr[i \div 2] = v]

IsA(v, t) == v \in Cell \ ReservedCell /\ vm.type[v] = t
IsUsable(k) == IsA(k, CONTINUATION_TYPE) /\ (OneShot => k \notin vm.spent)

-----------------------------------------------------------------------------
(***************************************************************************)
(* Calls.                                                                  *)
(***************************************************************************)
\* build_environment(): the cells of the arguments, in front of reg1.
build_environment(m, nbr_args) ==
  LET step(s) == [s EXCEPT !.env = s.cdr[s.env], !.cdr[s.env] = s.reg1, !.reg1 = s.env]
      loop[n \in 0 .. nbr_args] == IF n = 0 THEN m ELSE step(loop[n - 1])
  IN [loop[nbr_args] EXCEPT !.reg2 = NIL]

\* The loop of prepare_arguments(): the cells of the remaining arguments, as a list.
RestList(m, count) ==
  LET step(s) == [s EXCEPT !.env = s.cdr[s.env], !.cdr[s.env] = s.reg3, !.reg3 = s.env]
      loop[n \in 0 .. count] == IF n = 0 THEN [m EXCEPT !.reg3 = NIL] ELSE step(loop[n - 1])
  IN loop[count]

\* prepare_arguments(): the closure is on top, its cell receives the list.
prepare_arguments(m, nbr_args) ==
  LET reg2 == m.env
      closure == m.car[reg2]
      entry == m.cdr[closure]
      taken == [m EXCEPT !.env = m.cdr[reg2]]
  IN IF entry.rest
     THEN LET s == RestList(taken, nbr_args - Fixed(entry, nbr_args))
          IN [s EXCEPT !.cdr[reg2] = m.car[closure], !.car[reg2] = s.reg3,
                       !.reg1 = reg2, !.reg2 = NIL, !.reg3 = NIL, !.reg4 = NIL]
     ELSE [taken EXCEPT !.reg1 = m.car[closure], !.reg2 = NIL]

\* Mutant: no register holds the closure while the continuation is allocated.
save_cont_Unrooted(m, back) ==
  LET s == new_closure(m, m.env, back)
  IN [new_cont(s, s.cont, Allocated(m)) EXCEPT !.cont = Allocated(s)]

\* save_cont(): the environment and the place to return to.
save_cont(m, back) ==
  LET s == [new_closure(m, m.env, back) EXCEPT !.reg4 = Allocated(m)]
  IN [new_cont(s, s.cont, s.reg4) EXCEPT !.cont = Allocated(s), !.reg4 = NIL]

Enter(m) == [m EXCEPT !.env = m.reg1, !.reg1 = NIL, !.reg2 = NIL]

Prepared(m, n) == build_environment(prepare_arguments(m, n), Fixed(m.cdr[TopOf(m)], n))
FrameOf(entry, n) ==
  [slots |-> Fixed(entry, n) + (IF entry.rest THEN 1 ELSE 0), temps |-> 0]

\* Mutant: what is popped is not taken off the temporaries.
Moved_TempsKept(pops, pushes) ==
  [slots |-> pc.slots - pops + pushes, temps |-> pc.temps + pushes]

Moved(pops, pushes) ==
  [slots |-> pc.slots - pops + pushes, temps |-> pc.temps - pops + pushes]

\* The instruction ends in this machine, at this address.
Do(m, address) ==
  /\ ~halted
  /\ address.slots <= MaxSlots
  /\ IF m.exhausted THEN halted' = TRUE /\ UNCHANGED <<vm, pc>>
     ELSE vm' = m /\ pc' = address /\ UNCHANGED halted

-----------------------------------------------------------------------------
(***************************************************************************)
(* The instructions.                                                       *)
(***************************************************************************)
\* LDCS, LDC
PushConstant == Do(Push(vm, NIL), Moved(0, 1))

\* LDSTK: a slot, or a variable of the list that the compiler has closed over
IsBound(n) == n < pc.slots \/ \A i \in pc.slots .. n : IsA(NthCell(vm, i), CONS_TYPE)
PushStack(n) ==
  /\ IsBound(n)
  /\ Do([Push([vm EXCEPT !.reg1 = NthCell(vm, n)], Nth(vm, n))
          EXCEPT !.reg1 = NIL], Moved(0, 1))

\* LDS, LD
PushGlobal(i) ==
  Do([Push([vm EXCEPT !.reg1 = Global(vm, i)], Global(vm, i)) EXCEPT !.reg1 = NIL], Moved(0, 1))

\* STS, ST
SetGlobal(i) == pc.temps > 0 /\ Do(GLOBAL_SET(pop(vm), i, TopOf(vm)), Moved(1, 0))

\* pop, and BRSF, BRF, BRRF: the two ways of a branch differ in pc only
PrimPop == pc.temps > 0 /\ Do(pop(vm), Moved(1, 0))

\* Mutant: the continuation is saved before the arguments are taken.
CallClosure_SavedFirst(n) ==
  /\ pc.temps > n /\ IsA(TopOf(vm), CLOSURE_TYPE)
  /\ Do(Enter(Prepared(save_cont(vm, Moved(n + 1, 0)), n)), FrameOf(vm.cdr[TopOf(vm)], n))

\* CALLC
CallClosure(n) ==
  /\ pc.temps > n /\ IsA(TopOf(vm), CLOSURE_TYPE)
  /\ Do(Enter(save_cont(Prepared(vm, n), Moved(n + 1, 0))), FrameOf(vm.cdr[TopOf(vm)], n))

\* JUMPC
JumpClosure(n) ==
  /\ pc.temps > n /\ IsA(TopOf(vm), CLOSURE_TYPE)
  /\ Do(Enter(Prepared(vm, n)), FrameOf(vm.cdr[TopOf(vm)], n))

\* CALL, CALLR: the compiler calls a procedure by its entry point only when it closes
\* over nothing, has no rest argument and gets as many arguments as it has parameters
CallToplevel(n) ==
  /\ pc.temps >= n
  /\ Do(Enter(save_cont(build_environment([vm EXCEPT !.reg1 = NIL], n), Moved(n, 0))),
        [slots |-> n, temps |-> 0])

\* JUMP, JUMPR, JUMPS
JumpToplevel(n) ==
  /\ pc.temps >= n
  /\ Do(Enter(build_environment([vm EXCEPT !.reg1 = NIL], n)), [slots |-> n, temps |-> 0])

\* Mutant: no register holds the cell on top while the closure is allocated.
MakeClosure_Unheld(entry) ==
  LET cell == vm.env
      env  == vm.car[cell]
      held == [vm EXCEPT !.env = vm.cdr[cell], !.reg3 = env]
      made == new_closure(held, env, entry)
  IN /\ pc.temps > 0
     /\ env = NIL \/ IsA(env, CONS_TYPE)
     /\ Do([made EXCEPT !.cdr[cell] = made.env, !.car[cell] = Allocated(held), !.env = cell,
                        !.reg1 = NIL, !.reg3 = NIL],
           Moved(0, 0))

\* CLOS, CLOSR: the cell on top is kept, in reg2 while the closure is allocated
MakeClosure(entry) ==
  LET cell == vm.env
      env  == vm.car[cell]
      held == [vm EXCEPT !.env = vm.cdr[cell], !.reg2 = cell, !.reg3 = env]
      made == new_closure(held, env, entry)
  IN /\ pc.temps > 0
     /\ env = NIL \/ IsA(env, CONS_TYPE)
     /\ Do([made EXCEPT !.cdr[cell] = made.env, !.car[cell] = Allocated(held), !.env = cell,
                        !.reg1 = NIL, !.reg2 = NIL, !.reg3 = NIL],
           Moved(0, 0))

-----------------------------------------------------------------------------
(***************************************************************************)
(* The primitives, with the pops and the push of the dispatcher            *)
(* (gen.dispatch.h): reg2 and reg1 receive the arguments, reg1 the result. *)
(***************************************************************************)
Pop1(m) == [pop(m) EXCEPT !.reg1 = TopOf(m)]
Pop2(m) == LET s == [pop(m) EXCEPT !.reg2 = TopOf(m)] IN [pop(s) EXCEPT !.reg1 = TopOf(s)]
PushResult(m) == Push(m, m.reg1)
Second(m) == TopOf(pop(m))

\* Mutant: the parent of the continuation is not restored.
Resume_SameCont(m, k) == [m EXCEPT !.env = m.car[m.cdr[k]], !.reg2 = NIL, !.spent = @ \cup {k}]

\* The continuation reg2 is given the value in reg1.
Resume(m, k) ==
  [m EXCEPT !.env = m.car[m.cdr[k]], !.cont = m.car[k], !.reg2 = NIL, !.spent = @ \cup {k}]
Back(k) == [slots |-> vm.cdr[vm.cdr[k]].slots + 1, temps |-> vm.cdr[vm.cdr[k]].temps + 1]

PrimReturn ==
  /\ pc.temps > 0 /\ IsUsable(vm.cont)
  /\ Do(PushResult(Resume(Pop1(vm), vm.cont)), Back(vm.cont))

\* Mutant: the program gets a copy of the continuation.
PrimGetCont_Copied ==
  /\ IsUsable(vm.cont)
  /\ Do(PushResult([new_cont(vm, vm.car[vm.cont], vm.cdr[vm.cont]) EXCEPT !.reg1 = Allocated(vm)]),
        Moved(0, 1))

PrimGetCont ==
  /\ IsUsable(vm.cont)
  /\ Do(PushResult([vm EXCEPT !.reg1 = vm.cont]), Moved(0, 1))

\* Mutant: the thunk runs with the parent of the continuation, as return-to-cont does.
PrimGraftToCont_Parent ==
  LET s == Pop2(vm)
      t == Push([s EXCEPT !.cont = s.car[s.reg1], !.reg1 = s.reg2], s.reg2)
  IN /\ pc.temps > 1
     /\ IsUsable(Second(vm)) /\ IsA(TopOf(vm), CLOSURE_TYPE)
     /\ Do(Enter(Prepared(t, 0)), FrameOf(vm.cdr[TopOf(vm)], 0))

PrimGraftToCont ==
  LET s == Pop2(vm)
      t == Push([s EXCEPT !.cont = s.reg1, !.reg1 = s.reg2], s.reg2)
  IN /\ pc.temps > 1
     /\ IsUsable(Second(vm)) /\ IsA(TopOf(vm), CLOSURE_TYPE)
     /\ Do(Enter(Prepared(t, 0)), FrameOf(vm.cdr[TopOf(vm)], 0))

PrimReturnToCont ==
  LET s == Pop2(vm)
  IN /\ pc.temps > 1
     /\ IsUsable(Second(vm))
     /\ Do(PushResult(Resume([s EXCEPT !.reg1 = s.reg2], s.reg1)), Back(Second(vm)))

\* Mutant: the cell of the first argument becomes the pair.
PrimCons_Reused ==
  LET s == Pop2(vm)
  IN /\ pc.temps > 1
     /\ Do(PushResult([s EXCEPT !.car[vm.env] = s.reg1, !.cdr[vm.env] = s.reg2,
                                !.reg1 = vm.env, !.reg2 = NIL]),
           Moved(2, 1))

PrimCons ==
  LET s == Pop2(vm)
  IN /\ pc.temps > 1
     /\ Do(PushResult([new_pair(s, s.reg1, s.reg2) EXCEPT !.reg1 = Allocated(s), !.reg2 = NIL]),
           Moved(2, 1))

PrimCar ==
  /\ pc.temps > 0 /\ IsA(TopOf(vm), CONS_TYPE)
  /\ Do(PushResult([Pop1(vm) EXCEPT !.reg1 = vm.car[TopOf(vm)]]), Moved(1, 1))

PrimCdr ==
  /\ pc.temps > 0 /\ IsA(TopOf(vm), CONS_TYPE)
  /\ Do(PushResult([Pop1(vm) EXCEPT !.reg1 = vm.cdr[TopOf(vm)]]), Moved(1, 1))

\* pair?, null?, not and the other predicates of one argument: #t and #f are no cells.
\* eq?, with two, is a pop before it.
PrimTest == pc.temps > 0 /\ Do(PushResult([Pop1(vm) EXCEPT !.reg1 = NIL]), Moved(1, 1))

\* list->string: the string shares the list
PrimListToString ==
  LET s == Pop1(vm)
  IN /\ pc.temps > 0 /\ (TopOf(vm) = NIL \/ IsA(TopOf(vm), CONS_TYPE))
     /\ Do(PushResult([new_string(s, s.reg1) EXCEPT !.reg1 = Allocated(s)]), Moved(1, 1))

\* string->list
PrimStringToList ==
  /\ pc.temps > 0 /\ IsA(TopOf(vm), STRING_TYPE)
  /\ Do(PushResult([Pop1(vm) EXCEPT !.reg1 = vm.car[TopOf(vm)]]), Moved(1, 1))

PrimSetCar ==
  LET s == Pop2(vm)
  IN /\ pc.temps > 1 /\ IsA(s.reg1, CONS_TYPE)
     /\ Do([s EXCEPT !.car[s.reg1] = s.reg2, !.reg1 = NIL, !.reg2 = NIL], Moved(2, 0))

PrimSetCdr ==
  LET s == Pop2(vm)
  IN /\ pc.temps > 1 /\ IsA(s.reg1, CONS_TYPE)
     /\ Do([s EXCEPT !.cdr[s.reg1] = s.reg2, !.reg1 = NIL, !.reg2 = NIL], Moved(2, 0))

\* #%halt
PrimHalt == ~halted /\ halted' = TRUE /\ UNCHANGED <<vm, pc>>

Next ==
  \/ PushConstant \/ PrimPop \/ PrimReturn \/ PrimGetCont \/ PrimReturnToCont \/ PrimGraftToCont
  \/ PrimCons \/ PrimCar \/ PrimCdr \/ PrimSetCar \/ PrimSetCdr \/ PrimTest \/ PrimHalt
  \/ PrimListToString \/ PrimStringToList
  \/ \E n \in 0 .. MaxIndex : PushStack(n)
  \/ \E i \in GlobalVars : PushGlobal(i) \/ SetGlobal(i)
  \/ \E n \in 0 .. MaxArgs :
       CallClosure(n) \/ JumpClosure(n) \/ CallToplevel(n) \/ JumpToplevel(n)
  \/ \E entry \in Entries : MakeClosure(entry)

Spec == Init /\ [][Next]_vars

-----------------------------------------------------------------------------
(***************************************************************************)
(* Refinement: what the program sees of the heap.                          *)
(***************************************************************************)
\* The n cells of a list from cell e on, and the link that follows them.
Spine(e, n) ==
  LET next(c) == IF c \in Cell THEN vm.cdr[c] ELSE NIL
      at[i \in 0 .. n] == IF i = 0 THEN e ELSE next(at[i - 1])
  IN at
Slots(spine, n) == [i \in 1 .. n |-> IF spine[i - 1] \in Cell THEN vm.car[spine[i - 1]] ELSE NIL]

\* The cells of the free list.
FreeList == Spine(vm.free_cells, HeapEnd)
Free == {FreeList[i] : i \in 0 .. HeapEnd} \ {NIL}

\* The frame that continuation k holds.
SavedAt(k) == vm.cdr[vm.cdr[k]]
SavedSpine(k) == Spine(vm.car[vm.cdr[k]], SavedAt(k).slots)
Holds(k) ==
  /\ k \notin vm.spent /\ vm.cdr[k] \notin Free /\ IsA(vm.cdr[k], CLOSURE_TYPE)
  /\ "slots" \in DOMAIN SavedAt(k)
SavedFrame(k) ==
  LET at == SavedAt(k)
      spine == SavedSpine(k)
  IN Frame(Slots(spine, at.slots), spine[at.slots], at.temps, vm.car[k])

Object(c) ==
  CASE vm.type[c] = CONS_TYPE         -> Pair(vm.car[c], vm.cdr[c])
    [] vm.type[c] = STRING_TYPE       -> Str(vm.car[c])
    [] vm.type[c] = CLOSURE_TYPE      -> Closure(vm.car[c], vm.cdr[c])
    [] vm.type[c] = CONTINUATION_TYPE -> IF Holds(c) THEN SavedFrame(c) ELSE Spent

frame   == Spine(vm.env, pc.slots)
stack   == Slots(frame, pc.slots)
globals == [i \in GlobalVars |-> Global(vm, i)]
\* (The set of one element makes TLC evaluate the objects once.)
store ==
  LET values == {stack[i] : i \in DOMAIN stack} \cup {globals[i] : i \in GlobalVars} \cup {frame[pc.slots], vm.cont}
      seen(objects) == [c \in Referred(objects, values) |-> objects[c]]
  IN CHOOSE s \in {seen(objects) : objects \in {[c \in Live(vm) \ ReservedCell |-> Object(c)]}} : TRUE

Machine == INSTANCE StackMachine WITH closed <- frame[pc.slots], temps <- pc.temps, cont <- vm.cont

(***************************************************************************)
(* The instructions on shared, reused and collected cells do what the same *)
(* instructions do on frames that nothing shares: no pop, call, return or  *)
(* collection changes a variable, a pair, a closure or a suspended frame   *)
(* that the program can still refer to.                                    *)
(***************************************************************************)
ImplementsMachine == Machine!SSpec

-----------------------------------------------------------------------------
(***************************************************************************)
(* Safety.                                                                 *)
(***************************************************************************)
TypeOK ==
  /\ vm.type \in [Cell -> {CONS_TYPE, CLOSURE_TYPE, CONTINUATION_TYPE, STRING_TYPE}]
  /\ \A c \in Cell : vm.car[c] \in Value \/ c \in ReservedCell
  /\ {vm.env, vm.cont, vm.free_cells} \subseteq Value
  /\ {vm.reg1, vm.reg2, vm.reg3, vm.reg4} \subseteq Value
  /\ vm.spent \subseteq {c \in Cell : vm.type[c] = CONTINUATION_TYPE}
  /\ pc.slots \in 0 .. MaxSlots /\ pc.temps \in 0 .. pc.slots
  /\ halted \in BOOLEAN

\* The continuations that may still be returned to; NIL stands for the running procedure.
Suspended(objects) == {k \in DOMAIN objects : objects[k].kind = "cont"}
FrameCells(k) ==
  LET spine == IF k = NIL THEN frame ELSE SavedSpine(k)
      cells(n) == {spine[i] : i \in 0 .. n - 1}
  IN IF k = NIL THEN cells(pc.slots) ELSE cells(SavedAt(k).slots) \cup {vm.cdr[k]}
Size(k) == IF k = NIL THEN pc.slots ELSE SavedAt(k).slots + 1

\* The golden rules of vm-arch.h 628-646 in the invariant they serve: the slots of the
\* running procedure and of each suspended one are cells of their own, which no other
\* frame and no object of the program shares.
FramesApart ==
  LET objects == store
      frames == Suspended(objects) \cup {NIL}
      cells == [k \in frames |-> FrameCells(k)]
  IN /\ \A k \in frames :
          /\ cells[k] \subseteq Cell \ (ReservedCell \cup DOMAIN objects)
          /\ Cardinality(cells[k]) = Size(k)
     /\ \A j, k \in frames : j # k => cells[j] \cap cells[k] = {}

\* The assertion of pop(), "HEAP BROKEN!!!" (vm-arch.c 15-20): the stack is made of pairs.
StackIsPairs == vm.env # NIL => IsA(vm.env, CONS_TYPE)

\* check_free_list(): the free list ends; and pop() and the collector put no cell on it
\* that is there already, or that a frame, an object or a global of the program needs.
FreeListSound ==
  LET objects == store
      free == Free
  IN /\ FreeList[HeapEnd] = NIL
     /\ free \cap (ReservedCell \cup DOMAIN objects) = {}
     /\ \A k \in Suspended(objects) \cup {NIL} : free \cap FrameCells(k) = {}
=============================================================================
