-------------------------------- MODULE MCVm --------------------------------
(***************************************************************************)
(* Vm for TLC.  Every instruction may follow every other, so that the      *)
(* number of states grows fast with the heap: the families below keep the  *)
(* instructions that interact most, on a heap large enough for them, and   *)
(* Spec runs all of them on a smaller one.                                 *)
(***************************************************************************)
EXTENDS Vm, SequencesExt

\* A procedure with one parameter, and one that gathers all its arguments.
MCEntries == {[params |-> 1, rest |-> FALSE], [params |-> 0, rest |-> TRUE]}
MCThunk   == {[params |-> 0, rest |-> FALSE]}

\* Calls, tail calls, closures and returns.
Calls ==
  \/ PushConstant \/ PrimPop \/ PrimReturn \/ PrimHalt
  \/ \E n \in 0 .. MaxIndex : PushStack(n)
  \/ \E n \in 0 .. MaxArgs :
       CallClosure(n) \/ JumpClosure(n) \/ CallToplevel(n) \/ JumpToplevel(n)
  \/ \E entry \in Entries : MakeClosure(entry)
SpecCalls == Init /\ [][Calls]_vars

\* First-class continuations kept in global variables, as the threads of library.scm.
Conts ==
  \/ PushConstant \/ PrimPop \/ PrimReturn \/ PrimHalt
  \/ PrimGetCont \/ PrimReturnToCont \/ PrimGraftToCont
  \/ \E n \in 0 .. MaxArgs : CallToplevel(n)
  \/ \E entry \in Entries : MakeClosure(entry)
  \/ \E i \in GlobalVars : PushGlobal(i) \/ SetGlobal(i)
SpecConts == Init /\ [][Conts]_vars

(***************************************************************************)
(* A view that identifies the states that behave alike when a continuation *)
(* is used once.  Two heaps that differ only in the addresses of their     *)
(* cells do: nothing compares addresses but the sweep, which orders the    *)
(* free list by them, and one free cell is as good as another.  So do two  *)
(* heaps that differ only in what the free cells and the garbage hold: a   *)
(* cell is filled when it is allocated, and the collector runs when none   *)
(* is free.  The view numbers the cells in the order in which a walk from  *)
(* the registers and the globals meets them; a free cell, to which a used  *)
(* continuation may still lead, is named by its place on the free list.    *)
(***************************************************************************)
RootSequence ==
  <<vm.env, vm.cont, vm.reg1, vm.reg2, vm.reg3, vm.reg4>> \o [i \in 1 .. Reserved |-> i - 1]

View ==
  LET free == Free
      list == FreeList
      meet(seq, v) == IF v \in Cell \ free /\ v \notin ToSet(seq) THEN Append(seq, v) ELSE seq
      links(c) == IF vm.type[c] \in HasRightLinkTypes THEN <<vm.car[c], vm.cdr[c]>> ELSE <<vm.car[c]>>
      visit(seq, i) == IF i > Len(seq) THEN seq ELSE FoldLeft(meet, seq, links(seq[i]))
      walk[i \in 0 .. HeapEnd] ==
        IF i = 0 THEN FoldLeft(meet, <<>>, RootSequence) ELSE visit(walk[i - 1], i)
      order == walk[HeapEnd]
      name(v) == CASE v = NIL  -> NIL
                   [] v \in free -> <<"free", CHOOSE i \in 0 .. HeapEnd : list[i] = v>>
                   [] OTHER    -> CHOOSE i \in 1 .. Len(order) : order[i] = v
  IN <<[i \in 1 .. Len(order) |->
          LET c == order[i]
          IN <<vm.type[c], name(vm.car[c]),
               IF vm.type[c] \in HasRightLinkTypes THEN name(vm.cdr[c]) ELSE vm.cdr[c],
               c \in vm.spent>>],
       [i \in 1 .. 6 |-> name(RootSequence[i])], Cardinality(free), pc, halted>>
=============================================================================
