------------------------------ MODULE Collector ------------------------------
(***************************************************************************)
(* What mm_gc() promises its callers, as one atomic step: every cell that  *)
(* neither the globals nor a register reaches is put on the free list, in  *)
(* increasing order of address; the vector block of a freed vector header  *)
(* is released; nothing a register or a global reaches is changed, and no  *)
(* collector flag stays set.                                               *)
(***************************************************************************)
EXTENDS Heap

VARIABLES
  heap,        \* [type, car, cdr : functions on Cell]
  roots,       \* the values of the registers that mm_gc() marks from
  free_cells,  \* head of the free list, which continues through the cdrs
  used,        \* the vector blocks whose header is marked as used
  flags,       \* the cells with a gc_mark or gc_flip bit set
  collected    \* has mm_gc() returned?

avars == <<heap, roots, free_cells, used, flags, collected>>

AInit ==
  /\ heap \in [type : [Cell -> Type], car : [Cell -> Value], cdr : [Cell -> Value]]
  /\ roots \subseteq Value
  /\ free_cells \in Value
  /\ used \subseteq Cell
  /\ flags = {}
  /\ collected = FALSE

Live == Reachable(ReservedCell \cup roots, heap.type, heap.car, heap.cdr)
Garbage == Cell \ Live

\* A freed vector header gives its block back: the one that ends before its start.
Blocks(cells) == {heap.cdr[c] - 1 : c \in {v \in cells : heap.type[v] = VECTOR_TYPE}}

Collect ==
  /\ ~collected
  /\ collected' = TRUE
  /\ free_cells' = NextIn(Garbage, 0)
  /\ \A c \in Cell :
       IF c \in Live
       THEN /\ heap'.type[c] = heap.type[c]
            /\ heap'.car[c]  = heap.car[c]
            /\ heap'.cdr[c]  = heap.cdr[c]
       ELSE /\ heap'.type[c] # VECTOR_TYPE
            /\ heap'.cdr[c]  = NextIn(Garbage, c + 1)
  /\ used' = used \ Blocks(Garbage)
  /\ flags' = {}
  /\ UNCHANGED roots

ASpec == AInit /\ [][Collect]_avars
=============================================================================
