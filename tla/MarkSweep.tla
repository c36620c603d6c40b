------------------------------ MODULE MarkSweep ------------------------------
(***************************************************************************)
(* mm_gc() of src/main/mm.c, step by step: the pointer-reversal marking of *)
(* mm_mark() from every root, one action for each pass through each of its *)
(* loops, then mm_sweep().  Marking needs no stack: the way back up is     *)
(* kept in the links of the cells on the way down, so that in the middle   *)
(* of a collection the heap is not the mutator's heap.  The hazards are a  *)
(* link that is not put back, a cell that is missed because it was reached *)
(* by a second path or through a cycle, and a flag that stays set.         *)
(*                                                                         *)
(* heap0 and path are history variables: the heap as it was when mm_gc()   *)
(* was called and the cells whose links are reversed, the deepest last.    *)
(***************************************************************************)
EXTENDS Heap, Sequences

CONSTANTS
  NRegs,       \* the number of registers mm_gc() marks from
  TypesAt,     \* the types a cell may have when the collection starts
  Data         \* the values of the fields that are not links

ASSUME NRegsAssumption == NRegs \in Nat
ASSUME TypesAtAssumption ==
  /\ TypesAt \in [Cell -> SUBSET Type]
  /\ \A c \in ReservedCell : TypesAt[c] = {CONS_TYPE}
  /\ VECTOR_TYPE \notin TypesAt[0]
ASSUME DataAssumption == Data \subseteq Value

VARIABLES
  type, car, cdr,   \* ram_heap_data and the type bits of ram_heap_flags
  mark, flip,       \* the gc_mark and gc_flip bits: the cells that have them
  free_cells,       \* head of the free list
  used,             \* the vector blocks marked as used
  regs,             \* reg1..reg4, cont, env, bignum_tmp1..5
  pc,               \* where mm_gc() is
  root,             \* how many roots have been taken
  current, prev,    \* the local variables of mm_mark()
  p,                \* the local variable of mm_sweep()
  heap0, path       \* history

heap == [type |-> type, car |-> car, cdr |-> cdr]
links == <<car, cdr>>
memory == <<type, car, cdr, mark, flip, free_cells, used>>
marker == <<current, prev, path>>
vars == <<type, car, cdr, mark, flip, free_cells, used, regs,
          pc, root, current, prev, p, heap0, path>>

\* mm_gc() marks the reserved cells in order, then the registers in order.
NRoots == Reserved + NRegs
Root(i) == IF i <= Reserved THEN i - 1 ELSE regs[i - Reserved]
Roots(n) == {Root(i) : i \in 1 .. n}

\* A vector header points past the header of its own block: no two vectors
\* share a block, and block c - 1 is the one of cell c.
OwnStart(c) == c

Init ==
  /\ type \in {t \in [Cell -> Type] : \A c \in Cell : t[c] \in TypesAt[c]}
  /\ car \in [Cell -> Value]
  /\ cdr \in [Cell -> Value]
  /\ \A c \in Cell :
       /\ type[c] \notin HasLeftLinkTypes => car[c] \in Data
       /\ type[c] = VECTOR_TYPE => cdr[c] = OwnStart(c)
       /\ type[c] \notin HasRightLinkTypes \cup {VECTOR_TYPE} => cdr[c] \in Data
  /\ used = {OwnStart(c) - 1 : c \in {v \in Cell : type[v] = VECTOR_TYPE}}
  /\ regs \in [1 .. NRegs -> Value]
  /\ free_cells = NIL
  /\ mark = {} /\ flip = {}
  /\ pc = "root" /\ root = 0
  /\ current = NIL /\ prev = NIL /\ path = <<>>
  /\ p = HeapEnd - 1
  /\ heap0 = heap

\* Mutant: the types are compared with 4 included.
HasRightLink_TooWide(c) == type[c] \in HasRightLinkTypes \cup {CLOSURE_TYPE}
HasRightLink(c) == type[c] \in HasRightLinkTypes
\* Mutant: the types are compared with 4 excluded.
HasLeftLink_TooNarrow(c) == type[c] \in HasRightLinkTypes
HasLeftLink(c)  == type[c] \in HasLeftLinkTypes

-----------------------------------------------------------------------------
(***************************************************************************)
(* Marking.                                                                *)
(***************************************************************************)
\* Mutant: the last root is forgotten.
TakeRoot_LastForgotten ==
  /\ pc = "root"
  /\ IF root < NRoots - 1
     THEN /\ root' = root + 1 /\ current' = Root(root + 1) /\ prev' = NIL /\ pc' = "down"
          /\ UNCHANGED free_cells
     ELSE /\ pc' = "sweep" /\ free_cells' = NIL
          /\ UNCHANGED <<root, current, prev>>
  /\ UNCHANGED <<type, car, cdr, mark, flip, used, regs, p, heap0, path>>

TakeRoot ==
  /\ pc = "root"
  /\ IF root < NRoots
     THEN /\ root' = root + 1
          /\ current' = Root(root + 1)
          /\ prev' = NIL
          /\ pc' = "down"
          /\ UNCHANGED free_cells
     ELSE /\ pc' = "sweep"
          /\ free_cells' = NIL
          /\ UNCHANGED <<root, current, prev>>
  /\ UNCHANGED <<type, car, cdr, mark, flip, used, regs, p, heap0, path>>

\* The first loop: mark a cell and go down its left link, which is reversed.
GoDown ==
  /\ pc = "down"
  /\ current \in Cell /\ current \notin mark
  /\ mark' = mark \cup {current}
  /\ IF HasLeftLink(current)
     THEN /\ car' = [car EXCEPT ![current] = prev]
          /\ prev' = current
          /\ current' = car[current]
          /\ path' = Append(path, current)
     ELSE UNCHANGED <<car, prev, current, path>>
  /\ UNCHANGED <<type, cdr, flip, free_cells, used, regs, pc, root, p, heap0>>

LeftCompleted ==
  /\ pc = "down"
  /\ ~(current \in Cell /\ current \notin mark)
  /\ pc' = "up"
  /\ UNCHANGED <<memory, regs, root, marker, p, heap0>>

\* The second loop: come back up through a right link and put it back.
ReturnFromRight ==
  /\ pc = "up"
  /\ prev \in Cell /\ prev \in flip
  /\ flip' = flip \ {prev}
  /\ cdr' = [cdr EXCEPT ![prev] = current]
  /\ current' = prev
  /\ prev' = cdr[prev]
  /\ path' = SubSeq(path, 1, Len(path) - 1)
  /\ UNCHANGED <<type, car, mark, free_cells, used, regs, pc, root, p, heap0>>

MarkCompleted ==
  /\ pc = "up"
  /\ prev \notin Cell
  /\ pc' = "root"
  /\ UNCHANGED <<memory, regs, root, marker, p, heap0>>

\* Mutant: the left link of prev is not put back.
TurnRight_LeftLost ==
  /\ pc = "up" /\ prev \in Cell /\ prev \notin flip /\ HasRightLink(prev)
  /\ flip' = flip \cup {prev}
  /\ current' = cdr[prev]
  /\ cdr' = [cdr EXCEPT ![prev] = car[prev]]
  /\ pc' = "down"
  /\ UNCHANGED <<type, car, mark, free_cells, used, regs, root, prev, p, heap0, path>>

\* The left link of prev is put back, its right link is reversed and followed.
TurnRight ==
  /\ pc = "up"
  /\ prev \in Cell /\ prev \notin flip
  /\ HasRightLink(prev)
  /\ car' = [car EXCEPT ![prev] = current]
  /\ flip' = flip \cup {prev}
  /\ current' = cdr[prev]
  /\ cdr' = [cdr EXCEPT ![prev] = car[prev]]
  /\ pc' = "down"
  /\ UNCHANGED <<type, mark, free_cells, used, regs, root, prev, p, heap0, path>>

\* The last loop: come back up through the left link of a cell without a right one.
ReturnFromLeft ==
  /\ \/ pc = "up" /\ prev \in Cell /\ prev \notin flip
     \/ pc = "left" /\ prev \in Cell
  /\ ~HasRightLink(prev)
  /\ car' = [car EXCEPT ![prev] = current]
  /\ current' = prev
  /\ prev' = car[prev]
  /\ path' = SubSeq(path, 1, Len(path) - 1)
  /\ pc' = "left"
  /\ UNCHANGED <<type, cdr, mark, flip, free_cells, used, regs, root, p, heap0>>

ReturnedFromLeft ==
  /\ pc = "left"
  /\ ~(prev \in Cell /\ ~HasRightLink(prev))
  /\ pc' = "down"
  /\ UNCHANGED <<memory, regs, root, marker, p, heap0>>

Mark == \/ TakeRoot \/ GoDown \/ LeftCompleted \/ ReturnFromRight
        \/ MarkCompleted \/ TurnRight \/ ReturnFromLeft \/ ReturnedFromLeft

-----------------------------------------------------------------------------
(***************************************************************************)
(* Sweeping: from the last cell down to the first one after the globals,   *)
(* then the mark bits of the globals.                                      *)
(***************************************************************************)
SweepMarked ==
  /\ pc = "sweep"
  /\ p \in mark
  /\ mark' = mark \ {p}
  /\ UNCHANGED <<type, cdr, free_cells, used>>

\* Mutant: the block of a vector is kept.
SweepUnmarked_BlockKept ==
  /\ pc = "sweep" /\ p \notin mark
  /\ type' = [type EXCEPT ![p] = IF @ = VECTOR_TYPE THEN CONS_TYPE ELSE @]
  /\ cdr' = [cdr EXCEPT ![p] = free_cells]
  /\ free_cells' = p
  /\ UNCHANGED <<mark, used>>

\* Mutant: a freed vector header stays a vector header.
SweepUnmarked ==
  /\ pc = "sweep"
  /\ p \notin mark
  /\ IF type[p] = VECTOR_TYPE
     THEN /\ used' = used \ {cdr[p] - 1}
          /\ type' = [type EXCEPT ![p] = CONS_TYPE]
     ELSE UNCHANGED <<used, type>>
  /\ cdr' = [cdr EXCEPT ![p] = free_cells]
  /\ free_cells' = p
  /\ UNCHANGED mark

\* Mutant: the loop over the cells goes on to the last cell of the globals.
SweepNext_OneMore ==
  /\ p' = p - 1
  /\ pc' = IF p >= Reserved THEN "sweep" ELSE IF Reserved > 0 THEN "globals" ELSE "done"
  /\ UNCHANGED <<car, flip, regs, root, marker, heap0>>

\* Mutant: the loop over the globals is entered when there are none.
SweepNext ==
  /\ p' = p - 1
  /\ pc' = IF p > Reserved THEN "sweep" ELSE IF Reserved > 0 THEN "globals" ELSE "done"
  /\ UNCHANGED <<car, flip, regs, root, marker, heap0>>

\* Mutant: the loop ends when the unsigned p is less than 0.
SweepGlobals_Unsigned ==
  /\ pc = "globals"
  /\ mark' = mark \ {p}
  /\ p' = IF p = 0 THEN HeapEnd - 1 ELSE p - 1
  /\ UNCHANGED <<type, car, cdr, flip, free_cells, used, regs, pc, root, marker, heap0>>

SweepGlobals ==
  /\ pc = "globals"
  /\ mark' = mark \ {p}
  /\ p' = p - 1
  /\ pc' = IF p > 0 THEN "globals" ELSE "done"
  /\ UNCHANGED <<type, car, cdr, flip, free_cells, used, regs, root, marker, heap0>>

Sweep == ((SweepMarked \/ SweepUnmarked) /\ SweepNext) \/ SweepGlobals

Next == Mark \/ Sweep

\* mm_gc() runs to its end: the virtual machine has one thread.
Spec == Init /\ [][Next]_vars /\ WF_vars(Next)

-----------------------------------------------------------------------------
PC == {"root", "down", "up", "left", "sweep", "globals", "done"}

TypeOK ==
  /\ type \in [Cell -> Type] /\ car \in [Cell -> Value] /\ cdr \in [Cell -> Value]
  /\ mark \subseteq Cell /\ flip \subseteq Cell
  /\ free_cells \in Value
  /\ regs \in [1 .. NRegs -> Value]
  /\ pc \in PC
  /\ root \in 0 .. NRoots
  /\ current \in Value /\ prev \in Value
  /\ path \in Seq(Cell)
  /\ heap0 \in [type : [Cell -> Type], car : [Cell -> Value], cdr : [Cell -> Value]]
  /\ \A c \in Cell : heap0.type[c] = VECTOR_TYPE => heap0.cdr[c] = OwnStart(c)
  /\ p \in -1 .. HeapEnd - 1
  /\ pc \in {"root", "down", "up", "left"} => p = HeapEnd - 1
  /\ pc = "sweep" => p >= Reserved
  /\ pc = "globals" => p >= 0 /\ p < Reserved
  /\ pc = "done" => p = -1

-----------------------------------------------------------------------------
(***************************************************************************)
(* Safety.                                                                 *)
(***************************************************************************)
Marking == pc \in {"root", "down", "up", "left"}
OnPath == {path[i] : i \in 1 .. Len(path)}
Below(i) == IF i = 1 THEN NIL ELSE path[i - 1]
Above(i) == IF i = Len(path) THEN current ELSE path[i + 1]

\* prev is the end of the way down, which visits no cell twice.
WayBack ==
  /\ prev = IF path = <<>> THEN NIL ELSE path[Len(path)]
  /\ \A i, j \in 1 .. Len(path) : path[i] = path[j] => i = j

\* A cell on the way down holds the way back up in the link that was followed,
\* and that link led to the next cell down.
Reversed(c, up, down) ==
  /\ HasLeftLink(c)
  /\ IF c \in flip
     THEN /\ HasRightLink(c)
          /\ car[c] = heap0.car[c]
          /\ cdr[c] = up /\ heap0.cdr[c] = down
     ELSE /\ car[c] = up /\ heap0.car[c] = down
          /\ cdr[c] = heap0.cdr[c]

Untouched(c) == c \notin flip /\ car[c] = heap0.car[c] /\ cdr[c] = heap0.cdr[c]

\* While mm_mark() runs, the heap of the mutator can be recovered: only the
\* links of the cells on the way down are reversed, each of those cells holds
\* the way back up in exactly one of its links, and the link it lost is the
\* one that leads further down.  Outside the path no link differs and no flip
\* bit is set, so nothing is left to put back when mm_mark() returns.
LinksRecoverable ==
  Marking =>
    /\ type = heap0.type
    /\ pc = "root" => path = <<>>
    /\ WayBack
    /\ \A i \in 1 .. Len(path) : Reversed(path[i], Below(i), Above(i))
    /\ \A c \in Cell \ OnPath : Untouched(c)

Reached == Reachable(Roots(root), heap0.type, heap0.car, heap0.cdr)

\* mm_mark() visits and marks nothing that the roots taken so far do not
\* reach, and whenever it returns it has marked everything they reach: a
\* shared cell or a cycle neither ends the traversal early nor makes it stray.
MarksReachable ==
  /\ Marking => mark \cup ({current} \cap Cell) \subseteq Reached
  /\ pc = "root" => mark = Reached

\* Between the two, the marked cells that are not on the path have no
\* unmarked child, and those whose right side is being visited have their
\* left child marked.  This is what makes MarksReachable inductive.
NoUnmarkedChild ==
  Marking =>
    /\ OnPath \subseteq mark
    /\ \A c \in mark \ OnPath :
         LinksOf(c, heap0.type, heap0.car, heap0.cdr) \subseteq mark
    /\ \A c \in OnPath \cap flip : {heap0.car[c]} \cap Cell \subseteq mark
    /\ \A i \in 1 .. root : Root(i) \in Cell =>
         \/ Root(i) \in mark
         \/ i = root /\ path = <<>> /\ pc = "down" /\ current = Root(i)
    /\ pc \in {"up", "left"} => ({current} \cap Cell \subseteq mark)

Live0 == Reachable(Roots(NRoots), heap0.type, heap0.car, heap0.cdr)

\* The garbage that mm_sweep() has put on the free list so far, and the vector
\* blocks that were in use when the collection started.
Swept == {c \in Cell \ Live0 : c >= Reserved /\ c > p}
Used0 == {OwnStart(c) - 1 : c \in {v \in Cell : heap0.type[v] = VECTOR_TYPE}}
Released == {OwnStart(c) - 1 : c \in {v \in Swept : heap0.type[v] = VECTOR_TYPE}}

\* While mm_sweep() runs, the cells below p are as they were when marking
\* ended, the ones above it are either live and untouched or on the free
\* list, and the free list holds all of the latter in order of address.
SweepsGarbage ==
  /\ pc \in {"sweep", "globals", "done"} =>
       /\ \A c \in Cell \ Swept :
            type[c] = heap0.type[c] /\ car[c] = heap0.car[c] /\ cdr[c] = heap0.cdr[c]
       /\ \A c \in Swept : type[c] # VECTOR_TYPE /\ cdr[c] = NextIn(Swept, c + 1)
       /\ free_cells = NextIn(Swept, 0)
       /\ mark = {c \in Live0 : c <= p}
       /\ flip = {}
  /\ used = Used0 \ Released

(***************************************************************************)
(* Refinement: mm_gc() implements the atomic collector.                    *)
(***************************************************************************)
Collected == pc = "done"

GC == INSTANCE Collector WITH
        heap       <- IF Collected THEN heap ELSE heap0,
        roots      <- {regs[i] : i \in 1 .. NRegs},
        free_cells <- IF Collected THEN free_cells ELSE NIL,
        used       <- IF Collected THEN used ELSE Used0,
        flags      <- IF Collected THEN mark \cup flip ELSE {},
        collected  <- Collected

\* mm_gc() does in many steps what the collector does in one.
Implements == GC!ASpec

\* mm_gc() returns: pointer reversal on a cyclic heap comes to an end.
Terminates == <>(pc = "done")
=============================================================================
