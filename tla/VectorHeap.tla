----------------------------- MODULE VectorHeap -----------------------------
(***************************************************************************)
(* The vector space (src/main/mm.c): the bytes of a vector are a block of  *)
(* consecutive cells that begins with a header.  Blocks are allocated one  *)
(* after the other; the collector marks the block of a vector that nothing *)
(* refers to as free; when the end is reached, mm_gc() is run and the used *)
(* blocks are moved to the front, which updates the VECTOR cell in the RAM *)
(* heap that points to each of them.                                       *)
(*                                                                         *)
(* A header and the bytes of a vector are stored in the same cells, so a   *)
(* cell of bytes is a [length, ram_ptr, used] too: what VECTOR_GET_LENGTH, *)
(* VECTOR_GET_RAM_PTR and VECTOR_IS_USED would read there.                 *)
(***************************************************************************)
EXTENDS Integers, Sequences, FiniteSets

CONSTANTS
  VectorEnd,     \* vector_heap_size
  Header,        \* the RAM cells that are free or VECTOR cells: 1 .. n
  Lengths,       \* the lengths in bytes of the vectors a program makes
  Data,          \* what five bytes of a vector may be
  WithinSpace,   \* do the vectors in use always fit in the vector space?
  NIL

ASSUME VectorEndAssumption == VectorEnd \in Nat
ASSUME HeaderAssumption == IsFiniteSet(Header)
ASSUME LengthsAssumption == Lengths \subseteq Nat
ASSUME NilAssumption == NIL \notin Nat
ASSUME DataAssumption == Data \subseteq [length : Nat, ram_ptr : Nat, used : BOOLEAN]

VARIABLES
  space,         \* [cells, start, free, header]: vector_heap, the VECTOR_START of each
                 \* RAM cell, vector_free_cells, the RAM cells of type VECTOR
  inUse,         \* the vectors a register or a global leads to, with their block sizes
  halted         \* "" or the FATAL message that stopped the virtual machine

vars == <<space, inUse, halted>>

sizeof_cell == 5
BlockSize(length) == (length + sizeof_cell - 1) \div sizeof_cell + 1

\* calloc
Init ==
  /\ space = [cells |-> [c \in 0 .. VectorEnd - 1 |-> [length |-> 0, ram_ptr |-> 0, used |-> FALSE]],
              start |-> [h \in Header |-> 0], free |-> 0, header |-> {}]
  /\ inUse = <<>>
  /\ halted = ""

-----------------------------------------------------------------------------
\* Mutant: the block is looked for where its bytes start.
mm_gc_AtStart(s, marked) ==
  [s EXCEPT !.header = @ \cap marked,
            !.cells = [c \in DOMAIN @ |-> IF \E h \in s.header \ marked : c = s.start[h]
                                         THEN [@[c] EXCEPT !.used = FALSE] ELSE @[c]]]

\* mm_sweep(): the VECTOR cells that are not marked give back their blocks.
mm_gc(s, marked) ==
  LET released == {s.start[h] - 1 : h \in s.header \ marked}
  IN [s EXCEPT !.header = @ \cap marked,
               !.cells = [c \in DOMAIN @ |-> IF c \in released THEN [@[c] EXCEPT !.used = FALSE]
                                                               ELSE @[c]]]

\* memcpy() of n cells, towards the front.
Copied(cells, from, to, n) ==
  [c \in DOMAIN cells |-> IF c \in to .. to + n - 1 THEN cells[from + c - to] ELSE cells[c]]

\* Mutant: the VECTOR cell is not told that its block moves.
Slide_Untold(s, size) ==
  [s EXCEPT !.cells = [Copied(@, s.cur, s.prev, size) EXCEPT ![s.cur].used = FALSE],
            !.prev = @ + size, !.cur = @ + size]

\* The three cases of the loop of mm_compact_vector_space(): the hole at prev grows
\* over cur, the block at cur moves to prev, or prev is not a hole.
Grow(s, size) == [s EXCEPT !.cur = @ + size]
Slide(s, size) ==
  [s EXCEPT !.start[s.cells[s.cur].ram_ptr] = s.prev + 1,
            !.cells = [Copied(@, s.cur, s.prev, size) EXCEPT ![s.cur].used = FALSE],
            !.prev = @ + size, !.cur = @ + size]
Pass(s, size) == [s EXCEPT !.prev = s.cur, !.cur = @ + size]

Step(s) ==
  LET size == s.cells[s.cur].length
  IN IF size = 0 THEN [s EXCEPT !.wrong = TRUE]
     ELSE IF s.prev = NIL \/ s.cells[s.prev].used THEN Pass(s, size)
     ELSE IF s.cells[s.cur].used THEN Slide(s, size) ELSE Grow(s, size)

\* The loop, for every block in front of vector_free_cells.
Compacted(s) ==
  LET first == [cur |-> 0, prev |-> NIL, wrong |-> FALSE, cells |-> s.cells, start |-> s.start]
      again(l) == l.cur < s.free /\ ~l.wrong
      loop[n \in 0 .. VectorEnd] ==
        IF n = 0 THEN first ELSE LET l == loop[n - 1] IN IF again(l) THEN Step(l) ELSE l
  IN loop[VectorEnd]

\* Mutant: vector_free_cells stays where it is.
mm_compact_vector_space_FreeKept(s) ==
  LET last == Compacted(s) IN [s EXCEPT !.cells = last.cells, !.start = last.start]

\* vector_free_cells becomes prev; NIL stands for FATAL.
mm_compact_vector_space(s) ==
  LET last == Compacted(s)
  IN [s EXCEPT !.cells = last.cells, !.start = last.start,
               !.free = IF last.wrong THEN NIL ELSE IF last.prev = NIL THEN 0 ELSE last.prev]

\* Mutant: the header is not counted.
NewBlock_NoHeader(s, h, n) ==
  [s EXCEPT !.cells[s.free] = [length |-> n, ram_ptr |-> h, used |-> TRUE],
            !.start[h] = s.free + 1, !.free = @ + n - 1]

\* mm_new_vector_cell(), when there is room: the block of cell h.
NewBlock(s, h, n) ==
  [s EXCEPT !.cells[s.free] = [length |-> n, ram_ptr |-> h, used |-> TRUE],
            !.start[h] = s.free + 1, !.free = @ + n]

Live == DOMAIN inUse
InUseWith(n) == Cardinality(UNION {{v} \X (1 .. inUse[v]) : v \in Live}) + n

-----------------------------------------------------------------------------
(***************************************************************************)
(* The operations.                                                         *)
(***************************************************************************)
Stop(message) == halted' = message /\ UNCHANGED <<space, inUse>>

\* new_vector(): a RAM cell, held by reg4, then its block.
NewVector(length) ==
  LET n == BlockSize(length)
      fits(s) == VectorEnd - s.free >= n
      swept == IF space.header = Header THEN mm_gc(space, Live) ELSE space
  IN /\ halted = ""
     /\ WithinSpace => InUseWith(n) <= VectorEnd
     /\ \/ swept.header = Header /\ Stop("MEMORY EXHAUSTED!!")
        \/ \E h \in Header \ swept.header :
             LET typed == [swept EXCEPT !.header = @ \cup {h}]
                 made == IF fits(typed) THEN typed
                         ELSE mm_compact_vector_space(mm_gc(typed, Live \cup {h}))
             IN IF made.free = NIL THEN Stop("Vector Heap Structure is wrong")
                ELSE IF ~fits(made) THEN Stop("No room for vector")
                ELSE /\ space' = NewBlock(made, h, n)
                     /\ inUse' = [v \in Live \cup {h} |-> IF v = h THEN n ELSE inUse[v]]
                     /\ UNCHANGED halted

\* u8vector-set!, on the cell that holds the byte
VectorSet(v, i, d) ==
  /\ halted = ""
  /\ space' = [space EXCEPT !.cells[space.start[v] + i - 1] = d]
  /\ UNCHANGED <<inUse, halted>>

\* The last reference to a vector goes away.
Unreference(v) ==
  /\ halted = ""
  /\ inUse' = [w \in Live \ {v} |-> inUse[w]]
  /\ UNCHANGED <<space, halted>>

\* mm_gc(), when the RAM cells are exhausted
Collect == halted = "" /\ space' = mm_gc(space, Live) /\ UNCHANGED <<inUse, halted>>

Next ==
  \/ \E length \in Lengths : NewVector(length)
  \/ \E v \in Live : Unreference(v) \/ \E i \in 1 .. inUse[v] - 1, d \in Data : VectorSet(v, i, d)
  \/ Collect

Spec == Init /\ [][Next]_vars

-----------------------------------------------------------------------------
\* The blocks, from the first cell to vector_free_cells, by the lengths in their headers.
Blocks ==
  LET next(b) == IF b < space.free THEN b + space.cells[b].length ELSE b
      at[n \in 0 .. VectorEnd] == IF n = 0 THEN 0 ELSE next(at[n - 1])
  IN {at[n] : n \in 0 .. VectorEnd}

\* The headers can be told from the bytes: they lead from one to the next and end at
\* vector_free_cells; a used block has a VECTOR cell that points to it and it to the cell.
BlocksTile ==
  /\ space.free \in Blocks
  /\ \A h \in space.header : space.start[h] - 1 \in Blocks \ {space.free}
  /\ \A b \in Blocks \ {space.free} :
       space.cells[b].used <=> \E h \in space.header : space.start[h] = b + 1
  /\ \A h \in space.header : space.cells[space.start[h] - 1].ram_ptr = h

\* "free space is now all at the end" (mm.c 338): what is beyond vector_free_cells is
\* part of no vector that the program still uses.
FreeAtEnd == \A v \in Live : space.start[v] - 1 + inUse[v] <= space.free

\* The compaction is there "to collect all free spaces in a single batch of bytes"
\* (mm.c 289-290): vectors that fit in the vector space are always given a block.
RoomIsFound == halted \notin {"No room for vector", "Vector Heap Structure is wrong"}

\* A vector keeps its bytes when others are made, moved and collected.
Kept == INSTANCE Vectors WITH
  Vector <- Header,
  vectors <- [v \in Live |-> [i \in 1 .. inUse[v] - 1 |-> space.cells[space.start[v] + i - 1]]]
VectorsKept == Kept!VSpec
=============================================================================
