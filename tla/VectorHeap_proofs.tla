-------------------------- MODULE VectorHeap_proofs --------------------------
(***************************************************************************)
(* Proofs about VectorHeap, for a vector space of any size, any number of  *)
(* RAM cells and any bytes, for programs whose vectors have blocks of one  *)
(* size.                                                                   *)
(***************************************************************************)
EXTENDS VectorHeap, FiniteSetTheorems, WellFoundedInduction, TLAPS

-----------------------------------------------------------------------------
(***************************************************************************)
(* Loops. VectorHeap writes a loop of the code as a function of the number *)
(* of its rounds, which refers to itself; that there is such a function,   *)
(* and that what each round preserves holds in the end, follows from the   *)
(* fact that a set of numbers has a least element.                         *)
(***************************************************************************)

\* A set of numbers has a least element.
LEMMA LeastNumber ==
  ASSUME NEW S, S \subseteq Nat, S # {}
  PROVE  \E n \in S : \A m \in S : n <= m
<1>1. IsWellFoundedOn(OpToRel(<, Nat), Nat)
  BY NatLessThanWellFounded
<1>2. PICK n \in S : \A m \in S : ~(<<m, n>> \in OpToRel(<, Nat))
  BY <1>1, WFMin
<1>3. \A m \in S : ~(m < n)
  BY <1>2 DEF OpToRel
<1> QED  BY <1>3

\* What holds at first and is kept by each round of a loop holds in every round.
\* (The set S stands for a property.)
LEMMA EveryRoundTo ==
  ASSUME NEW N \in Nat, NEW S, 0 \in S, \A n \in 0 .. N - 1 : n \in S => n + 1 \in S
  PROVE  \A n \in 0 .. N : n \in S
<1> SUFFICES ASSUME NEW k \in 0 .. N, k \notin S PROVE FALSE
  OBVIOUS
<1> DEFINE T == (0 .. N) \ S
<1>1. T \subseteq Nat /\ T # {}
  OBVIOUS
<1>2. PICK n \in T : \A m \in T : n <= m
  <2> HIDE DEF T
  <2> QED  BY <1>1, LeastNumber
<1>3. n # 0 /\ n - 1 \in 0 .. N - 1 /\ n - 1 \notin T
  BY <1>2
<1>4. (n - 1) + 1 \in S
  BY <1>3
<1> QED  BY <1>2, <1>4

\* g is a loop of N rounds from x on that does the same step in each.
IsLoop(g, x, step, N) == g[0] = x /\ \A n \in 1 .. N : g[n] = step[g[n - 1]]

\* There is one for any step.
LEMMA Rounds ==
  ASSUME NEW S, NEW x \in S, NEW step \in [S -> S], NEW N \in Nat
  PROVE  \E g \in [0 .. N -> S] : IsLoop(g, x, step, N)
<1> DEFINE Possible == {k \in 0 .. N : \E g \in [0 .. N -> S] : IsLoop(g, x, step, k)}
<1>1. 0 \in Possible
  <2> DEFINE g == [n \in 0 .. N |-> x]
  <2>1. g \in [0 .. N -> S] /\ g[0] = x
    OBVIOUS
  <2>2. IsLoop(g, x, step, 0)
    BY <2>1 DEF IsLoop
  <2> HIDE DEF g
  <2> QED  BY <2>1, <2>2
<1>2. ASSUME NEW k \in 0 .. N - 1, k \in Possible PROVE k + 1 \in Possible
  <2>1. PICK g \in [0 .. N -> S] : IsLoop(g, x, step, k)
    BY <1>2
  <2> DEFINE h == [g EXCEPT ![k + 1] = step[g[k]]]
  <2>2. step[g[k]] \in S
    <3>1. g[k] \in S
      OBVIOUS
    <3> QED  BY <3>1
  <2>3. h \in [0 .. N -> S]
    BY <2>2
  <2>4. h[0] = x
    BY <2>1 DEF IsLoop
  <2>5. ASSUME NEW n \in 1 .. k + 1 PROVE h[n] = step[h[n - 1]]
    <3>1. h[n - 1] = g[n - 1]
      OBVIOUS
    <3>2. CASE n = k + 1
      BY <3>1, <3>2
    <3>3. CASE n # k + 1
      BY <2>1, <3>1, <3>3 DEF IsLoop
    <3> QED  BY <3>2, <3>3
  <2>6. IsLoop(h, x, step, k + 1)
    BY <2>4, <2>5 DEF IsLoop
  <2> HIDE DEF h
  <2> QED  BY <2>3, <2>6
<1>3. N \in Possible
  <2> HIDE DEF Possible
  <2>1. \A k \in 0 .. N : k \in Possible
    BY <1>1, <1>2, EveryRoundTo
  <2> QED  BY <2>1
<1> QED  BY <1>3

-----------------------------------------------------------------------------
\* The vectors of the program take as many cells each.
OneSize == \A i, j \in Lengths : BlockSize(i) = BlockSize(j)

\* That many, or one if there are no vectors.
Size == IF Lengths = {} THEN 1 ELSE BlockSize(CHOOSE length \in Lengths : TRUE)

\* A block has a header.
LEMMA BlockSizeType ==
  ASSUME NEW length \in Nat
  PROVE  BlockSize(length) \in Nat /\ BlockSize(length) >= 1
BY DEF BlockSize, sizeof_cell

\* Size is the size of every block.
LEMMA SizeType ==
  /\ Size \in Nat /\ Size >= 1
  /\ OneSize => \A length \in Lengths : BlockSize(length) = Size
<1>1. CASE Lengths = {}
  BY <1>1 DEF Size
<1>2. CASE Lengths # {}
  <2>1. (CHOOSE length \in Lengths : TRUE) \in Lengths
    BY <1>2
  <2> QED  BY <1>2, <2>1, BlockSizeType, LengthsAssumption DEF Size, OneSize
<1> QED  BY <1>1, <1>2

-----------------------------------------------------------------------------
(* Where blocks can begin. *)

Block(b) == \E k \in Nat : b = k * Size

\* The first block begins at 0.
LEMMA FirstBlock == Block(0)
<1>1. 0 \in Nat /\ 0 = 0 * Size
  BY SizeType
<1> QED  BY <1>1 DEF Block

\* Blocks are at numbers.
LEMMA BlockType == ASSUME NEW b, Block(b) PROVE b \in Nat
<1>1. PICK k \in Nat : b = k * Size
  BY DEF Block
<1> QED  BY <1>1, SizeType

\* One block ends where another one can begin.
LEMMA NextBlock ==
  ASSUME NEW b, Block(b)
  PROVE  Block(b + Size)
<1>1. PICK k \in Nat : b = k * Size
  BY DEF Block
<1>2. k + 1 \in Nat /\ b + Size = (k + 1) * Size
  BY <1>1, SizeType
<1> QED  BY <1>2 DEF Block

\* Blocks do not overlap.
LEMMA BlocksDisjoint ==
  ASSUME NEW a, NEW b, Block(a), Block(b), a < b
  PROVE  a + Size <= b
<1>1. PICK j \in Nat : a = j * Size
  BY DEF Block
<1>2. PICK k \in Nat : b = k * Size
  BY DEF Block
<1>0. Size \in Nat
  BY SizeType
<1>3. j < k
  <2> SUFFICES ASSUME k <= j PROVE FALSE
    BY <1>1, <1>2
  <2>1. PICK d \in Nat : j = k + d
    BY j - k \in Nat
  <2>2. j * Size = k * Size + d * Size /\ d * Size >= 0 /\ j * Size \in Nat /\ k * Size \in Nat /\ d * Size \in Nat
    BY <2>1, <1>0
  <2> QED  BY <1>1, <1>2, <2>2
<1>4. PICK d \in Nat : k = j + 1 + d
  BY <1>3, k - j - 1 \in Nat
<1>5. k * Size = j * Size + Size + d * Size /\ d * Size >= 0 /\ j * Size \in Nat /\ d * Size \in Nat
  BY <1>4, <1>0
<1> QED  BY <1>0, <1>1, <1>2, <1>5

\* No block begins in the middle of another one.
LEMMA BytesAreNoBlock ==
  ASSUME NEW b, Block(b), NEW i \in 1 .. Size - 1
  PROVE  ~Block(b + i)
<1> SUFFICES ASSUME Block(b + i) PROVE FALSE
  OBVIOUS
<1>1. b \in Nat /\ Size \in Nat
  BY BlockType, SizeType
<1>2. b < b + i
  BY <1>1
<1>3. b + Size <= b + i
  BY <1>2, BlocksDisjoint
<1> QED  BY <1>1, <1>3

\* The bytes of two blocks are in different cells.
LEMMA BytesApart ==
  ASSUME NEW a, NEW b, Block(a), Block(b), a # b,
         NEW i \in 0 .. Size - 1, NEW j \in 0 .. Size - 1
  PROVE  a + i # b + j
<1>1. a \in Nat /\ b \in Nat /\ Size \in Nat
  BY BlockType, SizeType
<1>2. CASE a < b
  <2>1. a + Size <= b
    BY <1>2, BlocksDisjoint
  <2> QED  BY <1>1, <2>1
<1>3. CASE b < a
  <2>1. b + Size <= a
    BY <1>3, BlocksDisjoint
  <2> QED  BY <1>1, <2>1
<1> QED  BY <1>1, <1>2, <1>3

-----------------------------------------------------------------------------
(* What the vector space looks like. *)

Cells == [length : Nat, ram_ptr : Nat \cup Header, used : BOOLEAN]
Memory == [0 .. VectorEnd - 1 -> Cells]
Spaces == [cells : Memory, start : [Header -> Nat], free : Nat, header : SUBSET Header]

\* The blocks in front of an address.
Heads(free) == {b \in 0 .. free - 1 : Block(b)}

\* The block of a cell is where the cell says, and its header leads back.
Owns(cells, start, free, h) ==
  start[h] - 1 \in Heads(free) /\ cells[start[h] - 1].used /\ cells[start[h] - 1].ram_ptr = h

\* Blocks of one size, those in use each with a cell of H that points to it.
Sound(cells, start, free, H) ==
  /\ cells \in Memory /\ start \in [Header -> Nat] /\ H \subseteq Header
  /\ Block(free) /\ free <= VectorEnd
  /\ \A b \in Heads(free) : cells[b].length = Size
  /\ \A b \in Heads(free) : cells[b].used => \E h \in H : start[h] = b + 1
  /\ \A h \in H : Owns(cells, start, free, h)

\* The bytes of the vectors of H are the same in q as in s.
SameBytes(s, q, H) ==
  \A h \in H : \A i \in 1 .. Size - 1 : q.cells[q.start[h] + i - 1] = s.cells[s.start[h] + i - 1]

\* Blocks are cells.
LEMMA HeadsAreCells ==
  ASSUME NEW free, Block(free), free <= VectorEnd
  PROVE  /\ free \in Nat /\ Heads(free) \subseteq 0 .. VectorEnd - 1 /\ Heads(free) \subseteq Nat
         /\ \A b \in Heads(free) : /\ Block(b) /\ b < free /\ b + Size <= free
                                   /\ \A i \in 0 .. Size - 1 : b + i \in 0 .. VectorEnd - 1
<1>1. free \in Nat /\ VectorEnd \in Nat /\ Size \in Nat
  BY BlockType, SizeType, VectorEndAssumption
<1>2. Heads(free) \subseteq 0 .. VectorEnd - 1 /\ Heads(free) \subseteq Nat
  BY <1>1 DEF Heads
<1>3. ASSUME NEW b \in Heads(free)
      PROVE  /\ Block(b) /\ b < free /\ b + Size <= free
             /\ \A i \in 0 .. Size - 1 : b + i \in 0 .. VectorEnd - 1
  <2>1. Block(b) /\ b < free /\ b \in Nat
    BY <1>1 DEF Heads
  <2>2. b + Size <= free
    BY <2>1, BlocksDisjoint
  <2> QED  BY <1>1, <2>1, <2>2
<1> QED  BY <1>1, <1>2, <1>3

\* The cells that hold the bytes of a vector are no headers, and are in the vector space.
LEMMA BytesOf ==
  ASSUME NEW cells, NEW start, NEW free, NEW H, Sound(cells, start, free, H),
         NEW h \in H, NEW i \in 1 .. Size - 1
  PROVE  /\ start[h] + i - 1 \in 0 .. VectorEnd - 1
         /\ start[h] + i - 1 = (start[h] - 1) + i
         /\ ~Block(start[h] + i - 1)
<1>1. start[h] - 1 \in Heads(free) /\ start[h] \in Nat /\ Block(free) /\ free <= VectorEnd
  BY DEF Sound, Owns
<1>2. start[h] + i - 1 = (start[h] - 1) + i /\ i \in 0 .. Size - 1
  BY <1>1, SizeType
<1>3. Block(start[h] - 1) /\ (start[h] - 1) + i \in 0 .. VectorEnd - 1
  BY <1>1, <1>2, HeadsAreCells
<1> QED  BY <1>2, <1>3, BytesAreNoBlock

\* The vectors of H that are not marked have given their blocks back, and no byte has changed.
IsSwept(s, q, H, marked) ==
  /\ q \in Spaces /\ q.free = s.free /\ q.start = s.start /\ q.header = s.header \cap marked
  /\ Sound(q.cells, q.start, q.free, H \cap marked)
  /\ SameBytes(s, q, H)

\* That is what mm_gc() does.
LEMMA GcSound ==
  ASSUME NEW s \in Spaces, NEW H, NEW marked,
         Sound(s.cells, s.start, s.free, H), s.header \ marked = H \ marked
  PROVE  IsSwept(s, mm_gc(s, marked), H, marked)
<1> DEFINE q == mm_gc(s, marked)
           released == {s.start[h] - 1 : h \in H \ marked}
<1>1. /\ q = [s EXCEPT !.header = @ \cap marked, !.cells = q.cells]
      /\ q.cells = [c \in 0 .. VectorEnd - 1 |-> IF c \in released THEN [s.cells[c] EXCEPT !.used = FALSE]
                                                                   ELSE s.cells[c]]
  BY DEF mm_gc, Sound, Memory, Spaces
<1> HIDE DEF q
<1>2. q.cells \in Memory
  <2>1. \A c \in 0 .. VectorEnd - 1 : s.cells[c] \in Cells
    BY DEF Spaces, Memory
  <2>2. \A c \in Cells : [c EXCEPT !.used = FALSE] \in Cells
    BY DEF Cells
  <2> QED  BY <1>1, <2>1, <2>2 DEF Memory
<1>3. q \in Spaces /\ q.free = s.free /\ q.start = s.start /\ q.header = s.header \cap marked
  BY <1>1, <1>2 DEF Spaces
<1>4. Heads(s.free) \subseteq 0 .. VectorEnd - 1
  BY HeadsAreCells DEF Sound
<1>5. \A c \in 0 .. VectorEnd - 1 :
        /\ q.cells[c].length = s.cells[c].length /\ q.cells[c].ram_ptr = s.cells[c].ram_ptr
        /\ q.cells[c].used <=> s.cells[c].used /\ c \notin released
        /\ c \notin released => q.cells[c] = s.cells[c]
  <2> SUFFICES ASSUME NEW c \in 0 .. VectorEnd - 1
               PROVE  /\ q.cells[c].length = s.cells[c].length /\ q.cells[c].ram_ptr = s.cells[c].ram_ptr
                      /\ q.cells[c].used <=> s.cells[c].used /\ c \notin released
                      /\ c \notin released => q.cells[c] = s.cells[c]
    OBVIOUS
  <2>1. s.cells[c] \in Cells
    BY DEF Spaces, Memory
  <2>2. q.cells[c] = IF c \in released THEN [s.cells[c] EXCEPT !.used = FALSE] ELSE s.cells[c]
    BY <1>1
  <2> QED  BY <2>1, <2>2 DEF Cells
<1>6. \A h \in H : s.start[h] \in Nat /\ s.start[h] - 1 \in Heads(s.free)
  BY DEF Sound, Owns
<1>7. \A h \in H : s.start[h] - 1 \in released <=> h \notin marked
  <2> SUFFICES ASSUME NEW h \in H, s.start[h] - 1 \in released PROVE h \notin marked
    OBVIOUS
  <2>1. PICK k \in H \ marked : s.start[h] - 1 = s.start[k] - 1
    OBVIOUS
  <2>2. s.cells[s.start[h] - 1].ram_ptr = h /\ s.cells[s.start[k] - 1].ram_ptr = k
    BY DEF Sound, Owns
  <2> QED  BY <2>1, <2>2
<1>8. Sound(q.cells, q.start, q.free, H \cap marked)
  <2>1. \A b \in Heads(q.free) : q.cells[b].length = Size
    BY <1>3, <1>4, <1>5 DEF Sound
  <2>2. ASSUME NEW b \in Heads(q.free), q.cells[b].used PROVE \E h \in H \cap marked : q.start[h] = b + 1
    <3>1. s.cells[b].used /\ b \notin released
      BY <1>3, <1>4, <1>5, <2>2
    <3>2. PICK h \in H : s.start[h] = b + 1
      BY <1>3, <3>1 DEF Sound
    <3>3. s.start[h] - 1 = b
      BY <1>3, <1>4, <3>2
    <3>4. h \in marked
      BY <1>7, <3>1, <3>3
    <3> QED  BY <1>3, <3>2, <3>4
  <2>3. ASSUME NEW h \in H \cap marked PROVE Owns(q.cells, q.start, q.free, h)
    <3>1. s.start[h] - 1 \in Heads(s.free) /\ s.cells[s.start[h] - 1].used /\ s.cells[s.start[h] - 1].ram_ptr = h
      BY DEF Sound, Owns
    <3>2. s.start[h] - 1 \notin released
      BY <1>7
    <3> QED  BY <1>3, <1>4, <1>5, <3>1, <3>2 DEF Owns
  <2>4. q.start \in [Header -> Nat] /\ H \cap marked \subseteq Header /\ Block(q.free) /\ q.free <= VectorEnd
    BY <1>3 DEF Sound
  <2> QED  BY <1>2, <2>1, <2>2, <2>3, <2>4 DEF Sound
<1>9. SameBytes(s, q, H)
  <2> SUFFICES ASSUME NEW h \in H, NEW i \in 1 .. Size - 1
               PROVE  q.cells[s.start[h] + i - 1] = s.cells[s.start[h] + i - 1]
    BY <1>3 DEF SameBytes
  <2>1. s.start[h] + i - 1 \in 0 .. VectorEnd - 1 /\ ~Block(s.start[h] + i - 1)
    BY BytesOf
  <2>2. \A c \in released : Block(c)
    BY <1>6 DEF Heads
  <2> QED  BY <1>5, <2>1, <2>2
<1> QED  BY <1>3, <1>8, <1>9 DEF q, IsSwept

-----------------------------------------------------------------------------
(* The loop of mm_compact_vector_space(). *)

Loops == [cur : Nat, prev : Nat \cup {NIL}, wrong : BOOLEAN, cells : Memory, start : [Header -> Nat]]

\* The blocks the loop has passed: all in use up to prev, and none from there on if prev
\* is a hole; if it is none, it is the last one passed.
Packed(l) ==
  \/ l.prev = NIL /\ l.cur = 0
  \/ /\ l.prev \in Heads(l.cur)
     /\ \A b \in Heads(l.prev) : l.cells[b].used
     /\ l.cells[l.prev].used => l.prev + Size = l.cur
     /\ ~l.cells[l.prev].used => \A b \in Heads(l.cur) : b >= l.prev => ~l.cells[b].used

\* The loop, on the vectors of H, in the middle of the compaction of s.
LoopInv(s, H, l) ==
  /\ l \in Loops /\ ~l.wrong
  /\ Block(l.cur) /\ l.cur <= s.free
  /\ Sound(l.cells, l.start, s.free, H)
  /\ SameBytes(s, l, H)
  /\ Packed(l)

\* The cells q after n of them were copied, and the others kept.
IsCopied(q, cells, from, to, n) ==
  /\ q \in Memory
  /\ \A i \in 0 .. n - 1 : q[to + i] = cells[from + i]
  /\ \A c \in 0 .. VectorEnd - 1 : c < to \/ c >= to + n => q[c] = cells[c]

\* What a block that is moved leaves in the cells.
LEMMA CopiedIs ==
  ASSUME NEW cells \in Memory, NEW from \in Nat, NEW to \in Nat, NEW n \in Nat,
         to < from, from + n <= VectorEnd
  PROVE  IsCopied(Copied(cells, from, to, n), cells, from, to, n)
<1> DEFINE q == Copied(cells, from, to, n)
<1>0. VectorEnd \in Nat
  BY VectorEndAssumption
<1>1. q = [c \in 0 .. VectorEnd - 1 |-> IF c \in to .. to + n - 1 THEN cells[from + c - to] ELSE cells[c]]
  BY DEF Copied, Memory
<1> HIDE DEF q
<1>2. \A c \in to .. to + n - 1 : from + c - to \in 0 .. VectorEnd - 1
  BY <1>0
<1>3. q \in Memory
  BY <1>1, <1>2 DEF Memory
<1>4. ASSUME NEW i \in 0 .. n - 1 PROVE q[to + i] = cells[from + i]
  <2>1. to + i \in 0 .. VectorEnd - 1 /\ to + i \in to .. to + n - 1 /\ from + (to + i) - to = from + i
    BY <1>0
  <2>2. q[to + i] = cells[from + (to + i) - to]
    BY <1>1, <2>1
  <2> QED  BY <2>1, <2>2
<1>5. ASSUME NEW c \in 0 .. VectorEnd - 1, c < to \/ c >= to + n PROVE q[c] = cells[c]
  BY <1>0, <1>1, <1>5
<1> QED  BY <1>3, <1>4, <1>5 DEF q, IsCopied

\* The loop goes on to the next block when there is no hole behind it.
LEMMA PassKept ==
  ASSUME NEW s, NEW H, NEW l, LoopInv(s, H, l), l.cur < s.free,
         l.prev = NIL \/ l.cells[l.prev].used
  PROVE  LoopInv(s, H, Pass(l, Size)) /\ Pass(l, Size).cur = l.cur + Size
<1> DEFINE q == Pass(l, Size)
<1>0. Size \in Nat /\ Size >= 1
  BY SizeType
<1>1. /\ q.cur = l.cur + Size /\ q.prev = l.cur /\ q.cells = l.cells /\ q.start = l.start
      /\ q.wrong = l.wrong /\ q \in Loops
  <2>1. l \in Loops /\ l.cur \in Nat /\ l.cur + Size \in Nat
    BY <1>0 DEF LoopInv, Loops
  <2>2. q = [l EXCEPT !.prev = l.cur, !.cur = l.cur + Size]
    BY <2>1 DEF Pass, Loops
  <2> HIDE DEF q
  <2> QED  BY <2>1, <2>2 DEF Loops
<1> HIDE DEF q
<1>2. l.cur \in Nat /\ Block(l.cur) /\ l.cur \in Heads(q.cur)
  BY <1>0, <1>1, BlockType DEF LoopInv, Heads
<1>3. Block(q.cur) /\ q.cur <= s.free
  BY <1>1, NextBlock, BlocksDisjoint DEF LoopInv, Sound
<1>4. \A b \in Heads(l.cur) : l.cells[b].used
  <2>1. CASE l.prev = NIL /\ l.cur = 0
    BY <2>1 DEF Heads
  <2>2. CASE l.prev \in Heads(l.cur) /\ l.cells[l.prev].used
    <3>1. l.prev + Size = l.cur /\ Block(l.prev) /\ l.prev \in Nat
      BY <2>2, NilAssumption DEF LoopInv, Packed, Heads
    <3>2. \A b \in Heads(l.cur) : b \in Heads(l.prev) \/ b = l.prev
      <4> SUFFICES ASSUME NEW b \in Heads(l.cur), b > l.prev PROVE FALSE
        BY <1>2, <3>1 DEF Heads
      <4>1. l.prev + Size <= b
        BY <3>1, BlocksDisjoint DEF Heads
      <4> QED  BY <3>1, <4>1, <1>2 DEF Heads
    <3> QED  BY <2>2, <3>2, NilAssumption DEF LoopInv, Packed, Heads
  <2> QED  BY <2>1, <2>2, NilAssumption DEF LoopInv, Packed, Heads
<1>5. \A b \in Heads(q.cur) : b >= l.cur => b = l.cur
  <2> SUFFICES ASSUME NEW b \in Heads(q.cur), b > l.cur PROVE FALSE
    BY <1>0, <1>1, <1>2 DEF Heads
  <2>1. l.cur + Size <= b
    BY <1>2, BlocksDisjoint DEF Heads
  <2> QED  BY <1>0, <1>1, <1>2, <2>1 DEF Heads
<1>6. Packed(q)
  BY <1>1, <1>2, <1>4, <1>5 DEF Packed
<1>7. SameBytes(s, q, H) /\ Sound(q.cells, q.start, s.free, H) /\ ~q.wrong
  BY <1>1 DEF LoopInv, SameBytes
<1> QED  BY <1>1, <1>3, <1>6, <1>7 DEF LoopInv, q

\* A hole grows over the next one.
LEMMA GrowKept ==
  ASSUME NEW s, NEW H, NEW l, LoopInv(s, H, l), l.cur < s.free,
         l.prev # NIL, ~l.cells[l.prev].used, ~l.cells[l.cur].used
  PROVE  LoopInv(s, H, Grow(l, Size)) /\ Grow(l, Size).cur = l.cur + Size
<1> DEFINE q == Grow(l, Size)
<1>0. Size \in Nat /\ Size >= 1
  BY SizeType
<1>1. /\ q.cur = l.cur + Size /\ q.prev = l.prev /\ q.cells = l.cells /\ q.start = l.start
      /\ q.wrong = l.wrong /\ q \in Loops
  BY <1>0 DEF Grow, LoopInv, Loops
<1> HIDE DEF q
<1>2. /\ l.cur \in Nat /\ Block(l.cur) /\ l.prev \in Heads(l.cur)
      /\ \A b \in Heads(l.prev) : l.cells[b].used
      /\ \A b \in Heads(l.cur) : b >= l.prev => ~l.cells[b].used
  BY BlockType DEF LoopInv, Packed
<1>3. Block(q.cur) /\ q.cur <= s.free
  BY <1>1, NextBlock, BlocksDisjoint DEF LoopInv, Sound
<1>4. \A b \in Heads(q.cur) : b \in Heads(l.cur) \/ b = l.cur
  <2> SUFFICES ASSUME NEW b \in Heads(q.cur), b > l.cur PROVE FALSE
    BY <1>0, <1>1, <1>2 DEF Heads
  <2>1. l.cur + Size <= b
    BY <1>2, BlocksDisjoint DEF Heads
  <2> QED  BY <1>0, <1>1, <1>2, <2>1 DEF Heads
<1>5. l.prev \in Heads(q.cur)
  BY <1>0, <1>1, <1>2 DEF Heads
<1>6. Packed(q)
  BY <1>1, <1>2, <1>4, <1>5 DEF Packed
<1>7. SameBytes(s, q, H) /\ Sound(q.cells, q.start, s.free, H) /\ ~q.wrong
  BY <1>1 DEF LoopInv, SameBytes
<1> QED  BY <1>1, <1>3, <1>6, <1>7 DEF LoopInv, q

\* A block moves to the hole behind it, and its cell follows.
LEMMA SlideKept ==
  ASSUME NEW s, NEW H, NEW l, LoopInv(s, H, l), l.cur < s.free,
         l.prev # NIL, ~l.cells[l.prev].used, l.cells[l.cur].used
  PROVE  LoopInv(s, H, Slide(l, Size)) /\ Slide(l, Size).cur = l.cur + Size
<1> DEFINE q == Slide(l, Size)
           h == l.cells[l.cur].ram_ptr
           copy == Copied(l.cells, l.cur, l.prev, Size)
<1>0. Size \in Nat /\ Size >= 1 /\ VectorEnd \in Nat
  BY SizeType, VectorEndAssumption
<1>1. /\ l \in Loops /\ ~l.wrong
      /\ Block(l.cur) /\ l.cur \in Nat /\ l.prev \in Heads(l.cur)
      /\ \A b \in Heads(l.prev) : l.cells[b].used
      /\ \A b \in Heads(l.cur) : b >= l.prev => ~l.cells[b].used
  BY BlockType DEF LoopInv, Packed
<1>2. /\ Block(l.prev) /\ l.prev \in Nat /\ l.prev < l.cur /\ l.prev + Size <= l.cur
      /\ l.cur + Size <= s.free /\ s.free \in Nat /\ s.free <= VectorEnd
      /\ l.cur \in Heads(s.free) /\ l.prev \in Heads(s.free)
  <2>1. Block(s.free) /\ s.free \in Nat /\ s.free <= VectorEnd
    BY BlockType DEF LoopInv, Sound
  <2>2. Block(l.prev) /\ l.prev \in Nat /\ l.prev < l.cur
    BY <1>1 DEF Heads
  <2> QED  BY <1>1, <2>1, <2>2, BlocksDisjoint DEF Heads
<1>3. h \in H /\ l.start[h] = l.cur + 1
  <2>1. PICK k \in H : l.start[k] = l.cur + 1
    BY <1>2 DEF LoopInv, Sound
  <2>2. l.start[k] - 1 = l.cur
    BY <1>1, <2>1
  <2>3. h = k
    BY <2>2 DEF LoopInv, Sound, Owns
  <2> QED  BY <2>1, <2>3
<1>4. l.cells \in Memory /\ l.start \in [Header -> Nat] /\ H \subseteq Header
  BY DEF LoopInv, Sound
<1>5. /\ copy \in Memory
      /\ \A i \in 0 .. Size - 1 : copy[l.prev + i] = l.cells[l.cur + i]
      /\ \A c \in 0 .. VectorEnd - 1 : c < l.prev \/ c >= l.prev + Size => copy[c] = l.cells[c]
  <2>1. l.cur + Size <= VectorEnd
    BY <1>0, <1>1, <1>2
  <2>2. l.cur \in Nat /\ l.prev \in Nat /\ Size \in Nat /\ l.prev < l.cur
    BY <1>0, <1>1, <1>2
  <2>3. IsCopied(copy, l.cells, l.cur, l.prev, Size)
    BY <1>4, <2>1, <2>2, CopiedIs
  <2> HIDE DEF copy
  <2> QED  BY <2>3 DEF IsCopied
<1>6. /\ q.cur = l.cur + Size /\ q.prev = l.prev + Size /\ q.wrong = l.wrong
      /\ q.cells = [copy EXCEPT ![l.cur].used = FALSE] /\ q.start = [l.start EXCEPT ![h] = l.prev + 1]
      /\ q \in Loops
  <2> DEFINE cells == [copy EXCEPT ![l.cur].used = FALSE]
             start == [l.start EXCEPT ![h] = l.prev + 1]
  <2>1. q = [l EXCEPT !.start = start, !.cells = cells, !.prev = l.prev + Size, !.cur = l.cur + Size]
    BY <1>1 DEF Slide, Loops
  <2>2. start \in [Header -> Nat]
    BY <1>2, <1>3, <1>4
  <2>3. cells \in Memory
    <3>1. \A c \in Cells : [c EXCEPT !.used = FALSE] \in Cells
      BY DEF Cells
    <3> QED  BY <1>5, <3>1 DEF Memory
  <2>4. l.prev + Size \in Nat /\ l.cur + Size \in Nat
    BY <1>0, <1>1, <1>2
  <2> HIDE DEF q, cells, start
  <2>5. /\ q.cur = l.cur + Size /\ q.prev = l.prev + Size /\ q.wrong = l.wrong
        /\ q.cells = cells /\ q.start = start /\ q \in Loops
    BY <1>1, <2>1, <2>2, <2>3, <2>4 DEF Loops
  <2> QED  BY <2>5 DEF cells, start
<1> HIDE DEF q, copy
<1>7. ASSUME NEW c \in 0 .. VectorEnd - 1, c # l.cur PROVE q.cells[c] = copy[c]
  BY <1>5, <1>6, <1>7 DEF Memory
<1>8. ~q.cells[l.cur].used /\ q.cells[l.cur].length = Size
  <2>1. l.cur \in 0 .. VectorEnd - 1
    BY <1>0, <1>1, <1>2
  <2>2. copy[l.cur] = l.cells[l.cur] /\ l.cells[l.cur] \in Cells
    BY <1>0, <1>2, <1>4, <1>5, <2>1 DEF Memory
  <2>3. l.cells[l.cur].length = Size
    BY <1>2 DEF LoopInv, Sound
  <2>4. q.cells[l.cur] = [copy[l.cur] EXCEPT !.used = FALSE]
    BY <1>5, <1>6, <2>1 DEF Memory
  <2> QED  BY <2>2, <2>3, <2>4 DEF Cells
<1>9. \A i \in 0 .. Size - 1 : q.cells[l.prev + i] = l.cells[l.cur + i]
  <2> SUFFICES ASSUME NEW i \in 0 .. Size - 1 PROVE q.cells[l.prev + i] = l.cells[l.cur + i]
    OBVIOUS
  <2>1. l.prev + i \in 0 .. VectorEnd - 1 /\ l.prev + i # l.cur
    BY <1>0, <1>1, <1>2
  <2> QED  BY <1>5, <1>7, <2>1
<1>10. q.cells[l.prev] = l.cells[l.cur]
  <2>1. 0 \in 0 .. Size - 1 /\ l.prev + 0 = l.prev /\ l.cur + 0 = l.cur
    BY <1>0, <1>1, <1>2
  <2> QED  BY <1>9, <2>1
<1>11. \A b : Block(b) /\ b # l.prev /\ b # l.cur =>
         \A i \in 0 .. Size - 1 : b + i \in 0 .. VectorEnd - 1 => q.cells[b + i] = l.cells[b + i]
  <2> SUFFICES ASSUME NEW b, Block(b), b # l.prev, b # l.cur,
                      NEW i \in 0 .. Size - 1, b + i \in 0 .. VectorEnd - 1
               PROVE  q.cells[b + i] = l.cells[b + i]
    OBVIOUS
  <2>1. b \in Nat
    BY BlockType
  <2>2. b + i # l.cur
    <3>1. 0 \in 0 .. Size - 1 /\ l.cur + 0 = l.cur
      BY <1>0, <1>1
    <3> QED  BY <1>1, <3>1, BytesApart
  <2>3. b + i < l.prev \/ b + i >= l.prev + Size
    <3>1. CASE b < l.prev
      BY <1>0, <1>2, <2>1, <3>1, BlocksDisjoint
    <3>2. CASE l.prev < b
      BY <1>0, <1>2, <2>1, <3>2, BlocksDisjoint
    <3> QED  BY <1>2, <2>1, <3>1, <3>2
  <2> QED  BY <1>5, <1>7, <2>2, <2>3
<1>12. ASSUME NEW b \in Heads(s.free), b # l.prev, b # l.cur PROVE q.cells[b] = l.cells[b]
  <2>1. Block(b) /\ 0 \in 0 .. Size - 1 /\ b + 0 = b /\ b \in 0 .. VectorEnd - 1
    BY <1>0, <1>2 DEF Heads
  <2> QED  BY <1>11, <1>12, <2>1
<1>13. q.start[h] = l.prev + 1 /\ \A k \in H : k # h => q.start[k] = l.start[k]
  BY <1>3, <1>4, <1>6
<1>14. \A k \in H : k # h => /\ l.start[k] - 1 \in Heads(s.free) /\ l.start[k] - 1 # l.cur
                             /\ l.start[k] - 1 # l.prev /\ l.start[k] \in Nat
  <2> SUFFICES ASSUME NEW k \in H, k # h
               PROVE  /\ l.start[k] - 1 \in Heads(s.free) /\ l.start[k] - 1 # l.cur
                      /\ l.start[k] - 1 # l.prev /\ l.start[k] \in Nat
    OBVIOUS
  <2>1. Owns(l.cells, l.start, s.free, k) /\ l.start[k] \in Nat
    BY <1>4 DEF LoopInv, Sound
  <2> QED  BY <2>1 DEF Owns
<1>15. Sound(q.cells, q.start, s.free, H)
  <2>1. ASSUME NEW b \in Heads(s.free) PROVE q.cells[b].length = Size
    <3>1. l.cells[b].length = Size /\ l.cells[l.cur].length = Size
      BY <1>2 DEF LoopInv, Sound
    <3> QED  BY <1>8, <1>10, <1>12, <3>1
  <2>2. ASSUME NEW b \in Heads(s.free), q.cells[b].used PROVE \E k \in H : q.start[k] = b + 1
    <3>1. CASE b = l.prev
      BY <1>3, <1>13, <3>1
    <3>2. CASE b # l.prev
      <4>1. b # l.cur /\ l.cells[b].used /\ b \in Nat
        BY <1>8, <1>12, <2>2, <3>2 DEF Heads
      <4>2. PICK k \in H : l.start[k] = b + 1
        BY <4>1 DEF LoopInv, Sound
      <4>3. k # h
        BY <1>1, <1>3, <4>1, <4>2
      <4> QED  BY <1>13, <4>2, <4>3
    <3> QED  BY <3>1, <3>2
  <2>3. ASSUME NEW k \in H PROVE Owns(q.cells, q.start, s.free, k)
    <3>1. CASE k = h
      <4>1. q.start[k] - 1 = l.prev
        BY <1>2, <1>13, <3>1
      <4> QED  BY <1>2, <1>10, <3>1, <4>1 DEF Owns
    <3>2. CASE k # h
      <4>1. Owns(l.cells, l.start, s.free, k)
        BY DEF LoopInv, Sound
      <4>2. q.start[k] = l.start[k] /\ q.cells[l.start[k] - 1] = l.cells[l.start[k] - 1]
        BY <1>12, <1>13, <1>14, <3>2
      <4> QED  BY <4>1, <4>2 DEF Owns
    <3> QED  BY <3>1, <3>2
  <2>4. q.cells \in Memory /\ q.start \in [Header -> Nat] /\ Block(s.free)
    BY <1>6 DEF Loops, LoopInv, Sound
  <2> QED  BY <1>2, <1>4, <2>1, <2>2, <2>3, <2>4 DEF Sound
<1>16. SameBytes(s, q, H)
  <2> SUFFICES ASSUME NEW k \in H, NEW i \in 1 .. Size - 1
               PROVE  q.cells[q.start[k] + i - 1] = l.cells[l.start[k] + i - 1]
    BY DEF LoopInv, SameBytes
  <2>0. i \in 0 .. Size - 1 /\ i \in Nat
    BY <1>0
  <2>1. CASE k = h
    <3>1. q.start[k] + i - 1 = l.prev + i /\ l.start[k] + i - 1 = l.cur + i
      BY <1>1, <1>2, <1>3, <1>13, <2>0, <2>1
    <3> QED  BY <1>9, <2>0, <3>1
  <2>2. CASE k # h
    <3> DEFINE b == l.start[k] - 1
    <3>1. b \in Heads(s.free) /\ b # l.cur /\ b # l.prev /\ b + i = l.start[k] + i - 1
      BY <1>14, <2>0, <2>2
    <3>2. b + i \in 0 .. VectorEnd - 1 /\ Block(b)
      <4> HIDE DEF b
      <4> QED  BY <1>2, <2>0, <3>1, HeadsAreCells DEF LoopInv, Sound
    <3>3. q.cells[b + i] = l.cells[b + i]
      <4> HIDE DEF b
      <4> QED  BY <1>11, <2>0, <3>1, <3>2
    <3> QED  BY <1>13, <2>2, <3>1, <3>3
  <2> QED  BY <2>1, <2>2
<1>17. Block(q.cur) /\ q.cur <= s.free /\ Block(q.prev) /\ q.prev \in Nat /\ q.cur \in Nat
  BY <1>0, <1>1, <1>2, <1>6, NextBlock
<1>18. Packed(q)
  <2>1. q.prev \in Heads(q.cur)
    BY <1>0, <1>1, <1>2, <1>6, <1>17 DEF Heads
  <2>2. \A b \in Heads(q.cur) : b \in Heads(s.free) /\ b \in Nat
    BY <1>17, <1>2 DEF Heads
  <2>3. ASSUME NEW b \in Heads(q.prev) PROVE q.cells[b].used
    <3>1. b \in Heads(q.cur)
      BY <1>0, <1>1, <1>2, <1>6, <2>1 DEF Heads
    <3>2. CASE b = l.prev
      BY <1>10, <3>2
    <3>3. CASE b # l.prev
      <4>1. b < l.prev
        <5> SUFFICES ASSUME l.prev < b PROVE FALSE
          BY <1>2, <2>2, <3>1, <3>3
        <5>1. l.prev + Size <= b
          BY <1>2, BlocksDisjoint DEF Heads
        <5> QED  BY <1>0, <1>2, <1>6, <2>2, <3>1, <5>1 DEF Heads
      <4>2. b \in Heads(l.prev) /\ b # l.cur
        BY <1>1, <1>2, <2>2, <3>1, <4>1 DEF Heads
      <4> QED  BY <1>1, <1>12, <2>2, <3>1, <3>3, <4>2
    <3> QED  BY <3>2, <3>3
  <2>4. ASSUME NEW b \in Heads(q.cur), b >= q.prev PROVE ~q.cells[b].used
    <3>0. b # l.prev /\ b \in Nat /\ b >= l.prev /\ Block(b)
      BY <1>0, <1>2, <1>6, <2>2, <2>4 DEF Heads
    <3>1. CASE b = l.cur
      BY <1>8, <3>1
    <3>2. CASE b # l.cur
      <4>1. b < l.cur
        <5> SUFFICES ASSUME l.cur < b PROVE FALSE
          BY <1>1, <3>0, <3>2
        <5>1. l.cur + Size <= b
          BY <1>1, <3>0, BlocksDisjoint
        <5> QED  BY <1>0, <1>1, <1>6, <3>0, <5>1 DEF Heads
      <4>2. b \in Heads(l.cur)
        BY <1>1, <3>0, <4>1 DEF Heads
      <4> QED  BY <1>1, <1>12, <2>2, <3>0, <3>2, <4>2
    <3> QED  BY <3>1, <3>2
  <2>5. ~q.cells[q.prev].used
    <3>1. q.prev >= q.prev
      BY <1>17
    <3> QED  BY <2>1, <2>4, <3>1
  <2> QED  BY <2>1, <2>3, <2>4, <2>5 DEF Packed
<1> QED  BY <1>1, <1>6, <1>15, <1>16, <1>17, <1>18 DEF LoopInv, q

\* The loop as it starts, and what one more round of it does.
First(s) == [cur |-> 0, prev |-> NIL, wrong |-> FALSE, cells |-> s.cells, start |-> s.start]
Again(s, l) == IF l.cur < s.free /\ ~l.wrong THEN Step(l) ELSE l

\* A round takes the next block, whichever of the three cases it is.
LEMMA RoundKept ==
  ASSUME NEW s, NEW H, NEW l, LoopInv(s, H, l)
  PROVE  /\ LoopInv(s, H, Again(s, l))
         /\ l.cur < s.free => Again(s, l).cur = l.cur + Size
         /\ ~(l.cur < s.free) => Again(s, l) = l
<1>1. CASE ~(l.cur < s.free)
  BY <1>1 DEF Again
<1>2. CASE l.cur < s.free
  <2>1. Again(s, l) = Step(l)
    BY <1>2 DEF Again, LoopInv
  <2>2. l.cells[l.cur].length = Size /\ Size # 0
    <3>1. l.cur \in Heads(s.free)
      BY <1>2, BlockType DEF LoopInv, Sound, Heads
    <3> QED  BY <3>1, SizeType DEF LoopInv, Sound
  <2>3. CASE l.prev = NIL \/ l.cells[l.prev].used
    <3>1. Step(l) = Pass(l, Size)
      BY <2>2, <2>3 DEF Step
    <3> QED  BY <1>2, <2>1, <2>3, <3>1, PassKept
  <2>4. CASE l.prev # NIL /\ ~l.cells[l.prev].used /\ l.cells[l.cur].used
    <3>1. Step(l) = Slide(l, Size)
      BY <2>2, <2>4 DEF Step
    <3> QED  BY <1>2, <2>1, <2>4, <3>1, SlideKept
  <2>5. CASE l.prev # NIL /\ ~l.cells[l.prev].used /\ ~l.cells[l.cur].used
    <3>1. Step(l) = Grow(l, Size)
      BY <2>2, <2>5 DEF Step
    <3> QED  BY <1>2, <2>1, <2>5, <3>1, GrowKept
  <2> QED  BY <2>3, <2>4, <2>5
<1> QED  BY <1>1, <1>2

\* The loop starts with no block behind it.
LEMMA FirstRound ==
  ASSUME NEW s \in Spaces, NEW H, Sound(s.cells, s.start, s.free, H)
  PROVE  LoopInv(s, H, First(s))
<1>1. First(s) \in Loops /\ ~First(s).wrong
  BY DEF First, Loops, Spaces
<1>2. Block(First(s).cur) /\ First(s).cur <= s.free
  BY FirstBlock DEF First, Spaces
<1>3. Sound(First(s).cells, First(s).start, s.free, H) /\ SameBytes(s, First(s), H) /\ Packed(First(s))
  BY DEF First, SameBytes, Packed
<1> QED  BY <1>1, <1>2, <1>3 DEF LoopInv

\* The loop passes all blocks.
LEMMA CompactedIs ==
  ASSUME NEW s \in Spaces, NEW H, Sound(s.cells, s.start, s.free, H)
  PROVE  LoopInv(s, H, Compacted(s)) /\ Compacted(s).cur = s.free
<1> DEFINE S == {l \in Loops : LoopInv(s, H, l)}
           Loop(g) == [n \in 0 .. VectorEnd |-> IF n = 0 THEN First(s) ELSE Again(s, g[n - 1])]
           step == [l \in S |-> Again(s, l)]
<1>0. VectorEnd \in Nat /\ s.free \in Nat /\ s.free <= VectorEnd /\ Size \in Nat /\ Size >= 1
  BY VectorEndAssumption, SizeType DEF Spaces, Sound
<1>1. step \in [S -> S]
  <2>1. \A l \in S : Again(s, l) \in S
    BY RoundKept DEF LoopInv
  <2> HIDE DEF S
  <2> QED  BY <2>1
<1>2. First(s) \in S
  BY FirstRound DEF LoopInv
<1>3. PICK g \in [0 .. VectorEnd -> S] : IsLoop(g, First(s), step, VectorEnd)
  <2> HIDE DEF step, S
  <2> QED  BY <1>0, <1>1, <1>2, Rounds
<1>4. g[0] = First(s) /\ \A n \in 1 .. VectorEnd : g[n] = Again(s, g[n - 1])
  <2>1. ASSUME NEW n \in 1 .. VectorEnd PROVE g[n] = Again(s, g[n - 1])
    <3>1. g[n - 1] \in S
      <4> HIDE DEF S
      <4> QED  BY <1>0
    <3> HIDE DEF S
    <3> QED  BY <1>3, <3>1 DEF IsLoop
  <2> QED  BY <1>3, <2>1 DEF IsLoop
<1>5. g = Loop(g)
  <2> HIDE DEF S
  <2> QED  BY <1>0, <1>4
<1> DEFINE f == CHOOSE h : h = Loop(h)
<1>6. f = Loop(f)
  BY <1>5
<1>7. Compacted(s) = f[VectorEnd]
  BY DEF Compacted, First, Again
<1>8. f[0] = First(s) /\ \A n \in 1 .. VectorEnd : f[n] = Again(s, f[n - 1])
  <2>1. \A n \in 0 .. VectorEnd : Loop(f)[n] = IF n = 0 THEN First(s) ELSE Again(s, f[n - 1])
    OBVIOUS
  <2> HIDE DEF f, Loop
  <2> QED  BY <1>0, <1>6, <2>1
<1> HIDE DEF f
<1> DEFINE T == {n \in 0 .. VectorEnd : LoopInv(s, H, f[n]) /\ (f[n].cur >= n \/ f[n].cur = s.free)}
<1>9. 0 \in T
  BY <1>0, <1>8, FirstRound DEF First
<1>10. ASSUME NEW n \in 0 .. VectorEnd - 1, n \in T PROVE n + 1 \in T
  <2> DEFINE l == f[n]
  <2>1. LoopInv(s, H, l) /\ (l.cur >= n \/ l.cur = s.free) /\ l.cur \in Nat /\ l.cur <= s.free
    BY <1>10 DEF LoopInv, Loops
  <2>2. f[n + 1] = Again(s, l)
    <3>1. n + 1 \in 1 .. VectorEnd /\ (n + 1) - 1 = n
      BY <1>0
    <3> QED  BY <1>8, <3>1
  <2> HIDE DEF l
  <2>3. LoopInv(s, H, f[n + 1])
    BY <2>1, <2>2, RoundKept
  <2>4. CASE l.cur < s.free
    <3>1. f[n + 1].cur = l.cur + Size
      BY <2>1, <2>2, <2>4, RoundKept
    <3> QED  BY <1>0, <2>1, <2>3, <2>4, <3>1
  <2>5. CASE ~(l.cur < s.free)
    <3>1. f[n + 1] = l
      BY <2>1, <2>2, <2>5, RoundKept
    <3> QED  BY <1>0, <2>1, <2>3, <2>5, <3>1
  <2> QED  BY <2>4, <2>5
<1>11. VectorEnd \in T
  <2> HIDE DEF T
  <2>1. \A n \in 0 .. VectorEnd : n \in T
    BY <1>0, <1>9, <1>10, EveryRoundTo
  <2> QED  BY <1>0, <2>1
<1>12. LoopInv(s, H, f[VectorEnd]) /\ f[VectorEnd].cur = s.free
  <2>1. f[VectorEnd].cur \in Nat /\ f[VectorEnd].cur <= s.free
    BY <1>11 DEF LoopInv, Loops
  <2> QED  BY <1>0, <1>11, <2>1
<1> QED  BY <1>7, <1>12

-----------------------------------------------------------------------------
(* What the compaction gains. *)

\* Blocks that are all in use are as many as their vectors.
LEMMA FullSpace ==
  ASSUME NEW cells, NEW start, NEW free, NEW H, Sound(cells, start, free, H), IsFiniteSet(H),
         \A b \in Heads(free) : cells[b].used
  PROVE  Cardinality(H) \in Nat /\ free <= Cardinality(H) * Size
<1>0. Size \in Nat /\ Size >= 1 /\ free \in Nat /\ Cardinality(H) \in Nat
  BY SizeType, BlockType, FS_CardinalityType DEF Sound
<1>1. PICK m \in Nat : free = m * Size
  BY DEF Sound, Block
<1>2. \A k \in 1 .. m : (k - 1) * Size \in Heads(free)
  <2> SUFFICES ASSUME NEW k \in 1 .. m PROVE (k - 1) * Size \in Heads(free)
    OBVIOUS
  <2>1. PICK d \in Nat : m = (k - 1) + 1 + d
    BY m - k \in Nat
  <2>2. k - 1 \in Nat
    OBVIOUS
  <2>3. m * Size = (k - 1) * Size + Size + d * Size /\ (k - 1) * Size \in Nat /\ d * Size \in Nat
    BY <1>0, <2>1, <2>2
  <2>4. Block((k - 1) * Size)
    BY <2>2 DEF Block
  <2> QED  BY <1>0, <1>1, <2>3, <2>4 DEF Heads
<1>3. \A k \in 1 .. m : \E h \in H : start[h] = (k - 1) * Size + 1
  BY <1>2 DEF Sound
<1> DEFINE f == [k \in 1 .. m |-> CHOOSE h \in H : start[h] = (k - 1) * Size + 1]
<1>4. f \in [1 .. m -> H] /\ \A k \in 1 .. m : start[f[k]] = (k - 1) * Size + 1
  BY <1>3
<1> HIDE DEF f
<1>5. ASSUME NEW j \in 1 .. m, NEW k \in 1 .. m, f[j] = f[k] PROVE j = k
  <2>1. (j - 1) * Size + 1 = (k - 1) * Size + 1
    BY <1>4, <1>5
  <2>2. j - 1 \in Nat /\ k - 1 \in Nat
    OBVIOUS
  <2>3. (j - 1) * Size \in Nat /\ (k - 1) * Size \in Nat
    BY <1>0, <2>2
  <2>4. (j - 1) * Size = (k - 1) * Size
    BY <2>1, <2>3
  <2>5. j - 1 = k - 1
    BY <1>0, <2>2, <2>4
  <2> QED  BY <2>5
<1>6. f \in Injection(1 .. m, H)
  BY <1>4, <1>5 DEF Injection, IsInjective
<1>7. Cardinality(1 .. m) <= Cardinality(H)
  BY <1>6, FS_Injection
<1>8. m <= Cardinality(H)
  <2>1. Cardinality(1 .. m) = IF 1 > m THEN 0 ELSE m - 1 + 1
    BY FS_Interval, 1 \in Int, m \in Int
  <2> QED  BY <1>0, <1>7, <2>1
<1>9. PICK d \in Nat : Cardinality(H) = m + d
  BY <1>0, <1>8, Cardinality(H) - m \in Nat
<1>10. Cardinality(H) * Size = m * Size + d * Size /\ d * Size \in Nat /\ m * Size \in Nat
  BY <1>0, <1>9
<1> QED  BY <1>0, <1>1, <1>10

\* The vectors of H leave room for another one.
RoomFor(H) == IsFiniteSet(H) /\ Cardinality(H) * Size + Size <= VectorEnd

\* mm_compact_vector_space() finds a block when there is room for one, keeps the bytes of the
\* vectors, and their cells lead to their blocks.
LEMMA CompactionMakesRoom ==
  ASSUME NEW s \in Spaces, NEW H, Sound(s.cells, s.start, s.free, H), RoomFor(H),
         VectorEnd - s.free < Size
  PROVE  LET q == mm_compact_vector_space(s)
         IN /\ q \in Spaces /\ q.header = s.header
            /\ VectorEnd - q.free >= Size
            /\ Sound(q.cells, q.start, q.free, H)
            /\ SameBytes(s, q, H)
<1> DEFINE l == Compacted(s)
           q == mm_compact_vector_space(s)
<1>0. /\ Size \in Nat /\ Size >= 1 /\ VectorEnd \in Nat /\ s.free \in Nat /\ s.free <= VectorEnd
      /\ Cardinality(H) \in Nat /\ Cardinality(H) * Size \in Nat
  BY SizeType, VectorEndAssumption, FS_CardinalityType DEF Spaces, Sound, RoomFor
<1>1. LoopInv(s, H, l) /\ l.cur = s.free
  BY CompactedIs
<1>2. q = [s EXCEPT !.cells = l.cells, !.start = l.start,
                    !.free = IF l.wrong THEN NIL ELSE IF l.prev = NIL THEN 0 ELSE l.prev]
  BY DEF mm_compact_vector_space
<1> HIDE DEF l, q
<1>3. l.prev \in Heads(s.free) /\ l.prev \in Nat /\ l.prev # NIL
  <2>1. ~(l.prev = NIL /\ l.cur = 0)
    BY <1>0, <1>1 DEF RoomFor
  <2>2. l.prev \in Heads(s.free)
    BY <1>1, <2>1 DEF LoopInv, Packed
  <2> QED  BY <2>2, NilAssumption DEF Heads
<1>4. \A b \in Heads(s.free) : b < l.prev => l.cells[b].used
  <2>1. \A b \in Heads(s.free) : b < l.prev => b \in Heads(l.prev)
    BY <1>0, <1>3 DEF Heads
  <2> QED  BY <1>1, <1>3, <2>1 DEF LoopInv, Packed
<1>5. ~l.cells[l.prev].used
  <2> SUFFICES ASSUME l.cells[l.prev].used PROVE FALSE
    OBVIOUS
  <2>1. l.prev + Size = s.free
    BY <1>1, <1>3 DEF LoopInv, Packed
  <2>2. ASSUME NEW b \in Heads(s.free) PROVE l.cells[b].used
    <3>1. ~(l.prev < b)
      <4> SUFFICES ASSUME l.prev < b PROVE FALSE
        OBVIOUS
      <4>1. l.prev + Size <= b
        BY <1>3, BlocksDisjoint DEF Heads
      <4> QED  BY <1>0, <2>1, <4>1 DEF Heads
    <3>2. b < l.prev \/ b = l.prev
      BY <1>3, <3>1 DEF Heads
    <3> QED  BY <1>4, <3>2
  <2>3. s.free <= Cardinality(H) * Size
    BY <1>1, <2>2, FullSpace DEF LoopInv, RoomFor
  <2> QED  BY <1>0, <2>3 DEF RoomFor
<1>6. \A b \in Heads(s.free) : b >= l.prev => ~l.cells[b].used
  BY <1>1, <1>3, <1>5 DEF LoopInv, Packed
<1>7. /\ q.cells = l.cells /\ q.start = l.start /\ q.free = l.prev /\ q.header = s.header
      /\ q \in Spaces
  <2>1. l.cells \in Memory /\ l.start \in [Header -> Nat] /\ ~l.wrong
    BY <1>1 DEF LoopInv, Sound
  <2>2. q = [s EXCEPT !.cells = l.cells, !.start = l.start, !.free = l.prev]
    BY <1>2, <1>3, <2>1
  <2> QED  BY <1>3, <2>1, <2>2 DEF Spaces
<1>8. l.prev + Size <= s.free /\ Block(l.prev) /\ l.prev <= VectorEnd
  <2>1. Block(l.prev) /\ l.prev < s.free
    BY <1>0, <1>3 DEF Heads
  <2>2. l.prev + Size <= s.free
    BY <2>1, BlocksDisjoint DEF Sound
  <2> QED  BY <1>0, <1>3, <2>1, <2>2
<1>9. VectorEnd - q.free >= Size
  BY <1>0, <1>3, <1>7, <1>8
<1>10. Sound(q.cells, q.start, q.free, H)
  <2>0. Sound(l.cells, l.start, s.free, H)
    BY <1>1 DEF LoopInv
  <2>1. \A b \in Heads(l.prev) : b \in Heads(s.free)
    BY <1>0, <1>3 DEF Heads
  <2>2. ASSUME NEW h \in H PROVE Owns(l.cells, l.start, l.prev, h)
    <3>1. l.start[h] - 1 \in Heads(s.free) /\ l.cells[l.start[h] - 1].used /\ l.cells[l.start[h] - 1].ram_ptr = h
      BY <2>0 DEF Sound, Owns
    <3>2. ~(l.start[h] - 1 >= l.prev)
      BY <1>6, <3>1
    <3>3. l.start[h] - 1 \in Heads(l.prev)
      BY <1>3, <3>1, <3>2 DEF Heads
    <3> QED  BY <3>1, <3>3 DEF Owns
  <2> QED  BY <1>7, <1>8, <2>0, <2>1, <2>2 DEF Sound
<1>11. SameBytes(s, q, H)
  BY <1>1, <1>7 DEF LoopInv, SameBytes
<1> QED  BY <1>7, <1>9, <1>10, <1>11 DEF q

\* A new block at the end of the others.
LEMMA NewBlockSound ==
  ASSUME NEW s \in Spaces, NEW H, Sound(s.cells, s.start, s.free, H),
         NEW h \in s.header, h \notin H, VectorEnd - s.free >= Size
  PROVE  LET q == NewBlock(s, h, Size)
         IN /\ q \in Spaces /\ q.header = s.header
            /\ Sound(q.cells, q.start, q.free, H \cup {h})
            /\ SameBytes(s, q, H)
<1> DEFINE q == NewBlock(s, h, Size)
           head == [length |-> Size, ram_ptr |-> h, used |-> TRUE]
<1>0. /\ Size \in Nat /\ Size >= 1 /\ VectorEnd \in Nat /\ s.free \in Nat /\ h \in Header
      /\ Block(s.free) /\ s.free \in 0 .. VectorEnd - 1 /\ s.free + Size <= VectorEnd
  BY SizeType, VectorEndAssumption DEF Spaces, Sound
<1>1. /\ q.cells = [s.cells EXCEPT ![s.free] = head] /\ q.start = [s.start EXCEPT ![h] = s.free + 1]
      /\ q.free = s.free + Size /\ q.header = s.header /\ q \in Spaces
  <2> DEFINE cells == [s.cells EXCEPT ![s.free] = head]
             start == [s.start EXCEPT ![h] = s.free + 1]
  <2>1. q = [s EXCEPT !.cells = cells, !.start = start, !.free = s.free + Size]
    BY DEF NewBlock, Spaces
  <2>2. cells \in Memory /\ start \in [Header -> Nat] /\ s.free + Size \in Nat
    <3>1. head \in Cells
      BY <1>0 DEF Cells
    <3> HIDE DEF head
    <3> QED  BY <1>0, <3>1 DEF Memory, Spaces
  <2> HIDE DEF q, cells, start
  <2>3. q.cells = cells /\ q.start = start /\ q.free = s.free + Size /\ q.header = s.header /\ q \in Spaces
    BY <2>1, <2>2 DEF Spaces
  <2> QED  BY <2>3 DEF cells, start
<1> HIDE DEF q
<1>2. /\ q.cells[s.free] = head
      /\ \A c \in 0 .. VectorEnd - 1 : c # s.free => q.cells[c] = s.cells[c]
  BY <1>0, <1>1 DEF Spaces, Memory
<1>3. q.start[h] = s.free + 1 /\ \A k \in H : q.start[k] = s.start[k]
  BY <1>0, <1>1 DEF Spaces, Sound
<1>4. /\ Heads(s.free) \subseteq 0 .. VectorEnd - 1
      /\ \A b \in Heads(s.free) : b # s.free /\ b \in Heads(q.free) /\ q.cells[b] = s.cells[b]
  <2>1. \A b \in Heads(s.free) : b # s.free /\ b \in Heads(q.free) /\ b \in 0 .. VectorEnd - 1
    BY <1>0, <1>1 DEF Heads
  <2> QED  BY <1>2, <2>1
<1>5. \A b \in Heads(q.free) : b \in Heads(s.free) \/ b = s.free
  <2> SUFFICES ASSUME NEW b \in Heads(q.free), b > s.free PROVE FALSE
    BY <1>0 DEF Heads
  <2>1. s.free + Size <= b
    BY <1>0, BlocksDisjoint DEF Heads
  <2> QED  BY <1>0, <1>1, <2>1 DEF Heads
<1>6. s.free \in Heads(q.free)
  BY <1>0, <1>1 DEF Heads
<1>7. Sound(q.cells, q.start, q.free, H \cup {h})
  <2>1. ASSUME NEW b \in Heads(q.free) PROVE q.cells[b].length = Size
    <3>1. CASE b \in Heads(s.free)
      BY <1>4, <3>1 DEF Sound
    <3>2. CASE b = s.free
      BY <1>2, <3>2
    <3> QED  BY <1>5, <3>1, <3>2
  <2>2. ASSUME NEW b \in Heads(q.free), q.cells[b].used PROVE \E k \in H \cup {h} : q.start[k] = b + 1
    <3>1. CASE b \in Heads(s.free)
      <4>1. PICK k \in H : s.start[k] = b + 1
        BY <1>4, <2>2, <3>1 DEF Sound
      <4> QED  BY <1>3, <4>1
    <3>2. CASE b = s.free
      BY <1>3, <3>2
    <3> QED  BY <1>5, <3>1, <3>2
  <2>3. ASSUME NEW k \in H \cup {h} PROVE Owns(q.cells, q.start, q.free, k)
    <3>1. CASE k = h
      <4>1. q.start[k] - 1 = s.free
        BY <1>0, <1>3, <3>1
      <4> QED  BY <1>2, <1>6, <3>1, <4>1 DEF Owns
    <3>2. CASE k \in H
      <4>1. Owns(s.cells, s.start, s.free, k)
        BY <3>2 DEF Sound
      <4> QED  BY <1>3, <1>4, <3>2, <4>1 DEF Owns
    <3> QED  BY <3>1, <3>2
  <2>4. Block(q.free) /\ q.free <= VectorEnd
    BY <1>0, <1>1, NextBlock
  <2> QED  BY <1>0, <1>1, <2>1, <2>2, <2>3, <2>4 DEF Sound, Spaces
<1>8. SameBytes(s, q, H)
  <2> SUFFICES ASSUME NEW k \in H, NEW i \in 1 .. Size - 1
               PROVE  q.cells[s.start[k] + i - 1] = s.cells[s.start[k] + i - 1]
    BY <1>3 DEF SameBytes
  <2>1. s.start[k] + i - 1 \in 0 .. VectorEnd - 1 /\ ~Block(s.start[k] + i - 1)
    BY BytesOf
  <2> QED  BY <1>0, <1>2, <2>1
<1> QED  BY <1>1, <1>7, <1>8 DEF q

-----------------------------------------------------------------------------
(* The inductive invariant. *)

\* The vectors of the program have blocks of one size, a vector space in order, and a program
\* that is never told that there is no room.
IInv ==
  /\ space \in Spaces
  /\ Live \subseteq space.header /\ inUse = [v \in Live |-> Size]
  /\ Sound(space.cells, space.start, space.free, space.header)
  /\ halted \in {"", "MEMORY EXHAUSTED!!"}

\* The bytes of fewer vectors, and in two steps.
LEMMA SameBytesOf ==
  ASSUME NEW s, NEW q, NEW H, NEW K, K \subseteq H, SameBytes(s, q, H)
  PROVE  SameBytes(s, q, K)
BY DEF SameBytes

\* Bytes that two steps keep.
LEMMA SameBytesThen ==
  ASSUME NEW s, NEW q, NEW r, NEW H, SameBytes(s, q, H), SameBytes(q, r, H)
  PROVE  SameBytes(s, r, H)
BY DEF SameBytes

\* The vectors that a program holds fit, with another one.
LEMMA InUseIs ==
  ASSUME IInv, InUseWith(Size) <= VectorEnd
  PROVE  RoomFor(Live)
<1>1. IsFiniteSet(Live) /\ Size \in Nat
  BY HeaderAssumption, FS_Subset, SizeType DEF IInv, Spaces
<1>2. UNION {{v} \X (1 .. inUse[v]) : v \in Live} = Live \X (1 .. Size)
  <2>1. \A v \in Live : inUse[v] = Size
    BY DEF IInv
  <2> HIDE DEF Live
  <2> QED  BY <2>1
<1>3. IsFiniteSet(1 .. Size) /\ Cardinality(1 .. Size) = Size
  BY <1>1, SizeType, FS_Interval
<1>4. Cardinality(Live \X (1 .. Size)) = Cardinality(Live) * Size
  BY <1>1, <1>3, FS_Product
<1> QED  BY <1>1, <1>2, <1>4 DEF InUseWith, RoomFor

\* The vector space in which a block is made: compacted if it must be.
Made(s, h, live) ==
  IF VectorEnd - s.free >= Size THEN s ELSE mm_compact_vector_space(mm_gc(s, live \cup {h}))

\* There is a block for the vector of cell h, and the bytes of the others are as in s.
IsMade(s, q, h, live) ==
  /\ q \in Spaces /\ VectorEnd - q.free >= Size
  /\ SameBytes(s, q, live)
  /\ \E H : /\ live \subseteq H /\ h \notin H /\ q.header = H \cup {h}
           /\ Sound(q.cells, q.start, q.free, H)

\* That is so when the compaction is done.
LEMMA MadeIs ==
  ASSUME NEW s \in Spaces, NEW K, Sound(s.cells, s.start, s.free, K),
         NEW live, live \subseteq K, RoomFor(live), NEW h \in Header \ K, s.header = K \cup {h}
  PROVE  IsMade(s, Made(s, h, live), h, live)
<1>1. CASE VectorEnd - s.free >= Size
  BY <1>1 DEF Made, IsMade, SameBytes
<1>2. CASE ~(VectorEnd - s.free >= Size)
  <2> DEFINE marked == live \cup {h}
             r == mm_gc(s, marked)
             q == mm_compact_vector_space(r)
  <2>1. s.header \ (live \cup {h}) = K \ (live \cup {h}) /\ K \cap (live \cup {h}) = live
        /\ s.header \cap (live \cup {h}) = live \cup {h}
    OBVIOUS
  <2>2. /\ r \in Spaces /\ r.free = s.free /\ r.header = live \cup {h}
        /\ Sound(r.cells, r.start, r.free, live) /\ SameBytes(s, r, K)
    <3>1. /\ r \in Spaces /\ r.free = s.free /\ r.header = s.header \cap marked
          /\ Sound(r.cells, r.start, r.free, K \cap marked) /\ SameBytes(s, r, K)
      <4>1. s.header \ marked = K \ marked
        BY <2>1
      <4> HIDE DEF marked
      <4>2. IsSwept(s, r, K, marked)
        BY <4>1, GcSound
      <4> QED  BY <4>2 DEF IsSwept
    <3> QED  BY <2>1, <3>1
  <2> HIDE DEF r
  <2>3. VectorEnd - r.free < Size
    BY <1>2, <2>2, SizeType, VectorEndAssumption DEF Spaces
  <2>4. /\ q \in Spaces /\ q.header = r.header /\ VectorEnd - q.free >= Size
        /\ Sound(q.cells, q.start, q.free, live) /\ SameBytes(r, q, live)
    BY <2>2, <2>3, CompactionMakesRoom
  <2>5. Made(s, h, live) = q
    BY <1>2 DEF Made, r
  <2>6. SameBytes(s, q, live)
    BY <2>2, <2>4, SameBytesOf, SameBytesThen
  <2> HIDE DEF q
  <2>7. h \notin live
    OBVIOUS
  <2> QED  BY <2>2, <2>4, <2>5, <2>6, <2>7 DEF IsMade
<1> QED  BY <1>1, <1>2

\* A vector that is made gets a block of its own, and no other vector loses a byte.
LEMMA NewVectorKept ==
  ASSUME OneSize, WithinSpace, IInv, NEW length \in Lengths, NewVector(length)
  PROVE  /\ IInv'
         /\ \/ UNCHANGED <<space, inUse>>
            \/ SameBytes(space, space', Live) /\ \E h \in Header \ Live : Live' = Live \cup {h}
<1> DEFINE s == IF space.header = Header THEN mm_gc(space, Live) ELSE space
<1>1. BlockSize(length) = Size
  BY SizeType
<1>2. RoomFor(Live)
  BY <1>1, InUseIs DEF NewVector
<1>3. /\ s \in Spaces /\ Sound(s.cells, s.start, s.free, s.header)
      /\ Live \subseteq s.header /\ SameBytes(space, s, Live)
  <2>1. CASE space.header # Header
    BY <2>1 DEF IInv, SameBytes
  <2>2. CASE space.header = Header
    <3> DEFINE q == mm_gc(space, Live)
    <3>1. /\ q \in Spaces /\ q.header = space.header \cap Live
          /\ Sound(q.cells, q.start, q.free, space.header \cap Live)
          /\ SameBytes(space, q, space.header)
      <4>1. IsSwept(space, q, space.header, Live)
        BY GcSound DEF IInv
      <4> QED  BY <4>1 DEF IsSwept
    <3> HIDE DEF q
    <3>2. SameBytes(space, q, Live)
      BY <3>1, SameBytesOf DEF IInv
    <3>3. s = q
      BY <2>2 DEF q
    <3> HIDE DEF s
    <3> QED  BY <3>1, <3>2, <3>3 DEF IInv
  <2> QED  BY <2>1, <2>2
<1> HIDE DEF s
<1>4. CASE Stop("MEMORY EXHAUSTED!!")
  BY <1>4 DEF Stop, IInv, Live
<1>5. CASE \E h \in Header \ s.header :
             LET t == [s EXCEPT !.header = @ \cup {h}]
                 q == Made(t, h, Live)
             IN IF q.free = NIL THEN Stop("Vector Heap Structure is wrong")
                ELSE IF ~(VectorEnd - q.free >= Size) THEN Stop("No room for vector")
                ELSE /\ space' = NewBlock(q, h, Size)
                     /\ inUse' = [v \in Live \cup {h} |-> IF v = h THEN Size ELSE inUse[v]]
                     /\ UNCHANGED halted
  <2>1. PICK h \in Header \ s.header :
               LET t == [s EXCEPT !.header = @ \cup {h}]
                   q == Made(t, h, Live)
               IN IF q.free = NIL THEN Stop("Vector Heap Structure is wrong")
                  ELSE IF ~(VectorEnd - q.free >= Size) THEN Stop("No room for vector")
                  ELSE /\ space' = NewBlock(q, h, Size)
                       /\ inUse' = [v \in Live \cup {h} |-> IF v = h THEN Size ELSE inUse[v]]
                       /\ UNCHANGED halted
    BY <1>5
  <2> DEFINE t == [s EXCEPT !.header = @ \cup {h}]
             q == Made(t, h, Live)
  <2>2. /\ t \in Spaces /\ t.cells = s.cells /\ t.start = s.start /\ t.free = s.free
        /\ t.header = s.header \cup {h}
    BY <1>3 DEF Spaces
  <2>3. IF q.free = NIL THEN Stop("Vector Heap Structure is wrong")
        ELSE IF ~(VectorEnd - q.free >= Size) THEN Stop("No room for vector")
        ELSE space' = NewBlock(q, h, Size) /\ inUse' = [v \in Live \cup {h} |-> IF v = h THEN Size ELSE inUse[v]] /\ UNCHANGED halted
    BY <2>1
  <2> HIDE DEF t
  <2>4. /\ q \in Spaces /\ VectorEnd - q.free >= Size /\ SameBytes(t, q, Live)
        /\ \E H : /\ Live \subseteq H /\ h \notin H /\ q.header = H \cup {h}
                 /\ Sound(q.cells, q.start, q.free, H)
    <3>1. Sound(t.cells, t.start, t.free, s.header) /\ h \in Header \ s.header
      BY <1>3, <2>2
    <3>2. IsMade(t, q, h, Live)
      BY <1>2, <1>3, <2>2, <3>1, MadeIs
    <3> QED  BY <3>2 DEF IsMade
  <2> HIDE DEF q
  <2>5. space' = NewBlock(q, h, Size) /\ inUse' = [v \in Live \cup {h} |-> IF v = h THEN Size ELSE inUse[v]] /\ halted' = halted
    BY <2>3, <2>4, NilAssumption DEF Spaces
  <2>6. PICK H : /\ Live \subseteq H /\ h \notin H /\ q.header = H \cup {h}
                 /\ Sound(q.cells, q.start, q.free, H)
    BY <2>4
  <2>7. /\ space' \in Spaces /\ space'.header = q.header
        /\ Sound(space'.cells, space'.start, space'.free, H \cup {h})
        /\ SameBytes(q, space', H)
    BY <2>4, <2>5, <2>6, NewBlockSound
  <2>8. Live' = Live \cup {h} /\ inUse' = [v \in Live \cup {h} |-> Size]
    <3>1. \A v \in Live : inUse[v] = Size
      BY DEF IInv
    <3> QED  BY <2>5, <3>1 DEF Live
  <2>9. SameBytes(space, space', Live)
    <3>1. SameBytes(q, space', Live)
      BY <2>6, <2>7, SameBytesOf
    <3>2. SameBytes(s, t, Live)
      BY <2>2 DEF SameBytes
    <3> QED  BY <1>3, <2>4, <3>1, <3>2, SameBytesThen
  <2>10. IInv'
    <3>1. (Live \subseteq space.header)' /\ (inUse = [v \in Live |-> Size])'
      BY <2>6, <2>7, <2>8
    <3>2. Sound(space.cells, space.start, space.free, space.header)'
      BY <2>6, <2>7
    <3>3. (halted \in {"", "MEMORY EXHAUSTED!!"})'
      BY <2>5 DEF IInv
    <3> QED  BY <2>7, <3>1, <3>2, <3>3 DEF IInv
  <2>11. h \in Header \ Live
    BY <2>6
  <2> QED  BY <2>8, <2>9, <2>10, <2>11
<1> QED  BY <1>1, <1>4, <1>5 DEF NewVector, Made, s

\* A byte is stored in its vector, and in no header and no other vector.
LEMMA VectorSetKept ==
  ASSUME IInv, NEW v \in Live, NEW i \in 1 .. inUse[v] - 1, NEW d \in Data, VectorSet(v, i, d)
  PROVE  /\ IInv'
         /\ Live' = Live /\ inUse' = inUse /\ space'.start = space.start /\ i \in 1 .. Size - 1
         /\ space'.cells[space.start[v] + i - 1] = d
         /\ \A w \in Live : \A j \in 1 .. Size - 1 :
              w # v \/ j # i => space'.cells[space.start[w] + j - 1] = space.cells[space.start[w] + j - 1]
<1> DEFINE a == space.start[v] + i - 1
           H == space.header
<1>0. i \in 1 .. Size - 1 /\ Size \in Nat /\ v \in H /\ Sound(space.cells, space.start, space.free, H)
  BY SizeType DEF IInv
<1>1. a \in 0 .. VectorEnd - 1 /\ ~Block(a) /\ a = (space.start[v] - 1) + i
  BY <1>0, BytesOf
<1>2. d \in Cells
  BY DataAssumption DEF Cells
<1>3. space.cells \in Memory /\ space.start \in [Header -> Nat]
  BY <1>0 DEF Sound
<1> HIDE DEF a
<1>4. /\ space'.cells = [space.cells EXCEPT ![a] = d] /\ space'.start = space.start
      /\ space'.free = space.free /\ space'.header = H /\ space' \in Spaces
  <2> DEFINE cells == [space.cells EXCEPT ![a] = d]
  <2>1. space' = [space EXCEPT !.cells = cells]
    BY DEF VectorSet, IInv, Spaces, a
  <2>2. cells \in Memory
    BY <1>2, <1>3 DEF Memory
  <2> HIDE DEF cells
  <2>3. /\ space'.cells = cells /\ space'.start = space.start
        /\ space'.free = space.free /\ space'.header = H /\ space' \in Spaces
    BY <2>1, <2>2 DEF IInv, Spaces
  <2> QED  BY <2>3 DEF cells
<1>5. /\ space'.cells[a] = d
      /\ \A c \in 0 .. VectorEnd - 1 : c # a => space'.cells[c] = space.cells[c]
  BY <1>1, <1>3, <1>4 DEF Memory
<1>6. \A b \in Heads(space.free) : space'.cells[b] = space.cells[b]
  <2>1. \A b \in Heads(space.free) : b # a /\ b \in 0 .. VectorEnd - 1
    BY <1>0, <1>1, HeadsAreCells DEF Sound
  <2> QED  BY <1>5, <2>1
<1>7. Sound(space'.cells, space'.start, space'.free, H)
  <2>1. space'.cells \in Memory
    BY <1>4 DEF Spaces
  <2> QED  BY <1>0, <1>4, <1>6, <2>1 DEF Sound, Owns
<1>8. Live' = Live /\ inUse' = inUse /\ halted' = halted
  BY DEF VectorSet, Live
<1>9. IInv'
  BY <1>4, <1>7, <1>8 DEF IInv
<1>10. ASSUME NEW w \in Live, NEW j \in 1 .. Size - 1, w # v \/ j # i
       PROVE  space'.cells[space.start[w] + j - 1] = space.cells[space.start[w] + j - 1]
  <2>1. w \in H
    BY DEF IInv
  <2>2. space.start[w] + j - 1 \in 0 .. VectorEnd - 1 /\ space.start[w] + j - 1 = (space.start[w] - 1) + j
    BY <1>0, <2>1, BytesOf
  <2>3. (space.start[w] - 1) + j # (space.start[v] - 1) + i
    <3>1. Owns(space.cells, space.start, space.free, v) /\ Owns(space.cells, space.start, space.free, w)
      BY <1>0, <2>1 DEF Sound
    <3>2. /\ Block(space.start[v] - 1) /\ Block(space.start[w] - 1)
          /\ w # v => space.start[v] - 1 # space.start[w] - 1
      BY <3>1 DEF Owns, Heads
    <3>3. i \in 0 .. Size - 1 /\ j \in 0 .. Size - 1
      BY <1>0
    <3>4. CASE w # v
      BY <3>2, <3>3, <3>4, BytesApart
    <3>5. CASE w = v
      <4>1. space.start[v] \in Nat
        BY <1>0, <1>3 DEF Sound
      <4> QED  BY <1>10, <3>5, <4>1
    <3> QED  BY <3>4, <3>5
  <2> QED  BY <1>1, <1>5, <2>2, <2>3
<1> QED  BY <1>0, <1>4, <1>5, <1>8, <1>9, <1>10 DEF a

\* The others keep their blocks when the last reference to one goes away.
LEMMA UnreferenceKept ==
  ASSUME IInv, NEW v \in Live, Unreference(v)
  PROVE  IInv' /\ Live' = Live \ {v} /\ space' = space
<1>1. inUse' = [w \in Live \ {v} |-> inUse[w]] /\ space' = space /\ halted' = halted
  BY DEF Unreference
<1>2. Live' = Live \ {v}
  BY <1>1 DEF Live
<1>3. \A w \in Live \ {v} : inUse[w] = Size
  BY DEF IInv
<1>4. inUse' = [w \in Live \ {v} |-> Size]
  BY <1>1, <1>3
<1> QED  BY <1>1, <1>2, <1>4 DEF IInv

\* A collection takes no block from a vector that is in use.
LEMMA CollectKept ==
  ASSUME IInv, Collect
  PROVE  IInv' /\ inUse' = inUse /\ Live' = Live /\ SameBytes(space, space', Live)
<1>1. space' = mm_gc(space, Live) /\ inUse' = inUse /\ halted' = halted
  BY DEF Collect
<1>2. /\ space' \in Spaces /\ space'.header = space.header \cap Live
      /\ Sound(space'.cells, space'.start, space'.free, space.header \cap Live)
      /\ SameBytes(space, space', space.header)
  <2>1. IsSwept(space, space', space.header, Live)
    BY <1>1, GcSound DEF IInv
  <2> QED  BY <2>1 DEF IsSwept
<1>3. Live' = Live
  BY <1>1 DEF Live
<1>4. SameBytes(space, space', Live)
  BY <1>2, SameBytesOf DEF IInv
<1>5. IInv'
  BY <1>1, <1>2, <1>3 DEF IInv
<1> QED  BY <1>1, <1>3, <1>4, <1>5

\* calloc
LEMMA InitIInv == Init => IInv
<1> SUFFICES ASSUME Init PROVE IInv
  OBVIOUS
<1> DEFINE cells == [c \in 0 .. VectorEnd - 1 |-> [length |-> 0, ram_ptr |-> 0, used |-> FALSE]]
           start == [h \in Header |-> 0]
<1>1. space = [cells |-> cells, start |-> start, free |-> 0, header |-> {}] /\ inUse = <<>> /\ halted = ""
  BY DEF Init
<1>2. cells \in Memory /\ start \in [Header -> Nat]
  BY DEF Memory, Cells
<1> HIDE DEF cells, start
<1>3. space \in Spaces
  BY <1>1, <1>2 DEF Spaces
<1>4. Live = {} /\ inUse = [v \in Live |-> Size]
  <2>1. DOMAIN <<>> = {} /\ <<>> = [v \in {} |-> Size]
    OBVIOUS
  <2>2. Live = {}
    BY <1>1, <2>1 DEF Live
  <2> QED  BY <1>1, <2>1, <2>2
<1>5. Sound(space.cells, space.start, space.free, space.header)
  <2>1. Heads(0) = {}
    BY DEF Heads
  <2>2. 0 <= VectorEnd
    BY VectorEndAssumption
  <2> QED  BY <1>1, <1>2, <2>1, <2>2, FirstBlock DEF Sound
<1> QED  BY <1>1, <1>3, <1>4, <1>5 DEF IInv

\* An operation keeps the invariant.
LEMMA NextIInv == ASSUME OneSize, WithinSpace, IInv, [Next]_vars PROVE IInv'
<1>1. CASE \E length \in Lengths : NewVector(length)
  BY <1>1, NewVectorKept
<1>2. CASE \E v \in Live : Unreference(v)
  BY <1>2, UnreferenceKept
<1>3. CASE \E v \in Live : \E i \in 1 .. inUse[v] - 1, d \in Data : VectorSet(v, i, d)
  BY <1>3, VectorSetKept
<1>4. CASE Collect
  BY <1>4, CollectKept
<1>5. CASE UNCHANGED vars
  BY <1>5 DEF IInv, Live, vars
<1> QED  BY <1>1, <1>2, <1>3, <1>4, <1>5 DEF Next

(***************************************************************************)
(* The blocks of a program whose vectors have one size and fit are always  *)
(* in order, through every allocation, compaction and collection of mm.c.  *)
(***************************************************************************)
THEOREM SpaceInOrder == ASSUME OneSize, WithinSpace PROVE Spec => []IInv
<1>1. IInv /\ [Next]_vars => IInv'
  BY NextIInv
<1> QED  BY <1>1, InitIInv, PTL DEF Spec

\* The walk from block to block finds all of them and vector_free_cells.
LEMMA BlocksAre ==
  ASSUME IInv
  PROVE  Blocks = Heads(space.free) \cup {space.free}
<1> DEFINE S == Heads(space.free) \cup {space.free}
           next(b) == IF b < space.free THEN b + space.cells[b].length ELSE b
           Loop(g) == [n \in 0 .. VectorEnd |-> IF n = 0 THEN 0 ELSE next(g[n - 1])]
           step == [b \in S |-> next(b)]
           free == space.free
<1>0. /\ VectorEnd \in Nat /\ Size \in Nat /\ Size >= 1 /\ free \in Nat /\ free <= VectorEnd /\ Block(free)
      /\ \A b \in Heads(free) : space.cells[b].length = Size
  BY VectorEndAssumption, SizeType, BlockType DEF IInv, Sound
<1> HIDE DEF free
<1>1. \A b \in S : next(b) \in S /\ (b < free => next(b) = b + Size) /\ (~(b < free) => next(b) = b)
  <2> SUFFICES ASSUME NEW b \in S
               PROVE  next(b) \in S /\ (b < free => next(b) = b + Size) /\ (~(b < free) => next(b) = b)
    OBVIOUS
  <2>1. CASE b = free
    BY <1>0, <2>1 DEF free
  <2>2. CASE b \in Heads(free)
    <3>1. b < free /\ Block(b) /\ b \in Nat
      BY <1>0, <2>2 DEF Heads
    <3>2. b + Size <= free /\ Block(b + Size)
      BY <1>0, <3>1, BlocksDisjoint, NextBlock
    <3>3. next(b) = b + Size
      BY <1>0, <2>2, <3>1 DEF free
    <3>4. b + Size \in Heads(free) \/ b + Size = free
      BY <1>0, <3>1, <3>2 DEF Heads
    <3> QED  BY <3>1, <3>3, <3>4 DEF free
  <2> QED  BY <2>1, <2>2 DEF free
<1>2. 0 \in S
  BY <1>0, FirstBlock DEF Heads, free
<1> HIDE DEF S, next
<1>3. step \in [S -> S]
  BY <1>1
<1>4. PICK g \in [0 .. VectorEnd -> S] : IsLoop(g, 0, step, VectorEnd)
  <2> HIDE DEF step
  <2> QED  BY <1>0, <1>2, <1>3, Rounds
<1>5. g[0] = 0 /\ \A n \in 1 .. VectorEnd : g[n] = next(g[n - 1])
  <2>1. ASSUME NEW n \in 1 .. VectorEnd PROVE g[n] = next(g[n - 1])
    <3>1. g[n - 1] \in S
      BY <1>0
    <3> QED  BY <1>4, <3>1 DEF IsLoop
  <2> QED  BY <1>4, <2>1 DEF IsLoop
<1>6. g = Loop(g)
  BY <1>0, <1>5
<1> DEFINE f == CHOOSE h : h = Loop(h)
<1>7. f = Loop(f)
  BY <1>6
<1>8. Blocks = {f[n] : n \in 0 .. VectorEnd}
  BY DEF Blocks, next
<1>9. f[0] = 0 /\ \A n \in 1 .. VectorEnd : f[n] = next(f[n - 1])
  <2>1. \A n \in 0 .. VectorEnd : Loop(f)[n] = IF n = 0 THEN 0 ELSE next(f[n - 1])
    OBVIOUS
  <2> HIDE DEF f, Loop
  <2> QED  BY <1>0, <1>7, <2>1
<1> HIDE DEF f
<1> DEFINE T == {n \in 0 .. VectorEnd : f[n] \in S /\ (n * Size <= free => f[n] = n * Size)}
<1>10. 0 \in T
  BY <1>0, <1>2, <1>9
<1>11. ASSUME NEW n \in 0 .. VectorEnd - 1, n \in T PROVE n + 1 \in T
  <2>1. f[n + 1] = next(f[n]) /\ n + 1 \in 0 .. VectorEnd
    <3>1. n + 1 \in 1 .. VectorEnd /\ (n + 1) - 1 = n
      BY <1>0
    <3> QED  BY <1>9, <3>1
  <2>2. f[n + 1] \in S
    BY <1>1, <1>11, <2>1
  <2>3. (n + 1) * Size = n * Size + Size /\ n * Size \in Nat
    BY <1>0
  <2>4. (n + 1) * Size <= free => f[n + 1] = (n + 1) * Size
    BY <1>0, <1>1, <1>11, <2>1, <2>3
  <2> QED  BY <2>1, <2>2, <2>4
<1>12. \A n \in 0 .. VectorEnd : n \in T
  <2> HIDE DEF T
  <2> QED  BY <1>0, <1>10, <1>11, EveryRoundTo
<1>13. ASSUME NEW b \in S PROVE \E n \in 0 .. VectorEnd : f[n] = b
  <2>1. Block(b) /\ b <= free
    BY <1>0, <1>13 DEF S, Heads, free
  <2>2. PICK k \in Nat : b = k * Size
    BY <2>1 DEF Block
  <2>3. k <= k * Size
    BY <1>0
  <2>4. k \in 0 .. VectorEnd /\ k * Size <= free
    BY <1>0, <2>1, <2>2, <2>3
  <2> QED  BY <1>12, <2>2, <2>4
<1>14. Blocks = S
  <2>1. \A n \in 0 .. VectorEnd : f[n] \in S
    BY <1>12
  <2> QED  BY <1>8, <1>13, <2>1
<1> QED  BY <1>14 DEF S

\* The blocks lead from one to the next and end at vector_free_cells; those in use have a
\* VECTOR cell that points to them, and they to it.
THEOREM BlocksInLine == ASSUME OneSize, WithinSpace PROVE Spec => []BlocksTile
<1>1. IInv => BlocksTile
  <2> SUFFICES ASSUME IInv PROVE BlocksTile
    OBVIOUS
  <2>0. Sound(space.cells, space.start, space.free, space.header)
    BY DEF IInv
  <2>1. Blocks = Heads(space.free) \cup {space.free} /\ Blocks \ {space.free} = Heads(space.free)
    <3>1. space.free \notin Heads(space.free)
      BY <2>0, BlockType DEF Sound, Heads
    <3> QED  BY <3>1, BlocksAre
  <2>2. ASSUME NEW b \in Heads(space.free)
        PROVE  space.cells[b].used <=> \E h \in space.header : space.start[h] = b + 1
    <3>1. ASSUME NEW h \in space.header, space.start[h] = b + 1 PROVE space.cells[b].used
      <4>1. b \in Nat /\ space.start[h] - 1 = b
        BY <2>0, <3>1 DEF Sound, Heads
      <4> QED  BY <2>0, <4>1 DEF Sound, Owns
    <3> QED  BY <2>0, <3>1 DEF Sound
  <2> QED  BY <2>0, <2>1, <2>2 DEF BlocksTile, Sound, Owns
<1> QED  BY <1>1, SpaceInOrder, PTL

\* What is beyond vector_free_cells belongs to no vector that the program still uses.
THEOREM FreeSpaceIsFree == ASSUME OneSize, WithinSpace PROVE Spec => []FreeAtEnd
<1>1. IInv => FreeAtEnd
  <2> SUFFICES ASSUME IInv, NEW v \in Live PROVE space.start[v] - 1 + inUse[v] <= space.free
    BY DEF FreeAtEnd
  <2>1. inUse[v] = Size /\ Owns(space.cells, space.start, space.free, v)
    BY DEF IInv, Sound
  <2>2. Block(space.free) /\ space.free <= VectorEnd
    BY DEF IInv, Sound
  <2>3. (space.start[v] - 1) + Size <= space.free
    BY <2>1, <2>2, HeadsAreCells DEF Owns
  <2> QED  BY <2>1, <2>3
<1> QED  BY <1>1, SpaceInOrder, PTL

\* mm_new_vector_cell() finds a block for every vector that fits with those in use.
THEOREM VectorsFit == ASSUME OneSize, WithinSpace PROVE Spec => []RoomIsFound
<1>1. IInv => RoomIsFound
  BY DEF IInv, RoomIsFound
<1> QED  BY <1>1, SpaceInOrder, PTL

-----------------------------------------------------------------------------
(* What a program sees of its vectors. *)

\* The bytes of each of them, as VectorsKept maps them.
Content == [v \in Live |-> [i \in 1 .. inUse[v] - 1 |-> space.cells[space.start[v] + i - 1]]]

\* They are as many in each vector.
LEMMA ContentIs ==
  ASSUME IInv
  PROVE  /\ Content = [v \in Live |-> [i \in 1 .. Size - 1 |-> space.cells[space.start[v] + i - 1]]]
         /\ \A v \in Live : Content[v] \in Seq(Cells) /\ Len(Content[v]) = Size - 1
<1>1. \A v \in Live : inUse[v] = Size
  BY DEF IInv
<1>2. Content = [v \in Live |-> [i \in 1 .. Size - 1 |-> space.cells[space.start[v] + i - 1]]]
  BY <1>1 DEF Content
<1>3. ASSUME NEW v \in Live PROVE Content[v] \in Seq(Cells) /\ Len(Content[v]) = Size - 1
  <2>1. Content[v] = [i \in 1 .. Size - 1 |-> space.cells[space.start[v] + i - 1]]
    BY <1>2
  <2>2. \A i \in 1 .. Size - 1 : space.cells[space.start[v] + i - 1] \in Cells
    <3> SUFFICES ASSUME NEW i \in 1 .. Size - 1 PROVE space.cells[space.start[v] + i - 1] \in Cells
      OBVIOUS
    <3>1. Sound(space.cells, space.start, space.free, space.header) /\ v \in space.header
      BY DEF IInv
    <3>2. space.start[v] + i - 1 \in 0 .. VectorEnd - 1
      BY <3>1, BytesOf
    <3> QED  BY <3>1, <3>2 DEF Sound, Memory
  <2>3. Size - 1 \in Nat
    BY SizeType
  <2> QED  BY <2>1, <2>2, <2>3
<1> QED  BY <1>2, <1>3

\* Vectors whose bytes did not change look the same.
LEMMA ContentSame ==
  ASSUME IInv, IInv', NEW K, K \subseteq Live, K \subseteq Live', SameBytes(space, space', K)
  PROVE  \A v \in K : Content'[v] = Content[v]
<1> SUFFICES ASSUME NEW v \in K PROVE Content'[v] = Content[v]
  OBVIOUS
<1>1. Content[v] = [i \in 1 .. Size - 1 |-> space.cells[space.start[v] + i - 1]]
  BY ContentIs
<1>2. Content' = [w \in Live' |-> [i \in 1 .. Size - 1 |-> space'.cells[space'.start[w] + i - 1]]]
  <2>1. \A w \in Live' : inUse'[w] = Size
    BY DEF IInv
  <2> QED  BY <2>1 DEF Content
<1>3. Content'[v] = [i \in 1 .. Size - 1 |-> space'.cells[space'.start[v] + i - 1]]
  BY <1>2
<1> QED  BY <1>1, <1>3 DEF SameBytes

\* A step of the vector space is one of Vectors, or none.
LEMMA StepOfVectors ==
  ASSUME OneSize, WithinSpace, IInv, IInv', [Next]_vars
  PROVE  \/ \E h \in Header \ DOMAIN Content :
              /\ DOMAIN Content' = DOMAIN Content \cup {h}
              /\ \A w \in DOMAIN Content : Content'[w] = Content[w]
         \/ \E v \in DOMAIN Content, d \in Data :
              \E i \in 1 .. Len(Content[v]) : Content' = [Content EXCEPT ![v][i] = d]
         \/ \E v \in DOMAIN Content : Content' = [w \in DOMAIN Content \ {v} |-> Content[w]]
         \/ Content' = Content
<1>0. DOMAIN Content = Live /\ DOMAIN Content' = Live'
  BY DEF Content
<1>1. CASE \E length \in Lengths : NewVector(length)
  <2>1. \/ UNCHANGED <<space, inUse>>
        \/ SameBytes(space, space', Live) /\ \E h \in Header \ Live : Live' = Live \cup {h}
    BY <1>1, NewVectorKept
  <2>2. CASE UNCHANGED <<space, inUse>>
    BY <2>2 DEF Content, Live
  <2>3. CASE SameBytes(space, space', Live) /\ \E h \in Header \ Live : Live' = Live \cup {h}
    <3>1. \A w \in Live : Content'[w] = Content[w]
      BY <2>3, ContentSame
    <3> QED  BY <1>0, <2>3, <3>1
  <2> QED  BY <2>1, <2>2, <2>3
<1>2. ASSUME NEW v \in Live, Unreference(v)
      PROVE  \E u \in DOMAIN Content : Content' = [w \in DOMAIN Content \ {u} |-> Content[w]]
  <2>1. Live' = Live \ {v} /\ space' = space
    BY <1>2, UnreferenceKept
  <2>2. SameBytes(space, space', Live \ {v})
    BY <2>1 DEF SameBytes
  <2>3. \A w \in Live \ {v} : Content'[w] = Content[w]
    BY <2>1, <2>2, ContentSame
  <2>4. Content' = [w \in Live' |-> Content'[w]]
    BY DEF Content
  <2>5. Content' = [w \in Live \ {v} |-> Content[w]]
    BY <2>1, <2>3, <2>4
  <2> QED  BY <1>0, <2>5
<1>3. ASSUME NEW v \in Live, NEW i \in 1 .. inUse[v] - 1, NEW d \in Data, VectorSet(v, i, d)
      PROVE  i \in 1 .. Len(Content[v]) /\ Content' = [Content EXCEPT ![v][i] = d]
  <2>1. /\ Live' = Live /\ inUse' = inUse /\ space'.start = space.start /\ i \in 1 .. Size - 1
        /\ space'.cells[space.start[v] + i - 1] = d
        /\ \A w \in Live : \A j \in 1 .. Size - 1 :
              w # v \/ j # i => space'.cells[space.start[w] + j - 1] = space.cells[space.start[w] + j - 1]
    BY <1>3, VectorSetKept
  <2>2. /\ Content = [w \in Live |-> [j \in 1 .. Size - 1 |-> space.cells[space.start[w] + j - 1]]]
        /\ Len(Content[v]) = Size - 1
    BY ContentIs
  <2>3. Content' = [w \in Live |-> [j \in 1 .. Size - 1 |-> space'.cells[space.start[w] + j - 1]]]
    <3>1. \A w \in Live : inUse[w] = Size
      BY DEF IInv
    <3> QED  BY <2>1, <3>1 DEF Content
  <2>4. ASSUME NEW w \in Live PROVE Content'[w] = [Content EXCEPT ![v][i] = d][w]
    <3>1. Content'[w] = [j \in 1 .. Size - 1 |-> space'.cells[space.start[w] + j - 1]]
      BY <2>3
    <3>2. Content[w] = [j \in 1 .. Size - 1 |-> space.cells[space.start[w] + j - 1]]
      BY <2>2
    <3>3. CASE w = v
      <4>1. [Content EXCEPT ![v][i] = d][w] = [Content[v] EXCEPT ![i] = d]
        BY <1>0, <3>3
      <4>2. Content'[v] = [Content[v] EXCEPT ![i] = d]
        <5>1. [Content[v] EXCEPT ![i] = d] =
                [j \in 1 .. Size - 1 |-> IF j = i THEN d ELSE space.cells[space.start[v] + j - 1]]
          BY <3>2, <3>3
        <5>2. \A j \in 1 .. Size - 1 : space'.cells[space.start[v] + j - 1] =
                IF j = i THEN d ELSE space.cells[space.start[v] + j - 1]
          BY <2>1
        <5> QED  BY <3>1, <3>3, <5>1, <5>2
      <4> QED  BY <3>3, <4>1, <4>2
    <3>4. CASE w # v
      <4>1. [Content EXCEPT ![v][i] = d][w] = Content[w]
        BY <1>0, <3>4
      <4> QED  BY <2>1, <3>1, <3>2, <3>4, <4>1
    <3> QED  BY <3>3, <3>4
  <2>5. Content' = [Content EXCEPT ![v][i] = d]
    <3>1. Content' = [w \in Live |-> Content'[w]]
      BY <2>3
    <3>2. [Content EXCEPT ![v][i] = d] = [w \in Live |-> [Content EXCEPT ![v][i] = d][w]]
      BY <1>0
    <3> QED  BY <2>4, <3>1, <3>2
  <2> QED  BY <2>1, <2>2, <2>5
<1>4. CASE Collect
  <2>1. Live' = Live /\ SameBytes(space, space', Live)
    BY <1>4, CollectKept
  <2>2. \A w \in Live : Content'[w] = Content[w]
    BY <2>1, ContentSame
  <2>3. Content' = [w \in Live' |-> Content'[w]] /\ Content = [w \in Live |-> Content[w]]
    BY DEF Content
  <2>4. Content' = Content
    BY <2>1, <2>2, <2>3
  <2> QED  BY <2>4
<1>5. CASE UNCHANGED vars
  BY <1>5 DEF vars, Content, Live
<1> QED  BY <1>0, <1>1, <1>2, <1>3, <1>4, <1>5 DEF Next

\* A vector holds what was stored in it last, wherever mm_compact_vector_space() has moved it:
\* the vector space does what primitives-vector.c takes for granted.
THEOREM VectorHeapKeepsVectors == ASSUME OneSize, WithinSpace PROVE Spec => VectorsKept
<1>1. Init => Kept!VInit
  <2>1. DOMAIN <<>> = {} /\ <<>> = [v \in {} |-> <<>>]
    OBVIOUS
  <2>2. ASSUME Init PROVE Content = <<>>
    <3>1. Live = {}
      BY <2>1, <2>2 DEF Init, Live
    <3>2. Content = [v \in {} |-> <<>>]
      BY <3>1 DEF Content
    <3> QED  BY <2>1, <3>2
  <2> QED  BY <2>2 DEF Kept!VInit, Content
<1>2. IInv /\ IInv' /\ [Next]_vars => [Kept!Make \/ Kept!Store \/ Kept!Forget]_Content
  <2> SUFFICES ASSUME IInv, IInv', [Next]_vars PROVE [Kept!Make \/ Kept!Store \/ Kept!Forget]_Content
    OBVIOUS
  <2>1. /\ Kept!Make <=> \E h \in Header \ DOMAIN Content :
              /\ DOMAIN Content' = DOMAIN Content \cup {h}
              /\ \A w \in DOMAIN Content : Content'[w] = Content[w]
        /\ Kept!Store <=> \E v \in DOMAIN Content, d \in Data :
              \E i \in 1 .. Len(Content[v]) : Content' = [Content EXCEPT ![v][i] = d]
        /\ Kept!Forget <=> \E v \in DOMAIN Content : Content' = [w \in DOMAIN Content \ {v} |-> Content[w]]
    BY DEF Kept!Make, Kept!Store, Kept!Forget, Content
  <2> QED  BY <2>1, StepOfVectors
<1> QED  BY <1>1, <1>2, SpaceInOrder, PTL DEF Spec, VectorsKept, Kept!VSpec, Content
=============================================================================
