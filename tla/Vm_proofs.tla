------------------------------ MODULE Vm_proofs ------------------------------
(***************************************************************************)
(* Proofs about Vm, for a heap of any size, any entry points and any       *)
(* bounds, for programs that use a continuation at most once.              *)
(***************************************************************************)
EXTENDS Vm, FiniteSetTheorems, WellFoundedInduction, TLAPS

-----------------------------------------------------------------------------
(***************************************************************************)
(* Loops. Vm writes a loop of the code as a function of the number of its  *)
(* rounds, which refers to itself; that there is such a function, and that *)
(* what each round preserves holds in the end, follows from the fact that  *)
(* a set of numbers has a least element.                                   *)
(***************************************************************************)

\* A set of numbers has a least element.
LEMMA LeastNumber ==
  ASSUME NEW S, S \subseteq Nat, S # {}
  PROVE  \E n \in S : \A m \in S : n <= m
<1>1. IsWellFoundedOn(OpToRel(<, Nat), Nat)
  BY NatLessThanWellFounded
<1>2. PICK n \in S : \A m \in S : ~(<<m, n>> \in OpToRel(<, Nat))
  BY <1>1, WFMin
<1>3. \A m \in S : ~(m < n)
  BY <1>2 DEF OpToRel
<1> QED  BY <1>3

\* What holds at first and is kept by each round of a loop holds in every round.
\* (The set S stands for a property.)
LEMMA EveryRoundTo ==
  ASSUME NEW N \in Nat, NEW S, 0 \in S, \A n \in 0 .. N - 1 : n \in S => n + 1 \in S
  PROVE  \A n \in 0 .. N : n \in S
<1> SUFFICES ASSUME NEW k \in 0 .. N, k \notin S PROVE FALSE
  OBVIOUS
<1> DEFINE T == (0 .. N) \ S
<1>1. T \subseteq Nat /\ T # {}
  OBVIOUS
<1>2. PICK n \in T : \A m \in T : n <= m
  <2> HIDE DEF T
  <2> QED  BY <1>1, LeastNumber
<1>3. n # 0 /\ n - 1 \in 0 .. N - 1 /\ n - 1 \notin T
  BY <1>2
<1>4. (n - 1) + 1 \in S
  BY <1>3
<1> QED  BY <1>2, <1>4

\* g is a loop of N rounds from x on that does the same step in each.
IsLoop(g, x, step, N) == g[0] = x /\ \A n \in 1 .. N : g[n] = step[g[n - 1]]

\* There is one for any step.
LEMMA Rounds ==
  ASSUME NEW S, NEW x \in S, NEW step \in [S -> S], NEW N \in Nat
  PROVE  \E g \in [0 .. N -> S] : IsLoop(g, x, step, N)
<1> DEFINE Possible == {k \in 0 .. N : \E g \in [0 .. N -> S] : IsLoop(g, x, step, k)}
<1>1. 0 \in Possible
  <2> DEFINE g == [n \in 0 .. N |-> x]
  <2>1. g \in [0 .. N -> S] /\ g[0] = x
    OBVIOUS
  <2>2. IsLoop(g, x, step, 0)
    BY <2>1 DEF IsLoop
  <2> HIDE DEF g
  <2> QED  BY <2>1, <2>2
<1>2. ASSUME NEW k \in 0 .. N - 1, k \in Possible PROVE k + 1 \in Possible
  <2>1. PICK g \in [0 .. N -> S] : IsLoop(g, x, step, k)
    BY <1>2
  <2> DEFINE h == [g EXCEPT ![k + 1] = step[g[k]]]
  <2>2. step[g[k]] \in S
    <3>1. g[k] \in S
      OBVIOUS
    <3> QED  BY <3>1
  <2>3. h \in [0 .. N -> S]
    BY <2>2
  <2>4. h[0] = x
    BY <2>1 DEF IsLoop
  <2>5. ASSUME NEW n \in 1 .. k + 1 PROVE h[n] = step[h[n - 1]]
    <3>1. h[n - 1] = g[n - 1]
      OBVIOUS
    <3>2. CASE n = k + 1
      BY <3>1, <3>2
    <3>3. CASE n # k + 1
      BY <2>1, <3>1, <3>3 DEF IsLoop
    <3> QED  BY <3>2, <3>3
  <2>6. IsLoop(h, x, step, k + 1)
    BY <2>4, <2>5 DEF IsLoop
  <2> HIDE DEF h
  <2> QED  BY <2>3, <2>6
<1>3. N \in Possible
  <2> HIDE DEF Possible
  <2>1. \A k \in 0 .. N : k \in Possible
    BY <1>1, <1>2, EveryRoundTo
  <2> QED  BY <2>1
<1> QED  BY <1>3

\* A step that only adds to a set.
Grows(f, S) == \A X \in SUBSET S : X \subseteq f[X]

\* A loop whose step only adds to a set comes to rest in as many rounds as the set may have elements.
LEMMA ComesToRest ==
  ASSUME NEW S, IsFiniteSet(S), NEW N \in Nat, Cardinality(S) <= N,
         NEW P, P = SUBSET S, NEW f \in [P -> P], Grows(f, S),
         NEW x, NEW g \in [0 .. N -> P], IsLoop(g, x, f, N)
  PROVE  f[g[N]] = g[N]
<1> \A n \in 1 .. N : g[n] = f[g[n - 1]]
  BY DEF IsLoop
<1>0. \A n \in 0 .. N : g[n] \in SUBSET S /\ IsFiniteSet(g[n]) /\ Cardinality(g[n]) \in Nat
                        /\ Cardinality(g[n]) <= Cardinality(S)
  <2> SUFFICES ASSUME NEW n \in 0 .. N
               PROVE  /\ g[n] \in SUBSET S /\ IsFiniteSet(g[n]) /\ Cardinality(g[n]) \in Nat
                      /\ Cardinality(g[n]) <= Cardinality(S)
    OBVIOUS
  <2>1. g[n] \in SUBSET S
    OBVIOUS
  <2> QED  BY <2>1, FS_Subset, FS_CardinalityType
<1>1. CASE \E n \in 1 .. N : g[n] = g[n - 1]
  <2>1. PICK k \in 1 .. N : g[k] = g[k - 1]
    BY <1>1
  <2> DEFINE T == {n \in 0 .. N : n >= k => g[n] = g[k]}
  <2>2. \A n \in 0 .. N - 1 : n \in T => n + 1 \in T
    <3> SUFFICES ASSUME NEW n \in 0 .. N - 1, n \in T, n + 1 >= k PROVE g[n + 1] = g[k]
      OBVIOUS
    <3>1. CASE n + 1 = k
      BY <3>1
    <3>2. CASE n >= k
      <4>1. g[n + 1] = f[g[(n + 1) - 1]] /\ g[k] = f[g[k - 1]]
        OBVIOUS
      <4> QED  BY <2>1, <3>2, <4>1
    <3> QED  BY <3>1, <3>2
  <2>3. N \in T
    <3>1. 0 \in T
      OBVIOUS
    <3>2. \A n \in 0 .. N : n \in T
      <4> HIDE DEF T
      <4> QED  BY <2>2, <3>1, EveryRoundTo
    <3> HIDE DEF T
    <3> QED  BY <3>2
  <2>4. g[N] = g[k] /\ g[k] = f[g[k - 1]]
    BY <2>3
  <2> QED  BY <2>1, <2>4
<1>2. CASE \A n \in 1 .. N : g[n] # g[n - 1]
  <2> DEFINE T == {n \in 0 .. N : Cardinality(g[n]) >= n}
  <2>1. 0 \in T
    BY <1>0
  <2>2. \A n \in 0 .. N - 1 : n \in T => n + 1 \in T
    <3> SUFFICES ASSUME NEW n \in 0 .. N - 1, n \in T PROVE Cardinality(g[n + 1]) >= n + 1
      OBVIOUS
    <3>1. g[n + 1] = f[g[(n + 1) - 1]] /\ g[n + 1] # g[(n + 1) - 1]
      BY <1>2
    <3>2. g[n] \subseteq g[n + 1] /\ g[n] # g[n + 1]
      BY <3>1, <1>0 DEF Grows
    <3>3. Cardinality(g[n]) <= Cardinality(g[n + 1]) /\ Cardinality(g[n]) # Cardinality(g[n + 1])
      <4>1. g[n] \in SUBSET g[n + 1] /\ IsFiniteSet(g[n + 1])
        BY <1>0, <3>2
      <4> QED  BY <3>2, <4>1, FS_Subset
    <3> QED  BY <1>0, <3>3
  <2>3. N \in T
    <3> HIDE DEF T
    <3>1. \A n \in 0 .. N : n \in T
      BY <2>1, <2>2, EveryRoundTo
    <3> QED  BY <3>1
  <2>4. Cardinality(g[N]) = Cardinality(S)
    BY <1>0, <2>3, FS_CardinalityType
  <2>5. g[N] = S
    BY <1>0, <2>4, FS_Subset
  <2>6. S \in SUBSET S /\ f[S] \in SUBSET S /\ S \subseteq f[S]
    BY DEF Grows
  <2> QED  BY <2>5, <2>6
<1> QED  BY <1>1, <1>2

-----------------------------------------------------------------------------
(* What the collector keeps. *)

\* The addresses are numbers.
LEMMA CellsAreNumbers == Cell \subseteq Nat
BY HeapEndAssumption DEF Cell

\* The heap is finite.
LEMMA FiniteCells == IsFiniteSet(Cell) /\ Cardinality(Cell) = HeapEnd
BY HeapEndAssumption, FS_Interval DEF Cell

\* One round of the loop that follows the links.
Grown(m, X) == UNION {{c} \cup LinksOf(c, m.type, m.car, m.cdr) : c \in X}

\* The cells that can be followed from some values are those of the last round of a loop.
LEMMA FollowedIsLoop ==
  ASSUME NEW m, NEW from
  PROVE  \E g \in [0 .. HeapEnd -> SUBSET Cell] :
           /\ g[0] = from \cap Cell
           /\ \A n \in 1 .. HeapEnd : g[n] = Grown(m, g[n - 1])
           /\ Followed(m, from) = g[HeapEnd]
<1> DEFINE x == from \cap Cell
           Loop(g) == [n \in 0 .. HeapEnd |-> IF n = 0 THEN x ELSE Grown(m, g[n - 1])]
           step == [X \in SUBSET Cell |-> Grown(m, X)]
<1>0. HeapEnd \in Nat
  BY HeapEndAssumption
<1>1. step \in [SUBSET Cell -> SUBSET Cell]
  BY DEF Grown, LinksOf
<1>2. x \in SUBSET Cell
  OBVIOUS
<1>3. PICK g \in [0 .. HeapEnd -> SUBSET Cell] : IsLoop(g, x, step, HeapEnd)
  <2> HIDE DEF step, x
  <2> QED  BY <1>0, <1>1, <1>2, Rounds
<1>4. g[0] = x /\ \A n \in 1 .. HeapEnd : g[n] = Grown(m, g[n - 1])
  <2>1. ASSUME NEW n \in 1 .. HeapEnd PROVE g[n] = Grown(m, g[n - 1])
    <3>1. g[n - 1] \in SUBSET Cell
      BY <1>0
    <3> QED  BY <1>3, <3>1 DEF IsLoop
  <2> QED  BY <1>3, <2>1 DEF IsLoop
<1>5. g = Loop(g)
  BY <1>0, <1>4
<1>6. ASSUME NEW h, h = Loop(h)
      PROVE  h[0] = x /\ \A n \in 1 .. HeapEnd : h[n] = Grown(m, h[n - 1])
  <2>1. \A n \in 0 .. HeapEnd : Loop(h)[n] = IF n = 0 THEN x ELSE Grown(m, h[n - 1])
    OBVIOUS
  <2> HIDE DEF Loop
  <2> QED  BY <1>0, <1>6, <2>1
<1> DEFINE f == CHOOSE h : h = Loop(h)
<1>7. f = Loop(f)
  BY <1>5
<1>8. Followed(m, from) = f[HeapEnd]
  BY DEF Followed, Grown
<1>9. f \in [0 .. HeapEnd -> SUBSET Cell]
  <2> HIDE DEF f, Loop
  <2> DEFINE T == {n \in 0 .. HeapEnd : f[n] \in SUBSET Cell}
  <2>1. 0 \in T
    BY <1>0, <1>6, <1>7
  <2>2. \A n \in 0 .. HeapEnd - 1 : n \in T => n + 1 \in T
    <3> SUFFICES ASSUME NEW n \in 0 .. HeapEnd - 1, n \in T PROVE f[n + 1] \in SUBSET Cell
      BY <1>0
    <3>1. f[n + 1] = Grown(m, f[(n + 1) - 1])
      BY <1>0, <1>6, <1>7
    <3>2. f[n + 1] = Grown(m, f[n])
      BY <3>1
    <3> QED  BY <3>2 DEF Grown, LinksOf
  <2>3. \A n \in 0 .. HeapEnd : n \in T
    <3> HIDE DEF T
    <3> QED  BY <1>0, <2>1, <2>2, EveryRoundTo
  <2>4. DOMAIN f = 0 .. HeapEnd /\ f = [n \in 0 .. HeapEnd |-> f[n]]
    BY <1>7 DEF Loop
  <2> QED  BY <2>3, <2>4
<1> HIDE DEF f
<1> QED  BY <1>6, <1>7, <1>8, <1>9

\* The set holds what it was started from, and with a cell what the cell leads to.
LEMMA FollowedClosed ==
  ASSUME NEW m, NEW from
  PROVE  /\ Followed(m, from) \in SUBSET Cell
         /\ from \cap Cell \subseteq Followed(m, from)
         /\ \A c \in Followed(m, from) : LinksOf(c, m.type, m.car, m.cdr) \subseteq Followed(m, from)
<1>0. HeapEnd \in Nat
  BY HeapEndAssumption
<1>1. PICK g \in [0 .. HeapEnd -> SUBSET Cell] :
        /\ g[0] = from \cap Cell
        /\ \A n \in 1 .. HeapEnd : g[n] = Grown(m, g[n - 1])
        /\ Followed(m, from) = g[HeapEnd]
  BY FollowedIsLoop
<1> DEFINE f == [X \in SUBSET Cell |-> Grown(m, X)]
<1>2. f \in [SUBSET Cell -> SUBSET Cell] /\ Grows(f, Cell)
  BY DEF Grown, LinksOf, Grows
<1>3. IsLoop(g, from \cap Cell, f, HeapEnd)
  BY <1>0, <1>1 DEF IsLoop
<1>4. f[g[HeapEnd]] = g[HeapEnd]
  <2>1. IsFiniteSet(Cell) /\ Cardinality(Cell) <= HeapEnd
    BY <1>0, FiniteCells
  <2> DEFINE P == SUBSET Cell
  <2>2. P = SUBSET Cell /\ f \in [P -> P] /\ g \in [0 .. HeapEnd -> P] /\ Grows(f, Cell)
    BY <1>2
  <2> HIDE DEF f, P
  <2> QED  BY <1>0, <1>3, <2>1, <2>2, ComesToRest
<1>5. g[HeapEnd] \in SUBSET Cell
  BY <1>0
<1>6. Grown(m, g[HeapEnd]) = g[HeapEnd]
  BY <1>4, <1>5
<1>7. \A c \in g[HeapEnd] : LinksOf(c, m.type, m.car, m.cdr) \subseteq g[HeapEnd]
  BY <1>6 DEF Grown
<1> DEFINE T == {n \in 0 .. HeapEnd : g[0] \subseteq g[n]}
<1>8. \A n \in 0 .. HeapEnd - 1 : n \in T => n + 1 \in T
  <2> SUFFICES ASSUME NEW n \in 0 .. HeapEnd - 1, n \in T PROVE g[0] \subseteq g[n + 1]
    BY <1>0
  <2>1. g[n + 1] = Grown(m, g[(n + 1) - 1])
    BY <1>0, <1>1
  <2>2. g[n] \subseteq g[n + 1]
    BY <2>1 DEF Grown
  <2> QED  BY <2>2
<1>9. \A n \in 0 .. HeapEnd : n \in T
  <2>1. 0 \in T
    BY <1>0
  <2> HIDE DEF T
  <2> QED  BY <1>0, <1>8, <2>1, EveryRoundTo
<1>10. g[0] \subseteq g[HeapEnd]
  BY <1>0, <1>9
<1> QED  BY <1>1, <1>5, <1>7, <1>10

-----------------------------------------------------------------------------
(* The list of the garbage, in the order of the addresses. *)

\* How many cells of the list there are from c on.
Rank(G, c) == Cardinality({d \in G : d >= c})

\* A cell has a place in the list, itself counted.
LEMMA RankPositive ==
  ASSUME NEW G, G \subseteq Cell, NEW c \in G
  PROVE  Rank(G, c) \in Nat \ {0} /\ IsFiniteSet({d \in G : d >= c})
<1> DEFINE S == {d \in G : d >= c}
<1>1. S \in SUBSET Cell /\ c \in S
  <2>1. c \in Nat
    BY CellsAreNumbers
  <2>2. S \subseteq Cell
    OBVIOUS
  <2>3. c \in S
    BY <2>1
  <2> QED  BY <2>2, <2>3
<1>2. IsFiniteSet(S)
  <2> HIDE DEF S
  <2> QED  BY <1>1, FiniteCells, FS_Subset
<1>3. Cardinality(S) \in Nat /\ Cardinality(S) # 0
  <2> HIDE DEF S
  <2> QED  BY <1>1, <1>2, FS_CardinalityType, FS_EmptySet
<1> QED  BY <1>2, <1>3 DEF Rank

\* A higher cell is nearer to the end.
LEMMA RankFalls ==
  ASSUME NEW G, G \subseteq Cell, NEW c \in G, NEW d \in G, c < d
  PROVE  Rank(G, d) < Rank(G, c)
<1> DEFINE S == {e \in G : e >= c}
           T == {e \in G : e >= d}
<1>1. IsFiniteSet(S) /\ Rank(G, c) \in Nat /\ Rank(G, d) \in Nat
  BY RankPositive
<1>2. T \in SUBSET S /\ S # T
  <2>1. c \in Nat /\ d \in Nat /\ \A e \in G : e \in Nat
    BY CellsAreNumbers
  <2>2. c \in S /\ c \notin T
    BY <2>1
  <2>3. \A e \in T : e \in S
    BY <2>1
  <2> QED  BY <2>2, <2>3
<1>3. Cardinality(T) <= Cardinality(S) /\ Cardinality(S) # Cardinality(T)
  <2> HIDE DEF S, T
  <2> QED  BY <1>1, <1>2, FS_Subset
<1> QED  BY <1>1, <1>3 DEF Rank

\* The first cell of a set from an address on.
LEMMA NextInIs ==
  ASSUME NEW G, G \subseteq Cell, NEW n \in Nat
  PROVE  \/ NextIn(G, n) = NIL /\ \A d \in G : d < n
         \/ NextIn(G, n) \in G /\ NextIn(G, n) >= n /\ \A d \in G : d >= n => NextIn(G, n) <= d
<1> DEFINE later == {c \in G : c >= n}
<1>0. later \subseteq Nat /\ \A d \in G : d \in Nat
  BY CellsAreNumbers
<1>1. CASE later = {}
  BY <1>0, <1>1 DEF NextIn, Lowest
<1>2. CASE later # {}
  <2>1. \E c \in later : \A d \in later : c <= d
    <3> HIDE DEF later
    <3> QED  BY <1>0, <1>2, LeastNumber
  <2> DEFINE least == CHOOSE c \in later : \A d \in later : c <= d
  <2>2. least \in later /\ \A d \in later : least <= d
    BY <2>1
  <2>3. NextIn(G, n) = least
    BY <1>2 DEF NextIn, Lowest
  <2> QED  BY <2>2, <2>3
<1> QED  BY <1>1, <1>2

\* The sweep links the garbage into one list that ends, and starts with its lowest cell.
LEMMA GarbageList ==
  ASSUME NEW G, G \subseteq Cell
  PROVE  /\ \A c \in G : \/ NextIn(G, c + 1) = NIL /\ Rank(G, c) = 1
                         \/ NextIn(G, c + 1) \in G /\ Rank(G, NextIn(G, c + 1)) = Rank(G, c) - 1
         /\ \A c, d \in G : Rank(G, c) = Rank(G, d) => c = d
         /\ \/ NextIn(G, 0) = NIL /\ G = {}
            \/ NextIn(G, 0) \in G /\ \A c \in G : Rank(G, c) <= Rank(G, NextIn(G, 0))
<1>0. \A c \in G : c \in Nat /\ Rank(G, c) \in Nat
  BY CellsAreNumbers, RankPositive
<1>1. ASSUME NEW c \in G
      PROVE  \/ NextIn(G, c + 1) = NIL /\ Rank(G, c) = 1
             \/ NextIn(G, c + 1) \in G /\ Rank(G, NextIn(G, c + 1)) = Rank(G, c) - 1
  <2> SUFFICES ASSUME NEW d, d = NextIn(G, c + 1)
               PROVE  \/ d = NIL /\ Rank(G, c) = 1
                      \/ d \in G /\ Rank(G, d) = Rank(G, c) - 1
    OBVIOUS
  <2>0. c + 1 \in Nat /\ c \in Nat
    BY <1>0
  <2>1. CASE d = NIL /\ \A e \in G : e < c + 1
    <3>1. \A e \in G : e >= c <=> e = c
      BY <1>0, <2>0, <2>1
    <3>2. {e \in G : e >= c} = {c}
      BY <3>1
    <3> QED  BY <2>1, <3>2, FS_Singleton DEF Rank
  <2>2. CASE d \in G /\ d >= c + 1 /\ \A e \in G : e >= c + 1 => d <= e
    <3> DEFINE T == {e \in G : e >= d}
    <3>0. \A e \in G : e >= c <=> (e >= d \/ e = c)
      <4> SUFFICES ASSUME NEW e \in G PROVE e >= c <=> (e >= d \/ e = c)
        OBVIOUS
      <4>1. e \in Nat /\ d \in Nat
        BY <1>0, <2>2
      <4> QED  BY <2>0, <2>2, <4>1
    <3>1. {e \in G : e >= c} = T \cup {c} /\ c \notin T
      <4>1. ~(c >= d)
        <5>1. d \in Nat
          BY <1>0, <2>2
        <5> QED  BY <2>0, <2>2, <5>1
      <4> QED  BY <3>0, <4>1
    <3>2. IsFiniteSet(T) /\ Cardinality(T) \in Nat
      BY <2>2, RankPositive DEF Rank
    <3>3. Cardinality(T \cup {c}) = Cardinality(T) + 1
      <4> HIDE DEF T
      <4> QED  BY <3>1, <3>2, FS_AddElement
    <3>4. Rank(G, c) = Cardinality(T \cup {c}) /\ Rank(G, d) = Cardinality(T)
      BY <3>1 DEF Rank
    <3> HIDE DEF T
    <3> QED  BY <2>2, <3>2, <3>3, <3>4
  <2>3. \/ d = NIL /\ \A e \in G : e < c + 1
        \/ d \in G /\ d >= c + 1 /\ \A e \in G : e >= c + 1 => d <= e
    BY <2>0, NextInIs
  <2> QED  BY <2>1, <2>2, <2>3
<1>2. ASSUME NEW c \in G, NEW d \in G, Rank(G, c) = Rank(G, d) PROVE c = d
  <2>1. c \in Nat /\ d \in Nat
    BY <1>0
  <2>2. ~(c < d) /\ ~(d < c)
    BY <1>0, <1>2, RankFalls
  <2> QED  BY <2>1, <2>2
<1>3. \/ NextIn(G, 0) = NIL /\ G = {}
      \/ NextIn(G, 0) \in G /\ \A c \in G : Rank(G, c) <= Rank(G, NextIn(G, 0))
  <2>1. CASE NextIn(G, 0) = NIL /\ \A d \in G : d < 0
    BY <1>0, <2>1
  <2>2. CASE NextIn(G, 0) \in G /\ \A d \in G : d >= 0 => NextIn(G, 0) <= d
    <3> SUFFICES ASSUME NEW c \in G PROVE Rank(G, c) <= Rank(G, NextIn(G, 0))
      BY <2>2
    <3>1. c = NextIn(G, 0) \/ NextIn(G, 0) < c
      BY <1>0, <2>2
    <3> QED  BY <1>0, <2>2, <3>1, RankFalls
  <2> QED  BY <2>1, <2>2, NextInIs
<1> QED  BY <1>1, <1>2, <1>3

-----------------------------------------------------------------------------
(***************************************************************************)
(* The invariant.  Every cell has a label that says what it is for: it     *)
(* holds two globals, or an object of the program, or a slot of the frame  *)
(* of a procedure (the running one is NIL, a suspended one its             *)
(* continuation), or an argument of the call that is being prepared, or    *)
(* what a continuation saved, or it is on the free list, or nobody needs   *)
(* it.  A slot, an argument and a free cell know how many cells follow     *)
(* them in their list.  A state is sound when the cells can be labelled    *)
(* so that each finds what its label promises where its fields lead, and   *)
(* no two cells have the same place.                                       *)
(***************************************************************************)
Role == {"global", "object", "frame", "args", "saved", "free", "none"}
Labels == [role : [Cell -> Role], of : [Cell -> Value], at : [Cell -> Nat]]
Address == [slots : Nat, temps : Nat]
Word == Value \cup {0} \cup Entries \cup Address
Machines ==
  [type : [Cell -> {CONS_TYPE, CLOSURE_TYPE, CONTINUATION_TYPE, STRING_TYPE}],
   car : [Cell -> Value], cdr : [Cell -> Word],
   free_cells : Value, env : Value, cont : Value,
   reg1 : Value, reg2 : Value, reg3 : Value, reg4 : Value,
   exhausted : BOOLEAN, spent : SUBSET Cell]

IsObject(o, v) == v \in Cell /\ o.role[v] = "object"
Ref(o, v) == v = NIL \/ IsObject(o, v)
ListRef(m, o, v) == v = NIL \/ (IsObject(o, v) /\ m.type[v] = CONS_TYPE)
In(o, v, role, k, i) == v \in Cell /\ o.role[v] = role /\ o.of[v] = k /\ o.at[v] = i

\* A list of n cells of one role, in front of a list of the program.
Chain(m, o, v, role, k, n) == IF n = 0 THEN ListRef(m, o, v) ELSE In(o, v, role, k, n)

GlobalSound(m, o, c) ==
  /\ o.role[c] = "global" <=> c \in ReservedCell
  /\ o.role[c] = "global" => m.type[c] = CONS_TYPE /\ Ref(o, m.car[c]) /\ Ref(o, m.cdr[c])

ObjectSound(m, o, c) ==
  o.role[c] = "object" =>
    /\ m.type[c] = CONS_TYPE => Ref(o, m.car[c]) /\ Ref(o, m.cdr[c])
    /\ m.type[c] = STRING_TYPE => Ref(o, m.car[c])
    /\ m.type[c] = CLOSURE_TYPE => ListRef(m, o, m.car[c]) /\ m.cdr[c] \in Entries
    /\ m.type[c] = CONTINUATION_TYPE /\ c \notin m.spent =>
         Ref(o, m.car[c]) /\ In(o, m.cdr[c], "saved", c, 0)

SlotSound(m, o, n, a, c) ==
  o.role[c] \in {"frame", "args"} =>
    /\ m.type[c] = CONS_TYPE /\ Ref(o, m.car[c])
    /\ o.at[c] # 0 /\ Chain(m, o, m.cdr[c], o.role[c], o.of[c], o.at[c] - 1)
    /\ IF o.role[c] = "args" THEN o.of[c] = NIL /\ o.at[c] <= a
       ELSE IF o.of[c] = NIL THEN o.at[c] <= n ELSE IsObject(o, o.of[c])

SavedSound(m, o, c) ==
  o.role[c] = "saved" =>
    /\ m.type[c] = CLOSURE_TYPE /\ IsObject(o, o.of[c]) /\ o.at[c] = 0
    /\ m.cdr[c] \in Address /\ m.cdr[c].temps <= m.cdr[c].slots
    /\ Chain(m, o, m.car[c], "frame", o.of[c], m.cdr[c].slots)

FreeSound(m, o, c) ==
  /\ o.role[c] = "free" =>
       /\ o.of[c] = NIL /\ o.at[c] # 0
       /\ IF o.at[c] = 1 THEN m.cdr[c] = NIL ELSE In(o, m.cdr[c], "free", NIL, o.at[c] - 1)
       /\ m.free_cells # NIL /\ o.at[c] <= o.at[m.free_cells]
  /\ c \in m.spent => m.type[c] = CONTINUATION_TYPE /\ o.role[c] # "none"

CellSound(m, o, n, a, c) ==
  /\ GlobalSound(m, o, c) /\ ObjectSound(m, o, c) /\ SlotSound(m, o, n, a, c)
  /\ SavedSound(m, o, c) /\ FreeSound(m, o, c)

Apart(o) ==
  \A c, d \in Cell :
    /\ o.role[c] = o.role[d] /\ o.of[c] = o.of[d] /\ o.at[c] = o.at[d]
    /\ o.role[c] \in {"frame", "args", "saved", "free"}
    => c = d

\* With n slots in the running frame and a arguments prepared.
Sound(m, o, n, a) ==
  /\ m \in Machines /\ o \in Labels /\ n \in Nat /\ a \in Nat
  /\ Apart(o)
  /\ \A c \in Cell : CellSound(m, o, n, a, c)
  /\ Chain(m, o, m.env, "frame", NIL, n)
  /\ Ref(o, m.cont)
  /\ m.free_cells # NIL => o.role[m.free_cells] = "free"

\* The cells on which the soundness of a cell depends.
Uses(m, o, c, v) ==
  LET role == o.role[c]
      spent == m.type[c] = CONTINUATION_TYPE /\ c \in m.spent
  IN \/ role \in {"global", "frame", "args"} /\ v \in {m.car[c], m.cdr[c]}
     \/ role = "object" /\ ~spent /\ v = m.car[c]
     \/ role = "object" /\ ~spent /\ m.type[c] \in HasRightLinkTypes /\ v = m.cdr[c]
     \/ role = "saved" /\ v = m.car[c]
     \/ role = "free" /\ v = m.cdr[c]
     \/ role \in {"frame", "args", "saved"} /\ v = o.of[c]

\* What a cell uses, by its role.
LEMMA UsesWhat ==
  ASSUME NEW m, NEW o, NEW n, NEW a, Sound(m, o, n, a),
         NEW c \in Cell, NEW v \in Cell, Uses(m, o, c, v)
  PROVE  \/ IsObject(o, v)
         \/ /\ o.role[c] \in {"frame", "args"} /\ o.at[c] > 1
            /\ In(o, v, o.role[c], o.of[c], o.at[c] - 1)
         \/ o.role[c] = "saved" /\ o.of[c] \in Cell /\ In(o, v, "frame", o.of[c], m.cdr[c].slots)
         \/ o.role[c] = "object" /\ In(o, v, "saved", c, 0)
         \/ o.role[c] = "free" /\ o.at[c] > 1 /\ In(o, v, "free", NIL, o.at[c] - 1)
<1>1. CellSound(m, o, n, a, c) /\ o.at[c] \in Nat
  BY DEF Sound, Labels
<1>2. CASE o.role[c] = "global"
  BY <1>1, <1>2, NilAssumption DEF Uses, CellSound, GlobalSound, Ref, IsObject
<1>3. CASE o.role[c] = "object"
  <2>1. m.type[c] \in {CONS_TYPE, CLOSURE_TYPE, CONTINUATION_TYPE, STRING_TYPE}
    BY DEF Sound, Machines
  <2> QED
    BY <1>1, <1>3, <2>1, NilAssumption
    DEF Uses, CellSound, ObjectSound, Ref, ListRef, IsObject, HasRightLinkTypes,
        CONS_TYPE, CONTINUATION_TYPE, CLOSURE_TYPE, STRING_TYPE
<1>4. CASE o.role[c] \in {"frame", "args"}
  BY <1>1, <1>4, NilAssumption DEF Uses, CellSound, SlotSound, Ref, ListRef, IsObject, Chain
<1>5. CASE o.role[c] = "saved"
  BY <1>1, <1>5, NilAssumption DEF Uses, CellSound, SavedSound, Ref, ListRef, IsObject, Chain
<1>6. CASE o.role[c] = "free"
  BY <1>1, <1>6, NilAssumption DEF Uses, CellSound, FreeSound
<1> QED
  BY <1>2, <1>3, <1>4, <1>5, <1>6 DEF Uses

SameLabel(o, q, v) == q.role[v] = o.role[v] /\ q.of[v] = o.of[v] /\ q.at[v] = o.at[v]

\* What a step may do to the cells other than p: it forgets some of them, and leaves the
\* others alone.
Stays(m, o, s, q, p) ==
  \A c \in Cell : c # p /\ q.role[c] \notin {"free", "none"} =>
    /\ SameLabel(o, q, c)
    /\ s.type[c] = m.type[c] /\ s.car[c] = m.car[c] /\ s.cdr[c] = m.cdr[c]
    /\ c \in s.spent <=> c \in m.spent

\* A step that changes no cell, before one that changes p.
LEMMA StaysTransitive ==
  ASSUME NEW m, NEW o, NEW s, NEW q, NEW t, NEW r, NEW p, Stays(m, o, s, q, NIL), Stays(s, q, t, r, p)
  PROVE  Stays(m, o, t, r, p)
BY NilAssumption DEF Stays, SameLabel

\* A cell stays sound when it and the cells it depends on are left alone.
LEMMA CellKept ==
  ASSUME NEW m, NEW o, NEW n, NEW a, Sound(m, o, n, a),
         NEW s, NEW q, NEW n2, NEW a2, NEW c \in Cell,
         s.type[c] = m.type[c], s.car[c] = m.car[c], s.cdr[c] = m.cdr[c],
         c \in s.spent <=> c \in m.spent,
         SameLabel(o, q, c),
         \A v \in Cell : Uses(m, o, c, v) => SameLabel(o, q, v) /\ s.type[v] = m.type[v],
         o.role[c] = "frame" /\ o.of[c] = NIL => o.at[c] <= n2,
         o.role[c] = "args" => o.at[c] <= a2,
         o.role[c] = "free" => s.free_cells # NIL /\ o.at[c] <= q.at[s.free_cells]
  PROVE  CellSound(s, q, n2, a2, c)
<1>1. CellSound(m, o, n, a, c) /\ o.at[c] \in Nat
  BY DEF Sound, Labels
<1>2. GlobalSound(s, q, c)
  BY <1>1 DEF CellSound, GlobalSound, Uses, SameLabel, Ref, IsObject
<1>3. ObjectSound(s, q, c)
  <2>1. CASE m.type[c] = CONS_TYPE
    BY <1>1, <2>1 DEF CellSound, ObjectSound, Uses, SameLabel, Ref, IsObject, HasRightLinkTypes,
      CONS_TYPE, CONTINUATION_TYPE, CLOSURE_TYPE, STRING_TYPE
  <2>2. CASE m.type[c] = STRING_TYPE
    BY <1>1, <2>2 DEF CellSound, ObjectSound, Uses, SameLabel, Ref, IsObject,
      CONS_TYPE, CONTINUATION_TYPE, CLOSURE_TYPE, STRING_TYPE
  <2>3. CASE m.type[c] = CLOSURE_TYPE
    BY <1>1, <2>3 DEF CellSound, ObjectSound, Uses, SameLabel, ListRef, IsObject,
      CONS_TYPE, CONTINUATION_TYPE, CLOSURE_TYPE, STRING_TYPE
  <2>4. CASE m.type[c] = CONTINUATION_TYPE
    BY <1>1, <2>4 DEF CellSound, ObjectSound, Uses, SameLabel, Ref, IsObject, In, HasRightLinkTypes,
      CONS_TYPE, CONTINUATION_TYPE, CLOSURE_TYPE, STRING_TYPE
  <2>5. m.type[c] \in {CONS_TYPE, CLOSURE_TYPE, CONTINUATION_TYPE, STRING_TYPE}
    BY DEF Sound, Machines
  <2> QED  BY <2>1, <2>2, <2>3, <2>4, <2>5
<1>4. SlotSound(s, q, n2, a2, c)
  BY <1>1 DEF CellSound, SlotSound, Uses, SameLabel, Ref, ListRef, IsObject, In, Chain
<1>5. SavedSound(s, q, c)
  BY <1>1 DEF CellSound, SavedSound, Uses, SameLabel, ListRef, IsObject, In, Chain
<1>6. FreeSound(s, q, c)
  BY <1>1 DEF CellSound, FreeSound, Uses, SameLabel, In
<1> QED  BY <1>2, <1>3, <1>4, <1>5, <1>6 DEF CellSound

\* A chain is still one when its first cell keeps its label and its type.
LEMMA ChainKept ==
  ASSUME NEW m, NEW o, NEW s, NEW q, NEW v, NEW role, NEW k, NEW n, Chain(m, o, v, role, k, n),
         v \in Cell => SameLabel(o, q, v) /\ s.type[v] = m.type[v]
  PROVE  Chain(s, q, v, role, k, n)
<1>1. CASE n = 0
  BY <1>1 DEF Chain, ListRef, IsObject, SameLabel
<1>2. CASE n # 0
  BY <1>2 DEF Chain, In, SameLabel
<1> QED  BY <1>1, <1>2

\* So is a reference.
LEMMA RefKept ==
  ASSUME NEW o, NEW q, NEW v, Ref(o, v), v \in Cell => SameLabel(o, q, v)
  PROVE  Ref(q, v)
BY DEF Ref, IsObject, SameLabel

-----------------------------------------------------------------------------
(* What the machine does to one cell. *)

Label(o, p, role, k, i) == [o EXCEPT !.role[p] = role, !.of[p] = k, !.at[p] = i]

\* One cell gets another label.
LEMMA Labelled ==
  ASSUME NEW o \in Labels, NEW p \in Cell, NEW role \in Role, NEW k \in Value, NEW i \in Nat
  PROVE  /\ Label(o, p, role, k, i) \in Labels
         /\ Label(o, p, role, k, i).role[p] = role
         /\ Label(o, p, role, k, i).of[p] = k
         /\ Label(o, p, role, k, i).at[p] = i
         /\ \A c \in Cell : c # p => SameLabel(o, Label(o, p, role, k, i), c)
BY DEF Labels, Label, SameLabel

\* The cell on top of the stack is taken off.
LEMMA TopTaken ==
  ASSUME NEW m, NEW o, NEW n, NEW a, Sound(m, o, n, a), n # 0,
         NEW p, p = m.env
  PROVE  /\ p \in Cell /\ o.role[p] = "frame" /\ m.type[p] = CONS_TYPE /\ Ref(o, m.car[p])
         /\ p \notin m.spent
         /\ Sound([m EXCEPT !.env = m.cdr[p]], Label(o, p, "none", NIL, 0), n - 1, a)
         /\ Stays(m, o, [m EXCEPT !.env = m.cdr[p]], Label(o, p, "none", NIL, 0), NIL)
<1> DEFINE s == [m EXCEPT !.env = m.cdr[p]]
           q == Label(o, p, "none", NIL, 0)
<1>1. m \in Machines /\ o \in Labels /\ n \in Nat /\ a \in Nat /\ Apart(o)
  BY DEF Sound
<1>2. In(o, p, "frame", NIL, n)
  BY DEF Sound, Chain
<1>3. CellSound(m, o, n, a, p)
  BY <1>2 DEF Sound, In
<1>4. /\ m.type[p] = CONS_TYPE /\ Ref(o, m.car[p]) /\ Chain(m, o, m.cdr[p], "frame", NIL, n - 1)
      /\ p \notin m.spent
  BY <1>2, <1>3 DEF CellSound, SlotSound, FreeSound, In, CONS_TYPE, CONTINUATION_TYPE
<1>5. m.cdr[p] \in Value
  BY <1>4 DEF Chain, ListRef, IsObject, In, Value
<1>6. s \in Machines
  BY <1>1, <1>5 DEF Machines
<1>7. /\ q \in Labels /\ q.role[p] = "none" /\ q.of[p] = NIL /\ q.at[p] = 0
      /\ \A c \in Cell : c # p => SameLabel(o, q, c)
  <2>1. p \in Cell /\ "none" \in Role /\ NIL \in Value /\ 0 \in Nat
    BY <1>2 DEF In, Role, Value
  <2> QED  BY <1>1, <2>1, Labelled
<1>8. Apart(q)
  BY <1>1, <1>7 DEF Apart, SameLabel
<1>9. ASSUME NEW c \in Cell PROVE CellSound(s, q, n - 1, a, c)
  <2>1. CASE c = p
    <3>1. s.type[p] = m.type[p] /\ s.car[p] = m.car[p] /\ s.spent = m.spent /\ p \in Cell \ ReservedCell
      BY <1>2, <1>3 DEF CellSound, GlobalSound, In
    <3> QED  BY <1>2, <1>4, <1>7, <2>1, <3>1
             DEF CellSound, GlobalSound, ObjectSound, SlotSound, SavedSound, FreeSound, In
  <2>2. CASE c # p
    <3>1. CellSound(m, o, n, a, c) /\ o.at[c] \in Nat
      BY <1>1 DEF Sound, Labels
    <3>2. /\ s.type = m.type /\ s.car = m.car /\ s.cdr = m.cdr /\ s.spent = m.spent
          /\ s.free_cells = m.free_cells
      BY <1>1 DEF Machines
    <3>3. ASSUME NEW v \in Cell, Uses(m, o, c, v) PROVE v # p
      BY <1>1, <1>2, <3>1, <3>3, UsesWhat, NilAssumption DEF IsObject, In, CellSound, SlotSound
    <3>4. o.role[c] = "frame" /\ o.of[c] = NIL => o.at[c] <= n - 1
      BY <1>1, <1>2, <2>2, <3>1 DEF CellSound, SlotSound, Apart, In
    <3>5. o.role[c] = "args" => o.at[c] <= a
      BY <3>1 DEF CellSound, SlotSound
    <3>6. o.role[c] = "free" => s.free_cells # NIL /\ o.at[c] <= q.at[s.free_cells]
      <4>1. o.role[c] = "free" => m.free_cells # NIL /\ o.at[c] <= o.at[m.free_cells]
        BY <3>1 DEF CellSound, FreeSound
      <4>2. m.free_cells # NIL => m.free_cells \in Cell /\ m.free_cells # p
        BY <1>1, <1>2 DEF Sound, In, Machines, Value
      <4> QED  BY <1>7, <3>2, <4>1, <4>2 DEF SameLabel
    <3> QED
      <4> HIDE DEF s, q
      <4> QED  BY <1>7, <2>2, <3>2, <3>3, <3>4, <3>5, <3>6, CellKept
  <2> QED  BY <2>1, <2>2
<1>10. Chain(s, q, s.env, "frame", NIL, n - 1) /\ Ref(q, s.cont)
  <2>1. s.env = m.cdr[p] /\ s.cont = m.cont /\ s.type = m.type /\ Ref(o, m.cont)
    BY <1>1 DEF Machines, Sound
  <2>2. m.cdr[p] # p /\ m.cont # p
    BY <1>1, <1>2, <1>4, <2>1, NilAssumption DEF Chain, In, ListRef, Ref, IsObject
  <2> HIDE DEF s, q
  <2>3. Ref(q, s.cont)
    BY <1>7, <2>1, <2>2, RefKept
  <2>4. Chain(s, q, s.env, "frame", NIL, n - 1)
    BY <1>4, <1>7, <2>1, <2>2, ChainKept
  <2> QED  BY <2>3, <2>4
<1>11. s.free_cells # NIL => q.role[s.free_cells] = "free"
  BY <1>1, <1>2, <1>7 DEF Sound, Machines, Value, In, SameLabel
<1>12. Sound(s, q, n - 1, a)
  BY <1>1, <1>6, <1>7, <1>8, <1>9, <1>10, <1>11 DEF Sound
<1>13. Stays(m, o, s, q, NIL)
  <2>1. s.type = m.type /\ s.car = m.car /\ s.cdr = m.cdr /\ s.spent = m.spent
    BY <1>1 DEF Machines
  <2> HIDE DEF s, q
  <2> QED  BY <1>7, <2>1 DEF Stays
<1> QED
  BY <1>2, <1>4, <1>12, <1>13 DEF In

\* One cell gets another content, or a cell that nobody needs a purpose.
LEMMA OneCell ==
  ASSUME NEW m, NEW o, NEW n, NEW a, Sound(m, o, n, a),
         NEW s \in Machines, NEW q \in Labels, NEW n2 \in Nat, NEW a2 \in Nat, n <= n2, a <= a2,
         NEW p \in Cell,
         \A c \in Cell : c # p => /\ SameLabel(o, q, c) /\ s.type[c] = m.type[c]
                                  /\ s.car[c] = m.car[c] /\ s.cdr[c] = m.cdr[c]
                                  /\ (c \in s.spent <=> c \in m.spent),
         o.role[p] = "none" \/ (SameLabel(o, q, p) /\ s.type[p] = m.type[p]),
         CellSound(s, q, n2, a2, p),
         SameLabel(o, q, p) \/
           \A c \in Cell : q.role[p] = o.role[c] /\ q.of[p] = o.of[c] /\ q.at[p] = o.at[c]
                           => q.role[p] \in {"object", "none"},
         \A c \in Cell : c # p /\ o.role[c] = "free"
                         => s.free_cells # NIL /\ o.at[c] <= q.at[s.free_cells],
         Chain(s, q, s.env, "frame", NIL, n2), Ref(q, s.cont),
         s.free_cells # NIL => q.role[s.free_cells] = "free"
  PROVE  Sound(s, q, n2, a2)
<1>1. m \in Machines /\ o \in Labels /\ n \in Nat /\ a \in Nat /\ Apart(o)
  BY DEF Sound
<1>2. Apart(q)
  BY <1>1 DEF Apart, SameLabel
<1>3. ASSUME NEW c \in Cell, c # p PROVE CellSound(s, q, n2, a2, c)
  <2>1. CellSound(m, o, n, a, c) /\ o.at[c] \in Nat
    BY <1>1 DEF Sound, Labels
  <2>2. ASSUME NEW v \in Cell, Uses(m, o, c, v) PROVE SameLabel(o, q, v) /\ s.type[v] = m.type[v]
    <3>1. o.role[v] # "none"
      BY <2>2, UsesWhat DEF IsObject, In
    <3> QED  BY <3>1
  <2>3. o.role[c] = "frame" /\ o.of[c] = NIL => o.at[c] <= n2
    BY <1>1, <2>1 DEF CellSound, SlotSound
  <2>4. o.role[c] = "args" => o.at[c] <= a2
    BY <1>1, <2>1 DEF CellSound, SlotSound
  <2> QED  BY <1>3, <2>2, <2>3, <2>4, CellKept
<1> QED  BY <1>2, <1>3 DEF Sound

\* return_to_free_list()
LEMMA Freed ==
  ASSUME NEW m, NEW o, NEW n, NEW a, Sound(m, o, n, a), NEW p \in Cell, o.role[p] = "none"
  PROVE  \E q : /\ Sound(return_to_free_list(m, p), q, n, a)
                /\ \A c \in Cell : c # p => SameLabel(o, q, c)
                /\ Stays(m, o, return_to_free_list(m, p), q, NIL)
<1> DEFINE s == return_to_free_list(m, p)
           i == IF m.free_cells = NIL THEN 1 ELSE o.at[m.free_cells] + 1
           q == Label(o, p, "free", NIL, i)
<1>1. m \in Machines /\ o \in Labels /\ n \in Nat /\ a \in Nat /\ Apart(o) /\ CellSound(m, o, n, a, p)
  BY DEF Sound
<1>2. s \in Machines
  BY <1>1 DEF Machines, return_to_free_list, Word, Value
<1>3. /\ q \in Labels /\ q.role[p] = "free" /\ q.of[p] = NIL /\ q.at[p] = i /\ i \in Nat \ {0}
      /\ \A c \in Cell : c # p => SameLabel(o, q, c)
  <2>1. m.free_cells # NIL => m.free_cells \in Cell
    BY <1>1 DEF Machines, Value
  <2>2. i \in Nat \ {0} /\ "free" \in Role /\ NIL \in Value
    BY <1>1, <2>1 DEF Labels, Role, Value
  <2> HIDE DEF i
  <2> QED  BY <1>1, <2>2, Labelled
<1>4. /\ s.free_cells = p /\ s.cdr[p] = m.free_cells /\ s.type[p] = CONS_TYPE
      /\ s.env = m.env /\ s.cont = m.cont /\ s.spent = m.spent
      /\ \A c \in Cell : c # p => s.type[c] = m.type[c] /\ s.car[c] = m.car[c] /\ s.cdr[c] = m.cdr[c]
  BY <1>1 DEF Machines, return_to_free_list
<1>5. /\ p \notin m.spent /\ p \notin ReservedCell
      /\ m.free_cells # NIL => m.free_cells \in Cell /\ m.free_cells # p
                               /\ o.role[m.free_cells] = "free" /\ o.at[m.free_cells] # 0
                               /\ o.of[m.free_cells] = NIL
  <2>1. m.free_cells # NIL => /\ m.free_cells \in Cell /\ o.role[m.free_cells] = "free"
                              /\ CellSound(m, o, n, a, m.free_cells)
    BY <1>1 DEF Machines, Value, Sound
  <2> QED  BY <1>1, <2>1 DEF CellSound, FreeSound, GlobalSound
<1>6. \A c \in Cell : o.role[c] = "free" => m.free_cells # NIL /\ o.at[c] <= o.at[m.free_cells]
  BY DEF Sound, CellSound, FreeSound
<1>7. \A c \in Cell : o.role[c] = "free" => o.at[c] < i
  BY <1>1, <1>6 DEF Labels, Machines, Value
<1>8. CellSound(s, q, n, a, p)
  <2>1. FreeSound(s, q, p)
    <3>1. p # NIL
      BY NilAssumption
    <3>2. CASE m.free_cells = NIL
      BY <1>3, <1>4, <1>5, <3>1, <3>2 DEF FreeSound
    <3>3. CASE m.free_cells # NIL
      <4>1. In(q, m.free_cells, "free", NIL, i - 1)
        BY <1>1, <1>3, <1>5, <3>3, SMTT(30) DEF In, SameLabel, Labels
      <4>2. i # 1
        BY <1>1, <1>5, <3>3 DEF Labels
      <4> HIDE DEF s, q, i
      <4> QED  BY <1>3, <1>4, <1>5, <3>1, <4>1, <4>2 DEF FreeSound
    <3> QED  BY <3>2, <3>3
  <2> HIDE DEF s, q
  <2> QED  BY <1>3, <1>5, <2>1 DEF CellSound, GlobalSound, ObjectSound, SlotSound, SavedSound
<1>9. Chain(s, q, s.env, "frame", NIL, n) /\ Ref(q, s.cont)
  <2>1. Chain(m, o, m.env, "frame", NIL, n) /\ Ref(o, m.cont)
    BY DEF Sound
  <2>2. m.env # p /\ m.cont # p
    BY <2>1, NilAssumption DEF Chain, ListRef, IsObject, In, Ref
  <2> HIDE DEF s, q
  <2> QED  BY <1>3, <1>4, <2>1, <2>2, ChainKept, RefKept
<1>10. Sound(s, q, n, a)
  <2>1. \A c \in Cell : c # p /\ o.role[c] = "free"
                        => s.free_cells # NIL /\ o.at[c] <= q.at[s.free_cells]
    <3>1. \A c \in Cell : o.at[c] \in Nat
      BY <1>1 DEF Labels
    <3> HIDE DEF s, q, i
    <3> QED  BY <1>3, <1>4, <1>7, <3>1, NilAssumption
  <2>2. \A c \in Cell : ~(q.role[p] = o.role[c] /\ q.of[p] = o.of[c] /\ q.at[p] = o.at[c])
    <3> HIDE DEF s, q, i
    <3> QED  BY <1>1, <1>3, <1>7 DEF Labels
  <2>3. /\ \A c \in Cell : c # p => /\ SameLabel(o, q, c) /\ s.type[c] = m.type[c]
                                    /\ s.car[c] = m.car[c] /\ s.cdr[c] = m.cdr[c]
                                    /\ (c \in s.spent <=> c \in m.spent)
        /\ n <= n /\ a <= a
        /\ q.role[s.free_cells] = "free"
    BY <1>1, <1>3, <1>4
  <2> HIDE DEF s, q
  <2> QED  BY <1>1, <1>2, <1>3, <1>8, <1>9, <2>1, <2>2, <2>3, OneCell
<1>11. Stays(m, o, s, q, NIL)
  <2> HIDE DEF s, q
  <2> QED  BY <1>3, <1>4 DEF Stays
<1> QED
  <2> HIDE DEF q
  <2> QED  BY <1>3, <1>10, <1>11

-----------------------------------------------------------------------------
(* Collections and allocations. *)

\* What stays when the garbage is collected.
LiveKept(m, o, s, q) ==
  \A c \in Live(m) :
    /\ s.type[c] = m.type[c] /\ s.car[c] = m.car[c] /\ s.cdr[c] = m.cdr[c]
    /\ o.role[c] \notin {"frame", "saved"} \/ o.of[c] = NIL => SameLabel(o, q, c)

\* The live cells: the globals, the registers, and what they lead to.
LEMMA LiveIs ==
  ASSUME NEW m
  PROVE  /\ Live(m) \subseteq Cell
         /\ ReservedCell \subseteq Live(m)
         /\ \A v \in Registers(m) : v \in Cell => v \in Live(m)
         /\ \A c \in Live(m) : LinksOf(c, m.type, m.car, m.cdr) \subseteq Live(m)
BY FollowedClosed DEF Live, ReservedCell

\* A cell depends on the cells that it links to, and on the one of its continuation.
LEMMA UsesLinks ==
  ASSUME NEW m, NEW o, NEW n, NEW a, Sound(m, o, n, a),
         NEW c \in Cell, NEW v \in Cell, Uses(m, o, c, v), o.role[c] # "free"
  PROVE  \/ v \in LinksOf(c, m.type, m.car, m.cdr)
         \/ o.role[c] \in {"frame", "args", "saved"} /\ v = o.of[c]
<1>1. CellSound(m, o, n, a, c) /\ m.type[c] \in {CONS_TYPE, CLOSURE_TYPE, CONTINUATION_TYPE, STRING_TYPE}
  BY DEF Sound, Machines
<1>2. o.role[c] \in {"global", "frame", "args"} => m.type[c] = CONS_TYPE
  BY <1>1 DEF CellSound, GlobalSound, SlotSound
<1>3. o.role[c] = "saved" => m.type[c] = CLOSURE_TYPE
  BY <1>1 DEF CellSound, SavedSound
<1>4. /\ v = m.car[c] => v \in LinksOf(c, m.type, m.car, m.cdr)
      /\ m.type[c] \in HasRightLinkTypes /\ v = m.cdr[c] => v \in LinksOf(c, m.type, m.car, m.cdr)
  BY <1>1 DEF LinksOf, HasLeftLinkTypes, HasRightLinkTypes
<1> QED
  BY <1>2, <1>3, <1>4 DEF Uses, HasRightLinkTypes

\* mm_gc()
LEMMA Collected ==
  ASSUME NEW m, NEW o, NEW n, NEW a, Sound(m, o, n, a), m.free_cells = NIL
  PROVE  \E q : /\ Sound(mm_gc(m), q, n, a) /\ LiveKept(m, o, mm_gc(m), q)
                /\ Stays(m, o, mm_gc(m), q, NIL)
<1> DEFINE G == Cell \ Live(m)
           s == mm_gc(m)
           Lost(c) == o.role[c] \in {"frame", "saved"} /\ o.of[c] \in G
           q == [role |-> [c \in Cell |-> IF c \in G THEN "free" ELSE IF Lost(c) THEN "none" ELSE o.role[c]],
                 of   |-> [c \in Cell |-> IF c \in G \/ Lost(c) THEN NIL ELSE o.of[c]],
                 at   |-> [c \in Cell |-> IF c \in G THEN Rank(G, c) ELSE IF Lost(c) THEN 0 ELSE o.at[c]]]
<1>1. m \in Machines /\ o \in Labels /\ n \in Nat /\ a \in Nat /\ Apart(o)
  BY DEF Sound
<1>2. G \subseteq Cell
  OBVIOUS
<1>3. /\ \A c \in G : \/ NextIn(G, c + 1) = NIL /\ Rank(G, c) = 1
                      \/ NextIn(G, c + 1) \in G /\ Rank(G, NextIn(G, c + 1)) = Rank(G, c) - 1
      /\ \A c, d \in G : Rank(G, c) = Rank(G, d) => c = d
      /\ \/ NextIn(G, 0) = NIL /\ G = {}
         \/ NextIn(G, 0) \in G /\ \A c \in G : Rank(G, c) <= Rank(G, NextIn(G, 0))
  <2> HIDE DEF G
  <2> QED  BY <1>2, GarbageList
<1>4. \A c \in G : Rank(G, c) \in Nat \ {0}
  <2> HIDE DEF G
  <2> QED  BY <1>2, RankPositive
<1>5. /\ s.type = m.type /\ s.car = m.car /\ s.spent = m.spent
      /\ s.env = m.env /\ s.cont = m.cont /\ s.free_cells = NextIn(G, 0)
      /\ \A c \in Cell : s.cdr[c] = IF c \in G THEN NextIn(G, c + 1) ELSE m.cdr[c]
  <2> HIDE DEF G
  <2>1. s = [m EXCEPT !.cdr = [c \in Cell |-> IF c \in G THEN NextIn(G, c + 1) ELSE @[c]],
                      !.free_cells = NextIn(G, 0)]
    BY DEF mm_gc, G
  <2> HIDE DEF s
  <2> QED  BY <1>1, <2>1 DEF Machines
<1>6. s \in Machines
  <2> HIDE DEF G
  <2>1. s = [m EXCEPT !.cdr = [c \in Cell |-> IF c \in G THEN NextIn(G, c + 1) ELSE @[c]],
                      !.free_cells = NextIn(G, 0)]
    BY DEF mm_gc, G
  <2>2. NextIn(G, 0) \in Value /\ \A c \in G : NextIn(G, c + 1) \in Value
    BY <1>2, <1>3 DEF Value
  <2> HIDE DEF s
  <2> QED  BY <1>1, <2>1, <2>2 DEF Machines, Word
<1>7. \A c \in Cell : o.role[c] # "free"
  BY DEF Sound, CellSound, FreeSound
<1>8. q \in Labels
  BY <1>1, <1>4 DEF Labels, Role, Value
<1>9. \A c \in Cell :
        /\ c \in G => q.role[c] = "free" /\ q.of[c] = NIL /\ q.at[c] = Rank(G, c)
        /\ c \notin G /\ Lost(c) => q.role[c] = "none"
        /\ c \notin G /\ ~Lost(c) => SameLabel(o, q, c)
  BY DEF SameLabel
<1>10. Apart(q)
  <2> SUFFICES ASSUME NEW c \in Cell, NEW d \in Cell,
                      q.role[c] = q.role[d], q.of[c] = q.of[d], q.at[c] = q.at[d],
                      q.role[c] \in {"frame", "args", "saved", "free"}
               PROVE  c = d
    <3> HIDE DEF q
    <3> QED  BY DEF Apart
  <2>1. CASE c \in G /\ d \in G
    <3> HIDE DEF q, G
    <3> QED  BY <1>3, <1>9, <2>1
  <2>2. CASE c \notin G /\ d \notin G
    <3> HIDE DEF q
    <3> QED  BY <1>1, <1>9, <2>2 DEF SameLabel, Apart
  <2>3. CASE (c \in G /\ d \notin G) \/ (c \notin G /\ d \in G)
    <3> HIDE DEF q, G, Lost
    <3> QED  BY <1>7, <1>9, <2>3 DEF SameLabel
  <2> QED  BY <2>1, <2>2, <2>3
<1>11. ASSUME NEW c \in Cell PROVE CellSound(s, q, n, a, c)
  <2>0. CellSound(m, o, n, a, c) /\ (c \in G => c \notin ReservedCell)
    BY LiveIs DEF Sound
  <2>1. CASE c \in G
    <3>1. FreeSound(s, q, c)
      <4> HIDE DEF G, q, s
      <4>1. s.free_cells # NIL /\ q.at[c] <= q.at[s.free_cells]
        BY <1>2, <1>3, <1>5, <1>9, <2>1, NilAssumption
      <4>2. c \in s.spent => s.type[c] = CONTINUATION_TYPE
        BY <1>5, <2>0 DEF CellSound, FreeSound
      <4>3. IF q.at[c] = 1 THEN s.cdr[c] = NIL ELSE In(q, s.cdr[c], "free", NIL, q.at[c] - 1)
        BY <1>2, <1>3, <1>4, <1>5, <1>9, <2>1 DEF In
      <4> QED  BY <1>4, <1>9, <2>1, <4>1, <4>2, <4>3 DEF FreeSound
    <3> HIDE DEF q, s
    <3> QED  BY <1>9, <2>0, <2>1, <3>1 DEF CellSound, GlobalSound, ObjectSound, SlotSound, SavedSound
  <2>2. CASE c \notin G /\ Lost(c)
    <3>1. c \notin m.spent /\ c \notin ReservedCell
      BY <2>0, <2>2 DEF CellSound, GlobalSound, SlotSound, SavedSound, FreeSound,
        CONS_TYPE, CLOSURE_TYPE, CONTINUATION_TYPE
    <3> HIDE DEF q, s
    <3> QED  BY <1>5, <1>9, <2>2, <3>1
      DEF CellSound, GlobalSound, ObjectSound, SlotSound, SavedSound, FreeSound
  <2>3. CASE c \notin G /\ ~Lost(c)
    <3>1. ASSUME NEW v \in Cell, Uses(m, o, c, v) PROVE SameLabel(o, q, v) /\ s.type[v] = m.type[v]
      <4>1. v \notin G
        <5>1. c \in Live(m)
          BY <2>3
        <5>2. LinksOf(c, m.type, m.car, m.cdr) \subseteq Live(m)
          BY <5>1, LiveIs
        <5>3. o.role[c] = "args" => o.of[c] = NIL
          BY <2>0 DEF CellSound, SlotSound
        <5>4. CASE v \in LinksOf(c, m.type, m.car, m.cdr)
          BY <5>2, <5>4
        <5>5. CASE o.role[c] \in {"frame", "args", "saved"} /\ v = o.of[c]
          BY <2>3, <5>3, <5>5, NilAssumption
        <5> QED  BY <1>7, <3>1, <5>4, <5>5, UsesLinks
      <4>2. ~Lost(v)
        <5>1. o.role[c] = "args" => o.of[c] = NIL
          BY <2>0 DEF CellSound, SlotSound
        <5>2. CASE IsObject(o, v)
          BY <5>2 DEF IsObject
        <5>3. CASE o.role[c] \in {"frame", "args"} /\ In(o, v, o.role[c], o.of[c], o.at[c] - 1)
          BY <2>3, <5>1, <5>3, NilAssumption DEF In
        <5>4. CASE o.role[c] = "saved" /\ In(o, v, "frame", o.of[c], m.cdr[c].slots)
          BY <2>3, <5>4 DEF In
        <5>5. CASE In(o, v, "saved", c, 0)
          BY <2>3, <5>5 DEF In
        <5> HIDE DEF Lost
        <5> QED  BY <1>7, <3>1, <5>2, <5>3, <5>4, <5>5, UsesWhat
      <4> HIDE DEF q, s, G, Lost
      <4> QED  BY <1>5, <1>9, <4>1, <4>2
    <3>2. /\ s.type[c] = m.type[c] /\ s.car[c] = m.car[c] /\ s.cdr[c] = m.cdr[c]
          /\ c \in s.spent <=> c \in m.spent
          /\ SameLabel(o, q, c)
      <4> HIDE DEF q, s, G, Lost
      <4> QED  BY <1>5, <1>9, <2>3
    <3>3. /\ o.role[c] = "frame" /\ o.of[c] = NIL => o.at[c] <= n
          /\ o.role[c] = "args" => o.at[c] <= a
          /\ o.role[c] # "free"
      BY <1>7, <2>0 DEF CellSound, SlotSound
    <3> HIDE DEF q, s
    <3> QED  BY <3>1, <3>2, <3>3, CellKept
  <2> QED  BY <2>1, <2>2, <2>3
<1>12. Chain(s, q, s.env, "frame", NIL, n) /\ Ref(q, s.cont)
  <2>1. Chain(m, o, m.env, "frame", NIL, n) /\ Ref(o, m.cont)
    BY DEF Sound
  <2>2. \A v \in {m.env, m.cont} : v \in Cell => v \notin G
    BY LiveIs DEF Registers
  <2>3. m.env \in Cell => ~Lost(m.env)
    BY <2>1, NilAssumption DEF Chain, ListRef, IsObject, In
  <2>4. m.cont \in Cell => ~Lost(m.cont)
    BY <2>1, NilAssumption DEF Ref, IsObject
  <2>5. \A v \in {m.env, m.cont} : v \in Cell => SameLabel(o, q, v) /\ s.type[v] = m.type[v]
    <3> HIDE DEF q, s, G, Lost
    <3> QED  BY <1>5, <1>9, <2>2, <2>3, <2>4
  <2> HIDE DEF s, q
  <2>6. Chain(s, q, s.env, "frame", NIL, n)
    BY <1>5, <2>1, <2>5, ChainKept
  <2>7. Ref(q, s.cont)
    BY <1>5, <2>1, <2>5, RefKept
  <2> QED  BY <2>6, <2>7
<1>13. s.free_cells # NIL => q.role[s.free_cells] = "free"
  <2> HIDE DEF q, s, G
  <2> QED  BY <1>2, <1>3, <1>5, <1>9
<1>14. LiveKept(m, o, s, q)
  <2>1. \A c \in Live(m) : c \in Cell /\ c \notin G
    BY LiveIs
  <2>2. \A c \in Cell : o.role[c] \notin {"frame", "saved"} \/ o.of[c] = NIL => ~Lost(c)
    BY NilAssumption
  <2> HIDE DEF q, s, G, Lost
  <2> QED  BY <1>5, <1>9, <2>1, <2>2 DEF LiveKept
<1>15. Sound(s, q, n, a)
  <2> HIDE DEF q, s
  <2> QED  BY <1>1, <1>6, <1>8, <1>10, <1>11, <1>12, <1>13 DEF Sound
<1>16. Stays(m, o, s, q, NIL)
  <2> HIDE DEF q, s, G, Lost
  <2> QED  BY <1>5, <1>9 DEF Stays
<1> QED
  <2> HIDE DEF q
  <2> QED  BY <1>14, <1>15, <1>16

\* What an allocation leaves alone: everything that can be reached from the registers,
\* but the free list and what the collector may drop of a continuation.
Held(m, o, c) ==
  c \in Live(m) /\ o.role[c] # "free" /\ (o.role[c] \notin {"frame", "saved"} \/ o.of[c] = NIL)
HeldKept(m, o, s, q) ==
  \A c \in Cell : Held(m, o, c) =>
    /\ SameLabel(o, q, c)
    /\ s.type[c] = m.type[c] /\ s.car[c] = m.car[c] /\ s.cdr[c] = m.cdr[c]

SameRegisters(m, s) ==
  /\ s.env = m.env /\ s.cont = m.cont
  /\ s.reg1 = m.reg1 /\ s.reg2 = m.reg2 /\ s.reg3 = m.reg3 /\ s.reg4 = m.reg4

\* An allocation that finds no cell free collects, and what is held stays as it is.
LEMMA AvailableSound ==
  ASSUME NEW m, NEW o, NEW n, NEW a, Sound(m, o, n, a)
  PROVE  /\ \E q : /\ Sound(Available(m), q, n, a) /\ HeldKept(m, o, Available(m), q)
                   /\ Stays(m, o, Available(m), q, NIL)
         /\ SameRegisters(m, Available(m)) /\ Available(m).exhausted = m.exhausted
         /\ m.free_cells # NIL => Available(m).free_cells # NIL
<1>1. CASE m.free_cells # NIL
  <2>1. Available(m) = m
    BY <1>1 DEF Available
  <2> QED  BY <1>1, <2>1 DEF HeldKept, Held, SameLabel, SameRegisters, Stays
<1>2. CASE m.free_cells = NIL
  <2>1. Available(m) = mm_gc(m) /\ m \in Machines
    BY <1>2 DEF Available, Sound
  <2>2. PICK q : /\ Sound(mm_gc(m), q, n, a) /\ LiveKept(m, o, mm_gc(m), q)
                 /\ Stays(m, o, mm_gc(m), q, NIL)
    BY <1>2, Collected
  <2>3. HeldKept(m, o, mm_gc(m), q)
    BY <2>2 DEF HeldKept, Held, LiveKept
  <2>4. SameRegisters(m, mm_gc(m)) /\ mm_gc(m).exhausted = m.exhausted
    BY <2>1 DEF SameRegisters, Machines, mm_gc
  <2> QED  BY <1>2, <2>1, <2>2, <2>3, <2>4
<1> QED  BY <1>1, <1>2

\* The head of the free list leaves it.
Taken(m, p, type, car, cdr) ==
  [m EXCEPT !.free_cells = m.cdr[p], !.type[p] = type, !.car[p] = car, !.cdr[p] = cdr,
            !.spent = @ \ {p}]

\* The head of the free list is taken off it and filled.
LEMMA HeadTaken ==
  ASSUME NEW m, NEW o, NEW n, NEW a, Sound(m, o, n, a), NEW p, p = m.free_cells, p # NIL,
         NEW type \in {CONS_TYPE, CLOSURE_TYPE, CONTINUATION_TYPE, STRING_TYPE},
         NEW car \in Value, NEW cdr \in Word, NEW s, s = Taken(m, p, type, car, cdr)
  PROVE  /\ Sound(s, Label(o, p, "none", NIL, 0), n, a)
         /\ p \in Cell /\ o.role[p] = "free" /\ Label(o, p, "none", NIL, 0).role[p] = "none"
         /\ s.type[p] = type /\ s.car[p] = car /\ s.cdr[p] = cdr
         /\ \A c \in Cell : c # p => /\ SameLabel(o, Label(o, p, "none", NIL, 0), c)
                                     /\ s.type[c] = m.type[c] /\ s.car[c] = m.car[c]
                                     /\ s.cdr[c] = m.cdr[c]
         /\ Stays(m, o, s, Label(o, p, "none", NIL, 0), NIL)
<1> DEFINE q == Label(o, p, "none", NIL, 0)
<1>1. m \in Machines /\ o \in Labels /\ n \in Nat /\ a \in Nat /\ Apart(o)
  BY DEF Sound
<1>2. p \in Cell /\ o.role[p] = "free"
  BY <1>1 DEF Sound, Machines, Value
<1>3. CellSound(m, o, n, a, p) /\ o.at[p] \in Nat
  BY <1>1, <1>2 DEF Sound, Labels
<1>4. /\ o.of[p] = NIL /\ o.at[p] # 0 /\ p \notin ReservedCell
      /\ IF o.at[p] = 1 THEN m.cdr[p] = NIL ELSE In(o, m.cdr[p], "free", NIL, o.at[p] - 1)
  BY <1>2, <1>3 DEF CellSound, FreeSound, GlobalSound
<1>5. m.cdr[p] \in Value
  BY <1>4 DEF In, Value
<1>6. s \in Machines
  BY <1>1, <1>2, <1>5 DEF Machines, Taken
<1>7. /\ q \in Labels /\ q.role[p] = "none" /\ q.of[p] = NIL /\ q.at[p] = 0
      /\ \A c \in Cell : c # p => SameLabel(o, q, c)
  <2>1. "none" \in Role /\ NIL \in Value /\ 0 \in Nat
    BY DEF Role, Value
  <2> QED  BY <1>1, <1>2, <2>1, Labelled
<1>8. /\ s.free_cells = m.cdr[p] /\ s.env = m.env /\ s.cont = m.cont
      /\ s.type[p] = type /\ s.car[p] = car /\ s.cdr[p] = cdr /\ p \notin s.spent
      /\ \A c \in Cell : c # p => /\ s.type[c] = m.type[c] /\ s.car[c] = m.car[c]
                                  /\ s.cdr[c] = m.cdr[c] /\ (c \in s.spent <=> c \in m.spent)
  BY <1>1, <1>2 DEF Machines, Taken
<1> HIDE DEF q
<1>9. Apart(q)
  BY <1>1, <1>7 DEF Apart, SameLabel
<1>10. ASSUME NEW c \in Cell PROVE CellSound(s, q, n, a, c)
  <2>1. CASE c = p
    BY <1>4, <1>7, <1>8, <2>1
    DEF CellSound, GlobalSound, ObjectSound, SlotSound, SavedSound, FreeSound
  <2>2. CASE c # p
    <3>1. CellSound(m, o, n, a, c) /\ o.at[c] \in Nat
      BY <1>1 DEF Sound, Labels
    <3>2. o.role[c] = "free" => o.at[c] < o.at[p] /\ o.of[c] = NIL
      BY <1>1, <1>2, <1>3, <1>4, <2>2, <3>1 DEF CellSound, FreeSound, Apart
    <3>3. ASSUME NEW v \in Cell, Uses(m, o, c, v) PROVE v # p
      BY <1>2, <1>3, <3>1, <3>2, <3>3, UsesWhat DEF IsObject, In
    <3>4. o.role[c] = "free" => s.free_cells # NIL /\ o.at[c] <= q.at[s.free_cells]
      <4>1. o.role[c] = "free" => o.at[p] # 1 /\ m.cdr[p] \in Cell /\ m.cdr[p] # p
                                  /\ o.at[m.cdr[p]] = o.at[p] - 1
        BY <1>3, <1>4, <3>1, <3>2 DEF In, CellSound, FreeSound
      <4> QED  BY <1>3, <1>7, <1>8, <3>1, <3>2, <4>1, NilAssumption DEF SameLabel
    <3>5. o.role[c] = "frame" /\ o.of[c] = NIL => o.at[c] <= n
      BY <3>1 DEF CellSound, SlotSound
    <3>6. o.role[c] = "args" => o.at[c] <= a
      BY <3>1 DEF CellSound, SlotSound
    <3> QED  BY <1>7, <1>8, <2>2, <3>3, <3>4, <3>5, <3>6, CellKept
  <2> QED  BY <2>1, <2>2
<1>11. Chain(s, q, s.env, "frame", NIL, n) /\ Ref(q, s.cont)
  <2>1. Chain(m, o, m.env, "frame", NIL, n) /\ Ref(o, m.cont)
    BY DEF Sound
  <2>2. m.env # p /\ m.cont # p
    BY <1>2, <2>1, NilAssumption DEF Chain, ListRef, IsObject, In, Ref
  <2> QED  BY <1>7, <1>8, <2>1, <2>2, ChainKept, RefKept
<1>12. s.free_cells # NIL => q.role[s.free_cells] = "free"
  BY <1>3, <1>4, <1>7, <1>8 DEF In, SameLabel
<1>13. Sound(s, q, n, a)
  BY <1>1, <1>6, <1>7, <1>9, <1>10, <1>11, <1>12 DEF Sound
<1>14. Stays(m, o, s, q, NIL)
  BY <1>7, <1>8 DEF Stays
<1> QED  BY <1>2, <1>7, <1>8, <1>13, <1>14 DEF q

\* mm_new_ram_cell() and a constructor: the new cell has no purpose yet.
Fresh(m, o, s, q, p) ==
  /\ HeldKept(m, o, s, q) /\ Stays(m, o, s, q, NIL)
  /\ p # NIL => p \in Cell /\ q.role[p] = "none" /\ ~Held(m, o, p)

\* An allocation gives a fresh cell with these fields, unless the heap is exhausted.
LEMMA CellAllocated ==
  ASSUME NEW m, NEW o, NEW n, NEW a, Sound(m, o, n, a),
         NEW type \in {CONS_TYPE, CLOSURE_TYPE, CONTINUATION_TYPE, STRING_TYPE},
         NEW car \in Value, NEW cdr \in Word, NEW s, s = Allocate(m, type, car, cdr),
         NEW p, p = Allocated(m)
  PROVE  /\ SameRegisters(m, s) /\ (m.exhausted => s.exhausted)
         /\ m.free_cells # NIL \/ ~s.exhausted => p # NIL
         /\ p # NIL => /\ s.exhausted = m.exhausted /\ p \in Cell
                       /\ s.type[p] = type /\ s.car[p] = car /\ s.cdr[p] = cdr
         /\ \E q : Sound(s, q, n, a) /\ Fresh(m, o, s, q, p)
<1>1. PICK o1 : /\ Sound(Available(m), o1, n, a) /\ HeldKept(m, o, Available(m), o1)
                /\ Stays(m, o, Available(m), o1, NIL)
  BY AvailableSound
<1>2. /\ SameRegisters(m, Available(m)) /\ Available(m).exhausted = m.exhausted
      /\ m.free_cells # NIL => Available(m).free_cells # NIL
  BY AvailableSound
<1> DEFINE b == Available(m)
<1>3. b \in Machines /\ p = b.free_cells
  BY <1>1 DEF Sound, Allocated
<1>4. CASE p = NIL
  <2>1. s = [b EXCEPT !.exhausted = TRUE]
    BY <1>3, <1>4 DEF Allocate
  <2> HIDE DEF b
  <2>2. /\ s \in Machines /\ s.exhausted /\ SameRegisters(b, s)
        /\ s.type = b.type /\ s.car = b.car /\ s.cdr = b.cdr /\ s.spent = b.spent
        /\ s.free_cells = b.free_cells
    BY <1>3, <2>1 DEF Machines, SameRegisters
  <2>3. Sound(s, o1, n, a)
    <3>1. Sound(b, o1, n, a)
      BY <1>1 DEF b
    <3>2. \A c \in Cell : CellSound(s, o1, n, a, c)
      BY <2>2, <3>1
      DEF Sound, CellSound, GlobalSound, ObjectSound, SlotSound, SavedSound, FreeSound, Chain, ListRef
    <3>3. Chain(s, o1, s.env, "frame", NIL, n)
      BY <2>2, <3>1 DEF Sound, Chain, ListRef, SameRegisters
    <3> QED  BY <2>2, <3>1, <3>2, <3>3 DEF Sound, SameRegisters
  <2>4. HeldKept(m, o, s, o1)
    BY <1>1, <2>2 DEF HeldKept, b
  <2>5. Stays(m, o, s, o1, NIL)
    BY <1>1, <2>2 DEF Stays, b
  <2> QED  BY <1>2, <1>3, <1>4, <2>2, <2>3, <2>4, <2>5 DEF SameRegisters, Fresh, b
<1>5. CASE p # NIL
  <2>1. s = Taken(b, p, type, car, cdr)
    BY <1>3, <1>5 DEF Allocate, Taken
  <2> DEFINE q == Label(o1, p, "none", NIL, 0)
  <2>2. /\ Sound(s, q, n, a)
        /\ p \in Cell /\ o1.role[p] = "free" /\ q.role[p] = "none"
        /\ s.type[p] = type /\ s.car[p] = car /\ s.cdr[p] = cdr
        /\ \A c \in Cell : c # p => /\ SameLabel(o1, q, c)
                                    /\ s.type[c] = b.type[c] /\ s.car[c] = b.car[c]
                                    /\ s.cdr[c] = b.cdr[c]
        /\ Stays(b, o1, s, q, NIL)
    <3> HIDE DEF b
    <3>1. Sound(b, o1, n, a)
      BY <1>1 DEF b
    <3> QED  BY <1>3, <1>5, <2>1, <3>1, HeadTaken
  <2> HIDE DEF q, b
  <2>3. SameRegisters(b, s) /\ s.exhausted = b.exhausted
    BY <1>3, <2>1 DEF Machines, SameRegisters, Taken
  <2>4. ASSUME NEW c \in Cell, Held(m, o, c)
        PROVE  /\ c # p /\ SameLabel(o, q, c)
               /\ s.type[c] = m.type[c] /\ s.car[c] = m.car[c] /\ s.cdr[c] = m.cdr[c]
    <3>1. /\ SameLabel(o, o1, c)
          /\ b.type[c] = m.type[c] /\ b.car[c] = m.car[c] /\ b.cdr[c] = m.cdr[c]
      BY <1>1, <2>4 DEF HeldKept, b
    <3>2. c # p
      BY <2>2, <2>4, <3>1 DEF SameLabel, Held
    <3> QED  BY <2>2, <3>1, <3>2 DEF SameLabel
  <2>5. HeldKept(m, o, s, q) /\ ~Held(m, o, p)
    BY <2>2, <2>4 DEF HeldKept
  <2>6. Stays(m, o, s, q, NIL)
    BY <1>1, <2>2, StaysTransitive DEF b
  <2> QED  BY <1>2, <1>3, <1>5, <2>2, <2>3, <2>5, <2>6 DEF SameRegisters, Fresh, b
<1> QED  BY <1>4, <1>5

\* The constructors are allocations of their types.
LEMMA PairAllocated ==
  ASSUME NEW m, NEW o, NEW n, NEW a, Sound(m, o, n, a),
         NEW x \in Value, NEW y \in Word, NEW s, s = new_pair(m, x, y), NEW p, p = Allocated(m)
  PROVE  /\ SameRegisters(m, s) /\ (m.exhausted => s.exhausted)
         /\ m.free_cells # NIL \/ ~s.exhausted => p # NIL
         /\ p # NIL => /\ s.exhausted = m.exhausted /\ p \in Cell
                       /\ s.type[p] = CONS_TYPE /\ s.car[p] = x /\ s.cdr[p] = y
         /\ \E q : Sound(s, q, n, a) /\ Fresh(m, o, s, q, p)
<1> DEFINE t == CONS_TYPE
<1>1. t \in {CONS_TYPE, CLOSURE_TYPE, CONTINUATION_TYPE, STRING_TYPE} /\ y \in Word
  BY DEF Word
<1>2. s = Allocate(m, t, x, y)
  BY DEF new_pair
<1> HIDE DEF t
<1>3. /\ SameRegisters(m, s) /\ (m.exhausted => s.exhausted)
      /\ m.free_cells # NIL \/ ~s.exhausted => p # NIL
      /\ p # NIL => /\ s.exhausted = m.exhausted /\ p \in Cell
                    /\ s.type[p] = t /\ s.car[p] = x /\ s.cdr[p] = y
      /\ \E q : Sound(s, q, n, a) /\ Fresh(m, o, s, q, p)
  BY <1>1, <1>2, CellAllocated
<1> QED  BY <1>3 DEF t

\* The same for new_closure().
LEMMA ClosureAllocated ==
  ASSUME NEW m, NEW o, NEW n, NEW a, Sound(m, o, n, a),
         NEW x \in Value, NEW y \in Word, NEW s, s = new_closure(m, x, y), NEW p, p = Allocated(m)
  PROVE  /\ SameRegisters(m, s) /\ (m.exhausted => s.exhausted)
         /\ m.free_cells # NIL \/ ~s.exhausted => p # NIL
         /\ p # NIL => /\ s.exhausted = m.exhausted /\ p \in Cell
                       /\ s.type[p] = CLOSURE_TYPE /\ s.car[p] = x /\ s.cdr[p] = y
         /\ \E q : Sound(s, q, n, a) /\ Fresh(m, o, s, q, p)
<1> DEFINE t == CLOSURE_TYPE
<1>1. t \in {CONS_TYPE, CLOSURE_TYPE, CONTINUATION_TYPE, STRING_TYPE} /\ y \in Word
  BY DEF Word
<1>2. s = Allocate(m, t, x, y)
  BY DEF new_closure
<1> HIDE DEF t
<1>3. /\ SameRegisters(m, s) /\ (m.exhausted => s.exhausted)
      /\ m.free_cells # NIL \/ ~s.exhausted => p # NIL
      /\ p # NIL => /\ s.exhausted = m.exhausted /\ p \in Cell
                    /\ s.type[p] = t /\ s.car[p] = x /\ s.cdr[p] = y
      /\ \E q : Sound(s, q, n, a) /\ Fresh(m, o, s, q, p)
  BY <1>1, <1>2, CellAllocated
<1> QED  BY <1>3 DEF t

\* The same for new_cont().
LEMMA ContAllocated ==
  ASSUME NEW m, NEW o, NEW n, NEW a, Sound(m, o, n, a),
         NEW x \in Value, NEW y \in Word, NEW s, s = new_cont(m, x, y), NEW p, p = Allocated(m)
  PROVE  /\ SameRegisters(m, s) /\ (m.exhausted => s.exhausted)
         /\ m.free_cells # NIL \/ ~s.exhausted => p # NIL
         /\ p # NIL => /\ s.exhausted = m.exhausted /\ p \in Cell
                       /\ s.type[p] = CONTINUATION_TYPE /\ s.car[p] = x /\ s.cdr[p] = y
         /\ \E q : Sound(s, q, n, a) /\ Fresh(m, o, s, q, p)
<1> DEFINE t == CONTINUATION_TYPE
<1>1. t \in {CONS_TYPE, CLOSURE_TYPE, CONTINUATION_TYPE, STRING_TYPE} /\ y \in Word
  BY DEF Word
<1>2. s = Allocate(m, t, x, y)
  BY DEF new_cont
<1> HIDE DEF t
<1>3. /\ SameRegisters(m, s) /\ (m.exhausted => s.exhausted)
      /\ m.free_cells # NIL \/ ~s.exhausted => p # NIL
      /\ p # NIL => /\ s.exhausted = m.exhausted /\ p \in Cell
                    /\ s.type[p] = t /\ s.car[p] = x /\ s.cdr[p] = y
      /\ \E q : Sound(s, q, n, a) /\ Fresh(m, o, s, q, p)
  BY <1>1, <1>2, CellAllocated
<1> QED  BY <1>3 DEF t

\* The same for new_string().
LEMMA StringAllocated ==
  ASSUME NEW m, NEW o, NEW n, NEW a, Sound(m, o, n, a),
         NEW x \in Value, NEW s, s = new_string(m, x), NEW p, p = Allocated(m)
  PROVE  /\ SameRegisters(m, s) /\ (m.exhausted => s.exhausted)
         /\ m.free_cells # NIL \/ ~s.exhausted => p # NIL
         /\ p # NIL => /\ s.exhausted = m.exhausted /\ p \in Cell
                       /\ s.type[p] = STRING_TYPE /\ s.car[p] = x /\ s.cdr[p] = 0
         /\ \E q : Sound(s, q, n, a) /\ Fresh(m, o, s, q, p)
<1> DEFINE t == STRING_TYPE
           y == 0
<1>1. t \in {CONS_TYPE, CLOSURE_TYPE, CONTINUATION_TYPE, STRING_TYPE} /\ y \in Word
  BY DEF Word
<1>2. s = Allocate(m, t, x, y)
  BY DEF new_string
<1> HIDE DEF t, y
<1>3. /\ SameRegisters(m, s) /\ (m.exhausted => s.exhausted)
      /\ m.free_cells # NIL \/ ~s.exhausted => p # NIL
      /\ p # NIL => /\ s.exhausted = m.exhausted /\ p \in Cell
                    /\ s.type[p] = t /\ s.car[p] = x /\ s.cdr[p] = y
      /\ \E q : Sound(s, q, n, a) /\ Fresh(m, o, s, q, p)
  BY <1>1, <1>2, CellAllocated
<1> QED  BY <1>3 DEF t, y

-----------------------------------------------------------------------------
(* Registers, pushes and pops. *)

\* What a pop leaves alone.
Kept(m, o, s, q) ==
  \A c \in Cell : o.role[c] \in {"global", "object", "saved", "none"} =>
    /\ SameLabel(o, q, c)
    /\ s.type[c] = m.type[c] /\ s.car[c] = m.car[c] /\ s.cdr[c] = m.cdr[c]

\* References to what is kept are still references.
LEMMA KeptRef ==
  ASSUME NEW m, NEW o, NEW s, NEW q, NEW v, Kept(m, o, s, q)
  PROVE  /\ Ref(o, v) => Ref(q, v)
         /\ ListRef(m, o, v) => ListRef(s, q, v)
         /\ IsObject(o, v) => /\ IsObject(q, v) /\ s.type[v] = m.type[v]
                              /\ s.car[v] = m.car[v] /\ s.cdr[v] = m.cdr[v]
BY DEF Kept, Ref, ListRef, IsObject, SameLabel

\* A live reference survives an allocation.
LEMMA HeldRef ==
  ASSUME NEW m, NEW o, NEW s, NEW q, NEW v, HeldKept(m, o, s, q), v \in Cell => v \in Live(m)
  PROVE  /\ Ref(o, v) => Ref(q, v)
         /\ ListRef(m, o, v) => ListRef(s, q, v)
         /\ IsObject(o, v) => /\ IsObject(q, v) /\ s.type[v] = m.type[v]
                              /\ s.car[v] = m.car[v] /\ s.cdr[v] = m.cdr[v]
<1>1. IsObject(o, v) => Held(m, o, v) /\ v \in Cell
  BY DEF IsObject, Held
<1> QED  BY <1>1 DEF HeldKept, Ref, ListRef, IsObject, SameLabel

\* A live chain of the running procedure survives an allocation.
LEMMA HeldChain ==
  ASSUME NEW m, NEW o, NEW s, NEW q, NEW v, NEW role, NEW n, HeldKept(m, o, s, q),
         v \in Cell => v \in Live(m), role \in {"frame", "args"}, Chain(m, o, v, role, NIL, n)
  PROVE  Chain(s, q, v, role, NIL, n)
<1>1. v \in Cell => Held(m, o, v)
  BY NilAssumption DEF Held, Chain, ListRef, IsObject, In
<1> QED  BY <1>1, ChainKept DEF HeldKept

\* What a register holds is live.
LEMMA RegistersLive ==
  ASSUME NEW m, NEW v \in Registers(m)
  PROVE  v \in Cell => v \in Live(m)
BY LiveIs

\* The registers that no label speaks of may change.
LEMMA RegistersSet ==
  ASSUME NEW m, NEW o, NEW n, NEW a, Sound(m, o, n, a), NEW s \in Machines,
         s.type = m.type, s.car = m.car, s.cdr = m.cdr, s.free_cells = m.free_cells,
         s.env = m.env, s.spent = m.spent, Ref(o, s.cont)
  PROVE  Sound(s, o, n, a)
<1>1. \A c \in Cell : CellSound(s, o, n, a, c)
  BY DEF Sound, CellSound, GlobalSound, ObjectSound, SlotSound, SavedSound, FreeSound, Chain, ListRef
<1>2. Chain(s, o, s.env, "frame", NIL, n)
  BY DEF Sound, Chain, ListRef
<1> QED  BY <1>1, <1>2 DEF Sound

\* Two fields of a pair of the program, or two globals, are set.
LEMMA FieldsSet ==
  ASSUME NEW m, NEW o, NEW n, NEW a, Sound(m, o, n, a), NEW s \in Machines,
         NEW p \in Cell, o.role[p] \in {"global", "object"}, m.type[p] = CONS_TYPE,
         s.type = m.type, s.free_cells = m.free_cells, s.env = m.env, s.spent = m.spent,
         s.cont = m.cont, Ref(o, s.car[p]), Ref(o, s.cdr[p]),
         \A c \in Cell : c # p => s.car[c] = m.car[c] /\ s.cdr[c] = m.cdr[c]
  PROVE  Sound(s, o, n, a)
<1>1. m \in Machines /\ o \in Labels /\ n \in Nat /\ a \in Nat /\ CellSound(m, o, n, a, p)
  BY DEF Sound
<1>2. CellSound(s, o, n, a, p)
  BY <1>1 DEF CellSound, GlobalSound, ObjectSound, SlotSound, SavedSound, FreeSound,
    CONS_TYPE, CLOSURE_TYPE, CONTINUATION_TYPE, STRING_TYPE
<1>3. Chain(s, o, s.env, "frame", NIL, n) /\ Ref(o, s.cont)
  BY DEF Sound, Chain, ListRef
<1>4. \A c \in Cell : o.role[c] = "free" => s.free_cells # NIL /\ o.at[c] <= o.at[s.free_cells]
  BY DEF Sound, CellSound, FreeSound
<1>5. s.free_cells # NIL => o.role[s.free_cells] = "free"
  BY DEF Sound
<1>6. \A c \in Cell : SameLabel(o, o, c)
  BY DEF SameLabel
<1> QED  BY <1>1, <1>2, <1>3, <1>4, <1>5, <1>6, OneCell

\* pop()
LEMMA Popped ==
  ASSUME NEW m, NEW o, NEW n, NEW a, Sound(m, o, n, a), n # 0, NEW s, s = pop(m)
  PROVE  /\ Ref(o, TopOf(m)) /\ m.env \in Cell /\ s.free_cells = m.env
         /\ s.cont = m.cont /\ s.exhausted = m.exhausted /\ s.spent = m.spent
         /\ s.reg1 = m.reg1 /\ s.reg2 = m.reg2 /\ s.reg3 = m.reg3 /\ s.reg4 = m.reg4
         /\ \E q : Sound(s, q, n - 1, a) /\ Kept(m, o, s, q) /\ Stays(m, o, s, q, NIL)
<1> DEFINE p == m.env
           b == [m EXCEPT !.env = m.cdr[p]]
           q1 == Label(o, p, "none", NIL, 0)
<1>1. /\ p \in Cell /\ o.role[p] = "frame" /\ m.type[p] = CONS_TYPE /\ Ref(o, m.car[p])
      /\ p \notin m.spent /\ Sound(b, q1, n - 1, a) /\ Stays(m, o, b, q1, NIL)
  BY TopTaken
<1>2. m \in Machines /\ o \in Labels /\ NIL \in Value /\ "none" \in Role /\ 0 \in Nat
  BY DEF Sound, Role, Value
<1>3. q1.role[p] = "none" /\ \A c \in Cell : c # p => SameLabel(o, q1, c)
  BY <1>1, <1>2, Labelled
<1>4. s = return_to_free_list(b, p)
  BY DEF pop
<1> HIDE DEF q1
<1>5. PICK q : /\ Sound(return_to_free_list(b, p), q, n - 1, a)
               /\ \A c \in Cell : c # p => SameLabel(q1, q, c)
               /\ Stays(b, q1, return_to_free_list(b, p), q, NIL)
  BY <1>1, <1>3, Freed
<1>6. /\ s.free_cells = p /\ s.cont = m.cont /\ s.exhausted = m.exhausted /\ s.spent = m.spent
      /\ s.reg1 = m.reg1 /\ s.reg2 = m.reg2 /\ s.reg3 = m.reg3 /\ s.reg4 = m.reg4
      /\ \A c \in Cell : c # p => s.type[c] = m.type[c] /\ s.car[c] = m.car[c] /\ s.cdr[c] = m.cdr[c]
  BY <1>2, <1>4 DEF return_to_free_list, Machines
<1>7. Kept(m, o, s, q)
  BY <1>1, <1>3, <1>5, <1>6 DEF Kept, SameLabel
<1>8. Stays(m, o, s, q, NIL)
  <2> HIDE DEF b, p
  <2> QED  BY <1>1, <1>4, <1>5, StaysTransitive
<1> QED  BY <1>1, <1>4, <1>5, <1>6, <1>7, <1>8 DEF TopOf

\* A new cell becomes the first slot of the running procedure.
LEMMA SlotMade ==
  ASSUME NEW m, NEW o, NEW n, NEW a, Sound(m, o, n, a), NEW p \in Cell, o.role[p] = "none",
         NEW s \in Machines, s.type = m.type, s.type[p] = CONS_TYPE, s.spent = m.spent,
         s.free_cells = m.free_cells, s.cont = m.cont, s.env = p,
         Ref(o, s.car[p]), s.cdr[p] = m.env,
         \A c \in Cell : c # p => s.car[c] = m.car[c] /\ s.cdr[c] = m.cdr[c]
  PROVE  \E q : /\ Sound(s, q, n + 1, a) /\ In(q, p, "frame", NIL, n + 1)
                /\ \A c \in Cell : c # p => SameLabel(o, q, c)
<1> DEFINE q == Label(o, p, "frame", NIL, n + 1)
<1>1. m \in Machines /\ o \in Labels /\ n \in Nat /\ a \in Nat /\ CellSound(m, o, n, a, p)
  BY DEF Sound
<1>2. /\ q \in Labels /\ q.role[p] = "frame" /\ q.of[p] = NIL /\ q.at[p] = n + 1
      /\ \A c \in Cell : c # p => SameLabel(o, q, c)
  <2>1. "frame" \in Role /\ NIL \in Value /\ n + 1 \in Nat
    BY <1>1 DEF Role, Value
  <2> QED  BY <1>1, <2>1, Labelled
<1> HIDE DEF q
<1>3. \A v : Ref(o, v) => Ref(q, v)
  BY <1>2 DEF Ref, IsObject, SameLabel
<1>4. p \notin ReservedCell /\ p \notin m.spent
  BY <1>1 DEF CellSound, GlobalSound, FreeSound
<1>5. Chain(s, q, m.env, "frame", NIL, n)
  <2>1. Chain(m, o, m.env, "frame", NIL, n)
    BY DEF Sound
  <2>2. m.env # p
    BY <2>1, NilAssumption DEF Chain, ListRef, IsObject, In
  <2> QED  BY <1>2, <2>1, <2>2, ChainKept
<1>6. CellSound(s, q, n + 1, a, p)
  BY <1>1, <1>2, <1>3, <1>4, <1>5
  DEF CellSound, GlobalSound, ObjectSound, SlotSound, SavedSound, FreeSound
<1>7. Chain(s, q, s.env, "frame", NIL, n + 1) /\ Ref(q, s.cont)
  BY <1>1, <1>2, <1>3 DEF Chain, In, Sound
<1>8. \A c \in Cell : ~(q.role[p] = o.role[c] /\ q.of[p] = o.of[c] /\ q.at[p] = o.at[c])
  BY <1>1, <1>2 DEF Sound, CellSound, SlotSound
<1>9. /\ \A c \in Cell : c # p /\ o.role[c] = "free"
                         => s.free_cells # NIL /\ o.at[c] <= q.at[s.free_cells]
      /\ s.free_cells # NIL => q.role[s.free_cells] = "free"
  <2>1. /\ \A c \in Cell : o.role[c] = "free" => m.free_cells # NIL /\ o.at[c] <= o.at[m.free_cells]
        /\ m.free_cells # NIL => m.free_cells \in Cell /\ o.role[m.free_cells] = "free"
    BY <1>1 DEF Sound, CellSound, FreeSound, Machines, Value
  <2> QED  BY <1>2, <2>1 DEF SameLabel
<1>10. n + 1 \in Nat /\ n <= n + 1 /\ a <= a
  BY <1>1
<1>11. Sound(s, q, n + 1, a)
  <2>1. \A c \in Cell : c # p => /\ SameLabel(o, q, c) /\ s.type[c] = m.type[c]
                                 /\ s.car[c] = m.car[c] /\ s.cdr[c] = m.cdr[c]
                                 /\ (c \in s.spent <=> c \in m.spent)
    BY <1>2
  <2> QED  BY <1>1, <1>2, <1>6, <1>7, <1>8, <1>9, <1>10, <2>1, OneCell
<1> QED  BY <1>2, <1>11 DEF In

\* The push of the dispatcher.
LEMMA Pushed ==
  ASSUME NEW m, NEW o, NEW n, NEW a, Sound(m, o, n, a), NEW v, Ref(o, v),
         v \in Cell => v \in Live(m), NEW s, s = Push(m, v)
  PROVE  /\ s \in Machines /\ s.cont = m.cont
         /\ s.reg1 = m.reg1 /\ s.reg2 = m.reg2 /\ s.reg3 = m.reg3 /\ s.reg4 = m.reg4
         /\ m.exhausted => s.exhausted
         /\ m.free_cells # NIL => s.exhausted = m.exhausted
         /\ m.free_cells # NIL \/ ~s.exhausted =>
              /\ s.env \in Cell /\ s.car[s.env] = v /\ s.cdr[s.env] = m.env
              /\ \E q : /\ Sound(s, q, n + 1, a) /\ HeldKept(m, o, s, q)
                        /\ In(q, s.env, "frame", NIL, n + 1) /\ Stays(m, o, s, q, s.env)
<1> DEFINE b == new_pair(m, v, m.env)
           p == Allocated(m)
<1>0. m \in Machines /\ n \in Nat /\ a \in Nat /\ Chain(m, o, m.env, "frame", NIL, n)
  BY DEF Sound
<1>1. v \in Value /\ m.env \in Word /\ b = new_pair(m, v, m.env) /\ p = Allocated(m)
  BY <1>0 DEF Ref, IsObject, Value, Machines, Word
<1> HIDE DEF b, p
<1>2. /\ SameRegisters(m, b) /\ (m.exhausted => b.exhausted)
      /\ m.free_cells # NIL \/ ~b.exhausted => p # NIL
      /\ p # NIL => /\ b.exhausted = m.exhausted /\ p \in Cell
                    /\ b.type[p] = CONS_TYPE /\ b.car[p] = v /\ b.cdr[p] = m.env
  BY <1>1, PairAllocated
<1>3. PICK q1 : /\ Sound(b, q1, n, a) /\ HeldKept(m, o, b, q1) /\ Stays(m, o, b, q1, NIL)
                /\ p # NIL => /\ p \in Cell /\ q1.role[p] = "none" /\ ~Held(m, o, p)
                              /\ b.type[p] = CONS_TYPE /\ b.car[p] = v /\ b.cdr[p] = m.env
  <2>1. PICK q1 : Sound(b, q1, n, a) /\ Fresh(m, o, b, q1, p)
    BY <1>1, PairAllocated
  <2> QED  BY <1>2, <2>1 DEF Fresh
<1>4. b \in Machines /\ q1 \in Labels /\ s = [b EXCEPT !.env = p]
  BY <1>3 DEF Sound, Push, b, p
<1>5. /\ s.type = b.type /\ s.car = b.car /\ s.cdr = b.cdr /\ s.spent = b.spent
      /\ s.free_cells = b.free_cells /\ s.env = p /\ s.cont = m.cont /\ s.exhausted = b.exhausted
      /\ s.reg1 = m.reg1 /\ s.reg2 = m.reg2 /\ s.reg3 = m.reg3 /\ s.reg4 = m.reg4
  BY <1>2, <1>4 DEF Machines, SameRegisters
<1>6. s \in Machines
  <2>1. p \in Value
    BY <1>2 DEF Value
  <2> QED  BY <1>4, <2>1 DEF Machines
<1>7. ASSUME p # NIL
      PROVE  \E q : /\ Sound(s, q, n + 1, a) /\ HeldKept(m, o, s, q)
                    /\ In(q, p, "frame", NIL, n + 1) /\ Stays(m, o, s, q, p)
  <2>1. s \in Machines
    BY <1>6
  <2>2. /\ Ref(q1, s.car[p]) /\ s.cdr[p] = b.env /\ s.type[p] = CONS_TYPE /\ s.cont = b.cont
    BY <1>2, <1>3, <1>5, <1>7, HeldRef DEF SameRegisters
  <2>3. PICK q : /\ Sound(s, q, n + 1, a) /\ In(q, p, "frame", NIL, n + 1)
                 /\ \A c \in Cell : c # p => SameLabel(q1, q, c)
    BY <1>3, <1>5, <1>7, <2>1, <2>2, SlotMade
  <2>4. HeldKept(m, o, s, q)
    BY <1>3, <1>5, <1>7, <2>3 DEF HeldKept, SameLabel
  <2>5. Stays(b, q1, s, q, p)
    BY <1>5, <2>3 DEF Stays
  <2>6. Stays(m, o, s, q, p)
    BY <1>3, <2>5, StaysTransitive
  <2> QED  BY <2>3, <2>4, <2>6
<1>8. p # NIL => s.env \in Cell /\ s.car[s.env] = v /\ s.cdr[s.env] = m.env
  BY <1>3, <1>5
<1> QED  BY <1>2, <1>5, <1>7, <1>8, <1>6

-----------------------------------------------------------------------------
(***************************************************************************)
(* What the program sees.  A view says for every label what a cell with    *)
(* this label holds: an object or two globals for a cell; the slots of a   *)
(* frame, counted from its end, and the closed variables that follow them; *)
(* the addresses to return to; the arguments of a call in preparation.     *)
(***************************************************************************)
Kinds == {CONS_TYPE, CLOSURE_TYPE, CONTINUATION_TYPE, STRING_TYPE, "spent"}
Views ==
  [kind : [Cell -> Kinds], car : [Cell -> Value], cdr : [Cell -> Word],
   slot : [Value -> [Nat -> Value]], bottom : [Value -> Value], saved : [Value -> Word],
   arg : [Nat -> Value], rest : Value]
KindOf(m, c) == IF m.type[c] = CONTINUATION_TYPE /\ c \in m.spent THEN "spent" ELSE m.type[c]

CellShows(m, o, g, c) ==
  /\ o.role[c] \in {"global", "object"} => m.car[c] = g.car[c]
  /\ o.role[c] = "global" => m.cdr[c] = g.cdr[c]
  /\ o.role[c] = "object" => /\ g.kind[c] = KindOf(m, c)
                             /\ m.type[c] # CONTINUATION_TYPE => m.cdr[c] = g.cdr[c]
  /\ o.role[c] = "frame" => /\ m.car[c] = g.slot[o.of[c]][o.at[c]]
                            /\ o.at[c] = 1 /\ (o.of[c] = NIL \/ g.saved[o.of[c]].slots # 0)
                                 => m.cdr[c] = g.bottom[o.of[c]]
  /\ o.role[c] = "args" => /\ m.car[c] = g.arg[o.at[c]]
                           /\ o.at[c] = 1 => m.cdr[c] = g.rest
  /\ o.role[c] = "saved" => /\ m.cdr[c] = g.saved[o.of[c]]
                            /\ m.cdr[c].slots = 0 => m.car[c] = g.bottom[o.of[c]]

\* With n slots in the running frame.
Shows(m, o, n, g) ==
  /\ g \in Views
  /\ \A c \in Cell : CellShows(m, o, g, c)
  /\ n = 0 => m.env = g.bottom[NIL]

\* When all cells but p stay, and the view changes at most what it says of p, it still holds.
LEMMA ShowsBut ==
  ASSUME NEW m, NEW o, NEW n, NEW g, Shows(m, o, n, g), NEW s, NEW q, NEW p, Stays(m, o, s, q, p),
         NEW h \in Views, NEW n2, n2 = 0 => s.env = h.bottom[NIL],
         p \in Cell => CellShows(s, q, h, p),
         \A c \in Cell : c # p /\ q.role[c] \notin {"free", "none"} => CellShows(m, o, h, c)
  PROVE  Shows(s, q, n2, h)
<1>1. ASSUME NEW c \in Cell PROVE CellShows(s, q, h, c)
  <2>1. CASE c = p
    BY <2>1
  <2>2. CASE c # p /\ q.role[c] \in {"free", "none"}
    BY <2>2 DEF CellShows
  <2>3. CASE c # p /\ q.role[c] \notin {"free", "none"}
    BY <2>3 DEF CellShows, Stays, SameLabel, KindOf
  <2> QED  BY <2>1, <2>2, <2>3
<1> QED  BY <1>1 DEF Shows

\* When all cells stay, so does the view.
LEMMA ShowsKept ==
  ASSUME NEW m, NEW o, NEW n, NEW g, Shows(m, o, n, g), NEW s, NEW q, Stays(m, o, s, q, NIL),
         NEW n2, n2 = 0 => s.env = g.bottom[NIL]
  PROVE  Shows(s, q, n2, g)
<1>1. NIL \notin Cell
  BY NilAssumption
<1>2. g \in Views /\ \A c \in Cell : CellShows(m, o, g, c)
  BY DEF Shows
<1> QED  BY <1>1, <1>2, ShowsBut

\* Every sound state shows something.
LEMMA SomethingShown ==
  ASSUME NEW m, NEW o, NEW n, NEW a, Sound(m, o, n, a)
  PROVE  \E g : Shows(m, o, n, g)
<1> DEFINE Is(c, role, k, i) == o.role[c] = role /\ o.of[c] = k /\ o.at[c] = i
           Of(role, k, i) == CHOOSE c \in Cell : Is(c, role, k, i)
           OrNil(v) == IF v \in Value THEN v ELSE NIL
           place(k) == Of("saved", k, 0)
           last(k) == Of("frame", k, 1)
           end(k) == IF (\E c \in Cell : Is(c, "saved", k, 0)) /\ m.cdr[place(k)].slots = 0
                     THEN m.car[place(k)]
                     ELSE IF \E c \in Cell : Is(c, "frame", k, 1) THEN m.cdr[last(k)] ELSE m.env
           g == [kind |-> [c \in Cell |-> KindOf(m, c)],
                 car |-> m.car,
                 cdr |-> m.cdr,
                 saved |-> [k \in Value |-> IF \E c \in Cell : Is(c, "saved", k, 0) THEN m.cdr[place(k)]
                                            ELSE NIL],
                 slot |-> [k \in Value |-> [i \in Nat |-> OrNil(m.car[Of("frame", k, i)])]],
                 bottom |-> [k \in Value |-> OrNil(end(k))],
                 arg |-> [i \in Nat |-> OrNil(m.car[Of("args", NIL, i)])],
                 rest |-> OrNil(m.cdr[Of("args", NIL, 1)])]
<1>1. m \in Machines /\ o \in Labels /\ NIL \in Value /\ Apart(o)
  BY DEF Sound, Value
<1>2. ASSUME NEW c \in Cell, NEW role \in {"frame", "args", "saved"}, o.role[c] = role
      PROVE  Of(role, o.of[c], o.at[c]) = c /\ Is(c, role, o.of[c], o.at[c])
  <2>1. Is(c, role, o.of[c], o.at[c])
    BY <1>2
  <2>2. \A d \in Cell : Is(d, role, o.of[c], o.at[c]) => d = c
    BY <1>1, <1>2 DEF Apart
  <2> HIDE DEF Is
  <2> QED  BY <2>1, <2>2
<1>3. ASSUME NEW c \in Cell, NEW k, Is(c, "saved", k, 0)
      PROVE  place(k) = c
  BY <1>2, <1>3
<1>4. ASSUME NEW c \in Cell
      PROVE  /\ m.car[c] \in Value /\ m.cdr[c] \in Word /\ o.of[c] \in Value /\ o.at[c] \in Nat
             /\ CellSound(m, o, n, a, c)
  BY <1>1 DEF Machines, Labels, Sound
<1>5. g \in Views
  <2>1. [c \in Cell |-> KindOf(m, c)] \in [Cell -> Kinds]
    BY <1>1 DEF Machines, Kinds, KindOf
  <2>2. ASSUME NEW k \in Value
        PROVE  (IF \E c \in Cell : Is(c, "saved", k, 0) THEN m.cdr[place(k)] ELSE NIL) \in Word
    <3> HIDE DEF Is, place
    <3> QED  BY <1>1, <1>3, <1>4 DEF Word
  <2>3. \A v : OrNil(v) \in Value
    BY <1>1
  <2>4. m.car \in [Cell -> Value] /\ m.cdr \in [Cell -> Word]
    BY <1>1 DEF Machines
  <2> HIDE DEF OrNil, place, Is, end, Of
  <2> QED  BY <2>1, <2>2, <2>3, <2>4 DEF Views
<1>6. \A v \in Value : OrNil(v) = v
  OBVIOUS
<1>7. /\ \A c \in Cell : g.kind[c] = KindOf(m, c) /\ g.car[c] = m.car[c] /\ g.cdr[c] = m.cdr[c]
      /\ \A k \in Value, d \in Cell : Is(d, "saved", k, 0) => g.saved[k] = m.cdr[d]
      /\ \A k \in Value, i \in Nat : g.slot[k][i] = OrNil(m.car[Of("frame", k, i)])
      /\ \A k \in Value : g.bottom[k] = OrNil(end(k))
      /\ \A i \in Nat : g.arg[i] = OrNil(m.car[Of("args", NIL, i)])
      /\ g.rest = OrNil(m.cdr[Of("args", NIL, 1)])
  <2> HIDE DEF OrNil, Is, end, Of
  <2> QED  BY <1>3
<1> HIDE DEF g, OrNil, Is, end, Of
<1>8. ASSUME NEW c \in Cell PROVE CellShows(m, o, g, c)
  <2>0. CellSound(m, o, n, a, c) /\ o.of[c] \in Value /\ o.at[c] \in Nat
    BY <1>4
  <2>1. CASE o.role[c] \in {"global", "object"}
    BY <1>7, <2>1 DEF CellShows
  <2>2. CASE o.role[c] = "frame"
    <3> DEFINE k == o.of[c]
    <3>1. Of("frame", k, o.at[c]) = c /\ Is(c, "frame", k, o.at[c])
      BY <1>2, <2>2
    <3>2. m.car[c] = g.slot[k][o.at[c]]
      BY <1>4, <1>6, <1>7, <2>0, <3>1
    <3>3. ASSUME o.at[c] = 1, k = NIL \/ g.saved[k].slots # 0 PROVE m.cdr[c] = g.bottom[k]
      <4>1. Of("frame", k, 1) = c /\ Is(c, "frame", k, 1)
        BY <3>1, <3>3
      <4>2. ~((\E d \in Cell : Is(d, "saved", k, 0)) /\ m.cdr[place(k)].slots = 0)
        <5> SUFFICES ASSUME NEW d \in Cell, Is(d, "saved", k, 0), m.cdr[place(k)].slots = 0 PROVE FALSE
          OBVIOUS
        <5>1. place(k) = d /\ g.saved[k] = m.cdr[d]
          BY <1>3, <1>7, <2>0
        <5>2. k # NIL
          BY <1>4, NilAssumption DEF Is, CellSound, SavedSound, IsObject
        <5> QED  BY <3>3, <5>1, <5>2
      <4>3. end(k) = m.cdr[c]
        <5> HIDE DEF place, k
        <5> QED  BY <4>1, <4>2 DEF end
      <4>4. m.cdr[c] \in Value
        BY <2>0, <2>2, <3>3 DEF CellSound, SlotSound, Chain, ListRef, IsObject, Value
      <4> QED  BY <1>6, <1>7, <2>0, <4>3, <4>4
    <3> QED  BY <2>2, <3>2, <3>3 DEF CellShows
  <2>3. CASE o.role[c] = "args"
    <3>1. o.of[c] = NIL /\ Of("args", NIL, o.at[c]) = c
      BY <1>2, <2>0, <2>3 DEF CellSound, SlotSound
    <3>2. o.at[c] = 1 => m.cdr[c] \in Value
      BY <2>0, <2>3 DEF CellSound, SlotSound, Chain, ListRef, IsObject, Value
    <3>3. m.car[c] \in Value
      BY <1>4
    <3> QED  BY <1>6, <1>7, <2>0, <2>3, <3>1, <3>2, <3>3 DEF CellShows
  <2>4. CASE o.role[c] = "saved"
    <3> DEFINE k == o.of[c]
    <3>1. Is(c, "saved", k, 0) /\ k \in Value
      BY <1>2, <2>0, <2>4 DEF CellSound, SavedSound
    <3>2. place(k) = c /\ g.saved[k] = m.cdr[c]
      BY <1>3, <1>7, <3>1
    <3>3. ASSUME m.cdr[c].slots = 0 PROVE m.car[c] = g.bottom[k]
      <4>1. end(k) = m.car[c]
        <5> HIDE DEF place, k
        <5> QED  BY <3>1, <3>2, <3>3 DEF end
      <4>2. m.car[c] \in Value
        BY <1>4
      <4> QED  BY <1>6, <1>7, <3>1, <4>1, <4>2
    <3> QED  BY <2>4, <3>2, <3>3 DEF CellShows
  <2>5. o.role[c] \in {"global", "object", "frame", "args", "saved"} \/ o.role[c] \in {"free", "none"}
    BY <1>1 DEF Labels, Role
  <2> QED  BY <2>1, <2>2, <2>3, <2>4, <2>5 DEF CellShows
<1>9. ASSUME n = 0 PROVE m.env = g.bottom[NIL]
  <2>1. \A c \in Cell : ~Is(c, "saved", NIL, 0) /\ ~Is(c, "frame", NIL, 1)
    <3> SUFFICES ASSUME NEW c \in Cell, Is(c, "saved", NIL, 0) \/ Is(c, "frame", NIL, 1) PROVE FALSE
      OBVIOUS
    <3>1. CellSound(m, o, n, a, c)
      BY <1>4
    <3> QED  BY <1>9, <3>1, NilAssumption DEF Is, CellSound, SavedSound, SlotSound, IsObject
  <2>2. end(NIL) = m.env
    BY <2>1 DEF end
  <2>3. m.env \in Value
    BY <1>1 DEF Machines
  <2> QED  BY <1>1, <1>6, <1>7, <2>2, <2>3
<1> QED  BY <1>5, <1>8, <1>9 DEF Shows

\* The slot number i of the running procedure, counted from the end, is set.
WithSlot(g, i, v) ==
  [g EXCEPT !.slot = [g.slot EXCEPT ![NIL] = [g.slot[NIL] EXCEPT ![i] = v]]]

\* The other slots, the frames of the suspended procedures and everything else stay.
OnlySlot(g, h, i) ==
  /\ \A j \in Nat : j # i => h.slot[NIL][j] = g.slot[NIL][j]
  /\ \A k \in Value : k # NIL => h.slot[k] = g.slot[k]
  /\ h.kind = g.kind /\ h.car = g.car /\ h.cdr = g.cdr /\ h.bottom = g.bottom
  /\ h.saved = g.saved /\ h.arg = g.arg /\ h.rest = g.rest

\* One slot is seen to change.
LEMMA WithSlotIs ==
  ASSUME NEW g \in Views, NEW i \in Nat, NEW v \in Value, NEW h, h = WithSlot(g, i, v)
  PROVE  h \in Views /\ h.slot[NIL][i] = v /\ OnlySlot(g, h, i)
<1>1. g.slot \in [Value -> [Nat -> Value]] /\ NIL \in Value /\ g.slot[NIL] \in [Nat -> Value]
  BY DEF Views, Value
<1> DEFINE f == [g.slot[NIL] EXCEPT ![i] = v]
           t == [g.slot EXCEPT ![NIL] = f]
<1>2. f \in [Nat -> Value] /\ f[i] = v /\ \A j \in Nat : j # i => f[j] = g.slot[NIL][j]
  BY <1>1
<1>3. h = [g EXCEPT !.slot = t]
  BY DEF WithSlot
<1> HIDE DEF f
<1>4. t \in [Value -> [Nat -> Value]] /\ t[NIL] = f /\ \A k \in Value : k # NIL => t[k] = g.slot[k]
  BY <1>1, <1>2
<1> HIDE DEF t
<1> QED  BY <1>2, <1>3, <1>4 DEF Views, OnlySlot

\* The slot on top, and the list behind the last slot.
LEMMA TopShown ==
  ASSUME NEW m, NEW o, NEW n, NEW a, Sound(m, o, n, a), NEW g, Shows(m, o, n, g), n # 0
  PROVE  /\ m.env \in Cell /\ TopOf(m) = g.slot[NIL][n]
         /\ n = 1 => m.cdr[m.env] = g.bottom[NIL]
<1>1. In(o, m.env, "frame", NIL, n)
  BY DEF Sound, Chain
<1> QED  BY <1>1 DEF In, Shows, CellShows, TopOf

\* A new slot is seen, and nothing else is seen to change.
LEMMA PushShown ==
  ASSUME NEW m, NEW o, NEW n, NEW a, Sound(m, o, n, a), NEW g, Shows(m, o, n, g),
         NEW v \in Value, NEW s, NEW q, NEW p, Stays(m, o, s, q, p),
         In(q, p, "frame", NIL, n + 1), s.car[p] = v, s.cdr[p] = m.env
  PROVE  Shows(s, q, n + 1, WithSlot(g, n + 1, v))
<1> DEFINE h == WithSlot(g, n + 1, v)
<1>0. n \in Nat /\ g \in Views /\ o \in Labels
  BY DEF Sound, Shows
<1>1. h \in Views /\ h.slot[NIL][n + 1] = v /\ OnlySlot(g, h, n + 1)
  <2>1. PICK i : i = n + 1
    OBVIOUS
  <2>2. i \in Nat /\ h = WithSlot(g, i, v)
    BY <1>0, <2>1
  <2> HIDE DEF h
  <2>3. h \in Views /\ h.slot[NIL][i] = v /\ OnlySlot(g, h, i)
    BY <1>0, <2>2, WithSlotIs
  <2> QED  BY <2>1, <2>3
<1> HIDE DEF h
<1>2. CellShows(s, q, h, p)
  <2>1. q.role[p] = "frame" /\ q.of[p] = NIL /\ q.at[p] = n + 1
    BY DEF In
  <2>2. n + 1 = 1 => s.cdr[p] = h.bottom[NIL]
    BY <1>0, <1>1 DEF Shows, OnlySlot
  <2> QED  BY <1>1, <2>1, <2>2 DEF CellShows
<1>3. ASSUME NEW c \in Cell PROVE CellShows(m, o, h, c)
  <2>1. CellShows(m, o, g, c) /\ CellSound(m, o, n, a, c) /\ o.at[c] \in Nat /\ o.of[c] \in Value
    BY <1>0 DEF Shows, Sound, Labels
  <2>2. o.role[c] = "frame" => h.slot[o.of[c]][o.at[c]] = g.slot[o.of[c]][o.at[c]]
    BY <1>0, <1>1, <2>1 DEF CellSound, SlotSound, OnlySlot
  <2> QED  BY <1>1, <2>1, <2>2 DEF CellShows, OnlySlot
<1>4. n + 1 = 0 => s.env = h.bottom[NIL]
  BY <1>0
<1>5. Shows(s, q, n + 1, h)
  BY <1>1, <1>2, <1>3, <1>4, ShowsBut
<1> QED  BY <1>5 DEF h

\* A pop takes the top slot away from what is seen.
LEMMA PopShown ==
  ASSUME NEW m, NEW o, NEW n, NEW a, Sound(m, o, n, a), NEW g, Shows(m, o, n, g), n # 0,
         NEW s, s.env = m.cdr[m.env], NEW q, Stays(m, o, s, q, NIL)
  PROVE  Shows(s, q, n - 1, g)
<1>1. n \in Nat /\ (n - 1 = 0 => s.env = g.bottom[NIL])
  BY TopShown DEF Sound
<1> QED  BY <1>1, ShowsKept

\* The slots of a procedure, counted from the end.
FrameSlots == [Nat -> Value]

\* Procedure k has other slots, and another list behind them.
WithFrame(g, k, slots, end) ==
  [g EXCEPT !.slot = [g.slot EXCEPT ![k] = slots], !.bottom = [g.bottom EXCEPT ![k] = end]]

\* The frames of the other procedures and everything else stay.
OnlyFrame(g, h, k) ==
  /\ \A j \in Value : j # k => h.slot[j] = g.slot[j] /\ h.bottom[j] = g.bottom[j]
  /\ h.kind = g.kind /\ h.car = g.car /\ h.cdr = g.cdr
  /\ h.saved = g.saved /\ h.arg = g.arg /\ h.rest = g.rest

\* One frame is seen to change.
LEMMA WithFrameIs ==
  ASSUME NEW g \in Views, NEW k \in Value, NEW slots \in FrameSlots, NEW end \in Value,
         NEW h, h = WithFrame(g, k, slots, end)
  PROVE  h \in Views /\ h.slot[k] = slots /\ h.bottom[k] = end /\ OnlyFrame(g, h, k)
<1> DEFINE t == [g.slot EXCEPT ![k] = slots]
           b == [g.bottom EXCEPT ![k] = end]
<1>1. g.slot \in [Value -> [Nat -> Value]] /\ g.bottom \in [Value -> Value]
  BY DEF Views
<1>2. /\ t \in [Value -> [Nat -> Value]] /\ t[k] = slots /\ \A j \in Value : j # k => t[j] = g.slot[j]
      /\ b \in [Value -> Value] /\ b[k] = end /\ \A j \in Value : j # k => b[j] = g.bottom[j]
  BY <1>1 DEF FrameSlots
<1>3. h = [g EXCEPT !.slot = t, !.bottom = b]
  BY DEF WithFrame
<1> HIDE DEF t, b
<1> QED  BY <1>2, <1>3 DEF Views, OnlyFrame

\* Cell c is another object, or holds other globals.
WithObject(g, c, kind, x, y) ==
  [g EXCEPT !.kind = [g.kind EXCEPT ![c] = kind], !.car = [g.car EXCEPT ![c] = x],
            !.cdr = [g.cdr EXCEPT ![c] = y]]

\* The other objects and everything else stay.
OnlyObject(g, h, c) ==
  /\ \A d \in Cell : d # c => h.kind[d] = g.kind[d] /\ h.car[d] = g.car[d] /\ h.cdr[d] = g.cdr[d]
  /\ h.slot = g.slot /\ h.bottom = g.bottom
  /\ h.saved = g.saved /\ h.arg = g.arg /\ h.rest = g.rest

\* One object is seen to change.
LEMMA WithObjectIs ==
  ASSUME NEW g \in Views, NEW c \in Cell, NEW kind \in Kinds, NEW x \in Value, NEW y \in Word,
         NEW h, h = WithObject(g, c, kind, x, y)
  PROVE  h \in Views /\ h.kind[c] = kind /\ h.car[c] = x /\ h.cdr[c] = y /\ OnlyObject(g, h, c)
<1> DEFINE t == [g.kind EXCEPT ![c] = kind]
           u == [g.car EXCEPT ![c] = x]
           w == [g.cdr EXCEPT ![c] = y]
<1>1. g.kind \in [Cell -> Kinds] /\ g.car \in [Cell -> Value] /\ g.cdr \in [Cell -> Word]
  BY DEF Views
<1>2. /\ t \in [Cell -> Kinds] /\ t[c] = kind /\ \A d \in Cell : d # c => t[d] = g.kind[d]
      /\ u \in [Cell -> Value] /\ u[c] = x /\ \A d \in Cell : d # c => u[d] = g.car[d]
      /\ w \in [Cell -> Word] /\ w[c] = y /\ \A d \in Cell : d # c => w[d] = g.cdr[d]
  BY <1>1
<1>3. h = [g EXCEPT !.kind = t, !.car = u, !.cdr = w]
  BY DEF WithObject
<1> HIDE DEF t, u, w
<1> QED  BY <1>2, <1>3 DEF Views, OnlyObject

\* Continuation k returns to another address.
WithSaved(g, k, at) == [g EXCEPT !.saved = [g.saved EXCEPT ![k] = at]]

\* The other continuations and everything else stay.
OnlySaved(g, h, k) ==
  /\ \A j \in Value : j # k => h.saved[j] = g.saved[j]
  /\ h.kind = g.kind /\ h.car = g.car /\ h.cdr = g.cdr /\ h.slot = g.slot /\ h.bottom = g.bottom
  /\ h.arg = g.arg /\ h.rest = g.rest

\* One return address is seen to change.
LEMMA WithSavedIs ==
  ASSUME NEW g \in Views, NEW k \in Value, NEW at \in Word, NEW h, h = WithSaved(g, k, at)
  PROVE  h \in Views /\ h.saved[k] = at /\ OnlySaved(g, h, k)
<1> DEFINE t == [g.saved EXCEPT ![k] = at]
<1>1. g.saved \in [Value -> Word]
  BY DEF Views
<1>2. t \in [Value -> Word] /\ t[k] = at /\ \A j \in Value : j # k => t[j] = g.saved[j]
  BY <1>1
<1>3. h = [g EXCEPT !.saved = t]
  BY DEF WithSaved
<1> HIDE DEF t
<1> QED  BY <1>2, <1>3 DEF Views, OnlySaved

\* Of the n slots of the running procedure the last k have become arguments, after a others.
WithArgs(g, n, a, k) ==
  [g EXCEPT !.arg = [j \in Nat |-> IF j \in a + 1 .. a + k THEN g.slot[NIL][n - (j - a) + 1] ELSE g.arg[j]]]

\* Everything but the arguments stays.
OnlyArgs(g, h, n, a, k) ==
  /\ \A j \in Nat : h.arg[j] = IF j \in a + 1 .. a + k THEN g.slot[NIL][n - (j - a) + 1] ELSE g.arg[j]
  /\ h.kind = g.kind /\ h.car = g.car /\ h.cdr = g.cdr /\ h.slot = g.slot /\ h.bottom = g.bottom
  /\ h.saved = g.saved /\ h.rest = g.rest

\* The arguments are seen to change.
LEMMA WithArgsIs ==
  ASSUME NEW g \in Views, NEW n \in Nat, NEW a \in Nat, NEW k \in Nat, k <= n,
         NEW h, h = WithArgs(g, n, a, k)
  PROVE  h \in Views /\ OnlyArgs(g, h, n, a, k)
<1> DEFINE t == [j \in Nat |-> IF j \in a + 1 .. a + k THEN g.slot[NIL][n - (j - a) + 1] ELSE g.arg[j]]
<1>1. g.arg \in [Nat -> Value] /\ g.slot[NIL] \in [Nat -> Value]
  BY DEF Views, Value
<1>2. ASSUME NEW j \in Nat, j \in a + 1 .. a + k PROVE n - (j - a) + 1 \in Nat
  BY <1>2
<1>3. t \in [Nat -> Value]
  BY <1>1, <1>2
<1>4. \A j \in Nat : t[j] = IF j \in a + 1 .. a + k THEN g.slot[NIL][n - (j - a) + 1] ELSE g.arg[j]
  OBVIOUS
<1>5. h = [g EXCEPT !.arg = t]
  BY DEF WithArgs
<1> HIDE DEF t
<1> QED  BY <1>3, <1>4, <1>5 DEF Views, OnlyArgs

\* No argument yet, and one more.
LEMMA WithArgsStep ==
  ASSUME NEW g \in Views, NEW n \in Nat, NEW a \in Nat
  PROVE  /\ WithArgs(g, n, a, 0) = g
         /\ \A k \in Nat : WithArgs(WithArgs(g, n, a, k), n - k, a + k, 1) = WithArgs(g, n, a, k + 1)
<1>1. g.arg \in [Nat -> Value]
  BY DEF Views
<1>2. [j \in Nat |-> IF j \in a + 1 .. a + 0 THEN g.slot[NIL][n - (j - a) + 1] ELSE g.arg[j]] = g.arg
  BY <1>1
<1>3. WithArgs(g, n, a, 0) = g
  BY <1>2 DEF WithArgs, Views
<1>4. ASSUME NEW k \in Nat
      PROVE  WithArgs(WithArgs(g, n, a, k), n - k, a + k, 1) = WithArgs(g, n, a, k + 1)
  <2> DEFINE t == [j \in Nat |-> IF j \in a + 1 .. a + k THEN g.slot[NIL][n - (j - a) + 1] ELSE g.arg[j]]
             u == [j \in Nat |-> IF j \in (a + k) + 1 .. (a + k) + 1 THEN g.slot[NIL][(n - k) - (j - (a + k)) + 1]
                                 ELSE t[j]]
             w == [j \in Nat |-> IF j \in a + 1 .. a + (k + 1) THEN g.slot[NIL][n - (j - a) + 1] ELSE g.arg[j]]
  <2>1. ASSUME NEW j \in Nat PROVE u[j] = w[j]
    <3>1. CASE j \in a + 1 .. a + k
      <4>1. j \notin (a + k) + 1 .. (a + k) + 1 /\ j \in a + 1 .. a + (k + 1)
        BY <3>1
      <4> QED  BY <3>1, <4>1
    <3>2. CASE j = a + k + 1
      <4>1. /\ j \in (a + k) + 1 .. (a + k) + 1 /\ j \in a + 1 .. a + (k + 1)
            /\ (n - k) - (j - (a + k)) + 1 = n - (j - a) + 1
        BY <3>2
      <4> QED  BY <4>1
    <3>3. CASE j \notin a + 1 .. a + (k + 1)
      <4>1. j \notin (a + k) + 1 .. (a + k) + 1 /\ j \notin a + 1 .. a + k
        BY <3>3
      <4> QED  BY <3>3, <4>1
    <3>4. j \in a + 1 .. a + k \/ j = a + k + 1 \/ j \notin a + 1 .. a + (k + 1)
      OBVIOUS
    <3> HIDE DEF t, u, w
    <3> QED  BY <3>1, <3>2, <3>3, <3>4
  <2>2. u = w
    <3>1. u = [j \in Nat |-> u[j]] /\ w = [j \in Nat |-> w[j]]
      OBVIOUS
    <3> HIDE DEF u, w
    <3> QED  BY <2>1, <3>1
  <2>3. WithArgs(g, n, a, k) = [g EXCEPT !.arg = t] /\ WithArgs(g, n, a, k + 1) = [g EXCEPT !.arg = w]
    BY DEF WithArgs
  <2>4. /\ WithArgs(g, n, a, k).arg = t /\ WithArgs(g, n, a, k).slot = g.slot
        /\ \A x : [WithArgs(g, n, a, k) EXCEPT !.arg = x] = [g EXCEPT !.arg = x]
    <3> HIDE DEF t, w
    <3> QED  BY <2>3 DEF Views
  <2>5. WithArgs(WithArgs(g, n, a, k), n - k, a + k, 1) = [WithArgs(g, n, a, k) EXCEPT !.arg = u]
    <3>1. u = [j \in Nat |-> IF j \in (a + k) + 1 .. (a + k) + 1
                             THEN WithArgs(g, n, a, k).slot[NIL][(n - k) - (j - (a + k)) + 1]
                             ELSE WithArgs(g, n, a, k).arg[j]]
      <4> HIDE DEF t
      <4> QED  BY <2>4
    <3> HIDE DEF u
    <3> QED  BY <3>1 DEF WithArgs
  <2> HIDE DEF t, u, w
  <2> QED  BY <2>2, <2>3, <2>4, <2>5
<1> QED  BY <1>3, <1>4

-----------------------------------------------------------------------------
(* Frames. *)

\* What two steps keep, both keep together.
LEMMA KeptTransitive ==
  ASSUME NEW m, NEW o, NEW s, NEW q, NEW t, NEW r, Kept(m, o, s, q), Kept(s, q, t, r)
  PROVE  Kept(m, o, t, r)
BY DEF Kept, SameLabel

\* The running procedure leaves its frame.
LEMMA FrameDropped ==
  ASSUME NEW m, NEW o, NEW n, NEW a, Sound(m, o, n, a), NEW s, s = [m EXCEPT !.env = NIL]
  PROVE  \E q : /\ Sound(s, q, 0, a) /\ Kept(m, o, s, q)
                /\ \A c \in Cell : o.role[c] = "args" => SameLabel(o, q, c)
                /\ Stays(m, o, s, q, NIL)
<1> DEFINE Dropped(c) == o.role[c] = "frame" /\ o.of[c] = NIL
           q == [o EXCEPT !.role = [c \in Cell |-> IF Dropped(c) THEN "none" ELSE o.role[c]]]
<1>1. m \in Machines /\ o \in Labels /\ n \in Nat /\ a \in Nat /\ Apart(o)
  BY DEF Sound
<1>2. /\ s \in Machines /\ s.type = m.type /\ s.car = m.car /\ s.cdr = m.cdr /\ s.spent = m.spent
      /\ s.free_cells = m.free_cells /\ s.env = NIL /\ s.cont = m.cont
  BY <1>1 DEF Machines, Value
<1>3. /\ q \in Labels
      /\ \A c \in Cell : /\ Dropped(c) => q.role[c] = "none"
                         /\ ~Dropped(c) => SameLabel(o, q, c)
  BY <1>1 DEF Labels, Role, SameLabel
<1> HIDE DEF q
<1>4. Apart(q)
  BY <1>1, <1>3 DEF Apart, SameLabel
<1>5. ASSUME NEW c \in Cell PROVE CellSound(s, q, 0, a, c)
  <2>1. CellSound(m, o, n, a, c)
    BY DEF Sound
  <2>2. CASE Dropped(c)
    <3>1. c \notin m.spent /\ c \notin ReservedCell
      BY <2>1, <2>2 DEF CellSound, GlobalSound, SlotSound, FreeSound, CONS_TYPE, CONTINUATION_TYPE
    <3> QED
      BY <1>2, <1>3, <2>2, <3>1
      DEF CellSound, GlobalSound, ObjectSound, SlotSound, SavedSound, FreeSound
  <2>3. CASE ~Dropped(c)
    <3>1. ASSUME NEW v \in Cell, Uses(m, o, c, v) PROVE ~Dropped(v)
      <4>1. o.role[c] = "args" => o.of[c] = NIL
        BY <2>1 DEF CellSound, SlotSound
      <4> QED  BY <2>3, <3>1, <4>1, UsesWhat, NilAssumption DEF IsObject, In
    <3>2. o.role[c] = "free" => s.free_cells # NIL /\ o.at[c] <= q.at[s.free_cells]
      <4>1. o.role[c] = "free" => /\ m.free_cells # NIL /\ o.at[c] <= o.at[m.free_cells]
                                  /\ m.free_cells \in Cell /\ o.role[m.free_cells] = "free"
        BY <1>1, <2>1 DEF CellSound, FreeSound, Sound, Machines, Value
      <4> QED  BY <1>2, <1>3, <4>1 DEF SameLabel
    <3>3. o.role[c] = "args" => o.at[c] <= a
      BY <2>1 DEF CellSound, SlotSound
    <3> QED  BY <1>2, <1>3, <2>3, <3>1, <3>2, <3>3, CellKept
  <2> QED  BY <2>2, <2>3
<1>6. Chain(s, q, s.env, "frame", NIL, 0)
  BY <1>2 DEF Chain, ListRef
<1>7. Ref(q, s.cont)
  BY <1>2, <1>3 DEF Sound, Ref, IsObject, SameLabel
<1>8. s.free_cells # NIL => q.role[s.free_cells] = "free"
  <2>1. s.free_cells # NIL => s.free_cells \in Cell /\ o.role[s.free_cells] = "free"
    BY <1>1, <1>2 DEF Sound, Machines, Value
  <2> QED  BY <1>3, <2>1 DEF SameLabel
<1>9. Sound(s, q, 0, a)
  BY <1>1, <1>2, <1>3, <1>4, <1>5, <1>6, <1>7, <1>8 DEF Sound
<1>10. Kept(m, o, s, q) /\ \A c \in Cell : o.role[c] = "args" => SameLabel(o, q, c)
  BY <1>2, <1>3 DEF Kept
<1>11. Stays(m, o, s, q, NIL)
  BY <1>2, <1>3 DEF Stays
<1> QED  BY <1>9, <1>10, <1>11

\* The labels of the arguments become those of the slots of the running procedure.
Entered(o, q) ==
  \A c \in Cell :
    /\ o.role[c] = "args" => q.role[c] = "frame" /\ q.of[c] = o.of[c] /\ q.at[c] = o.at[c]
    /\ o.role[c] # "args" => SameLabel(o, q, c)

\* The arguments become the frame of the procedure that is entered.
LEMMA ArgsEntered ==
  ASSUME NEW m, NEW o, NEW a, Sound(m, o, 0, a), Chain(m, o, m.reg1, "args", NIL, a),
         NEW s \in Machines, s.type = m.type, s.car = m.car, s.cdr = m.cdr, s.spent = m.spent,
         s.free_cells = m.free_cells, s.cont = m.cont, s.env = m.reg1
  PROVE  \E q : Sound(s, q, a, 0) /\ Entered(o, q)
<1> DEFINE q == [o EXCEPT !.role = [c \in Cell |-> IF o.role[c] = "args" THEN "frame" ELSE o.role[c]]]
<1>1. m \in Machines /\ o \in Labels /\ a \in Nat /\ Apart(o)
  BY DEF Sound
<1>2. /\ q \in Labels
      /\ \A c \in Cell : /\ o.role[c] = "args" => q.role[c] = "frame" /\ q.of[c] = o.of[c] /\ q.at[c] = o.at[c]
                         /\ o.role[c] # "args" => SameLabel(o, q, c)
  BY <1>1 DEF Labels, Role, SameLabel
<1> HIDE DEF q
<1>3. \A c \in Cell : /\ o.role[c] = "frame" => o.of[c] # NIL
                      /\ o.role[c] = "args" => o.of[c] = NIL /\ o.at[c] <= a
  <2> SUFFICES ASSUME NEW c \in Cell
               PROVE  /\ o.role[c] = "frame" => o.of[c] # NIL
                      /\ o.role[c] = "args" => o.of[c] = NIL /\ o.at[c] <= a
    OBVIOUS
  <2>1. CellSound(m, o, 0, a, c) /\ o.at[c] \in Nat
    BY <1>1 DEF Sound, Labels
  <2> QED  BY <2>1 DEF CellSound, SlotSound
<1>4. Apart(q)
  BY <1>1, <1>2, <1>3 DEF Apart, SameLabel
<1>5. ASSUME NEW c \in Cell PROVE CellSound(s, q, a, 0, c)
  <2>1. CellSound(m, o, 0, a, c)
    BY DEF Sound
  <2>2. CASE o.role[c] = "args"
    <3>1. /\ m.type[c] = CONS_TYPE /\ Ref(o, m.car[c]) /\ o.at[c] # 0
          /\ Chain(m, o, m.cdr[c], "args", NIL, o.at[c] - 1)
      BY <1>3, <2>1, <2>2 DEF CellSound, SlotSound
    <3>2. Ref(q, s.car[c])
      BY <1>2, <3>1 DEF Ref, IsObject, SameLabel
    <3>3. Chain(s, q, s.cdr[c], "frame", NIL, o.at[c] - 1)
      BY <1>2, <3>1 DEF Chain, ListRef, IsObject, In, SameLabel
    <3>4. c \notin s.spent /\ c \notin ReservedCell
      BY <2>1, <2>2, <3>1 DEF CellSound, GlobalSound, FreeSound, CONS_TYPE, CONTINUATION_TYPE
    <3> QED
      BY <1>2, <1>3, <2>2, <3>1, <3>2, <3>3, <3>4
      DEF CellSound, GlobalSound, ObjectSound, SlotSound, SavedSound, FreeSound
  <2>3. CASE o.role[c] # "args"
    <3>1. ASSUME NEW v \in Cell, Uses(m, o, c, v) PROVE SameLabel(o, q, v)
      BY <1>2, <2>3, <3>1, UsesWhat DEF IsObject, In
    <3>2. o.role[c] = "free" => s.free_cells # NIL /\ o.at[c] <= q.at[s.free_cells]
      <4>1. o.role[c] = "free" => /\ m.free_cells # NIL /\ o.at[c] <= o.at[m.free_cells]
                                  /\ m.free_cells \in Cell /\ o.role[m.free_cells] = "free"
        BY <1>1, <2>1 DEF CellSound, FreeSound, Sound, Machines, Value
      <4> QED  BY <1>2, <4>1 DEF SameLabel
    <3> QED  BY <1>2, <1>3, <2>3, <3>1, <3>2, CellKept
  <2> QED  BY <2>2, <2>3
<1>6. Chain(s, q, s.env, "frame", NIL, a)
  BY <1>2 DEF Chain, ListRef, IsObject, In, SameLabel
<1>7. Ref(q, s.cont)
  BY <1>2 DEF Sound, Ref, IsObject, SameLabel
<1>8. s.free_cells # NIL => q.role[s.free_cells] = "free"
  <2>1. s.free_cells # NIL => s.free_cells \in Cell /\ o.role[s.free_cells] = "free"
    BY <1>1 DEF Sound, Machines, Value
  <2> QED  BY <1>2, <2>1 DEF SameLabel
<1>9. Sound(s, q, a, 0)
  BY <1>1, <1>2, <1>4, <1>5, <1>6, <1>7, <1>8 DEF Sound
<1> QED  BY <1>2, <1>9 DEF Entered

\* The slots of the running procedure become those of continuation k, which p saves.
Suspends(o, q, k, p) ==
  /\ q.role[k] = "object" /\ q.role[p] = "saved" /\ q.of[p] = k
  /\ \A c \in Cell : IF o.role[c] = "frame" /\ o.of[c] = NIL
                     THEN q.role[c] = "frame" /\ q.of[c] = k /\ q.at[c] = o.at[c]
                     ELSE c = k \/ c = p \/ SameLabel(o, q, c)

\* The running procedure is suspended: its frame becomes the one of continuation k.
LEMMA FrameSaved ==
  ASSUME NEW m, NEW o, NEW n, NEW a, Sound(m, o, n, a),
         NEW k \in Cell, NEW p \in Cell, k # p, o.role[k] = "none", o.role[p] = "none",
         m.type[k] = CONTINUATION_TYPE, Ref(o, m.car[k]), m.cdr[k] = p,
         m.type[p] = CLOSURE_TYPE, m.car[p] = m.env,
         m.cdr[p] \in Address, m.cdr[p].slots = n, m.cdr[p].temps <= n,
         NEW s \in Machines, s.type = m.type, s.car = m.car, s.cdr = m.cdr, s.spent = m.spent,
         s.free_cells = m.free_cells, s.cont = k, s.env = NIL
  PROVE  \E q : /\ Sound(s, q, 0, a)
                /\ \A c \in Cell : o.role[c] \in {"args", "object"} => SameLabel(o, q, c)
                /\ Suspends(o, q, k, p)
<1> DEFINE Mine(c) == o.role[c] = "frame" /\ o.of[c] = NIL
           q == [role |-> [c \in Cell |-> IF c = k THEN "object" ELSE IF c = p THEN "saved" ELSE o.role[c]],
                 of   |-> [c \in Cell |-> IF c = p \/ Mine(c) THEN k ELSE o.of[c]],
                 at   |-> [c \in Cell |-> IF c = p THEN 0 ELSE o.at[c]]]
<1>1. m \in Machines /\ o \in Labels /\ n \in Nat /\ a \in Nat /\ Apart(o)
  BY DEF Sound
<1>2. /\ q \in Labels /\ q.role[k] = "object" /\ q.role[p] = "saved" /\ q.of[p] = k /\ q.at[p] = 0
      /\ \A c \in Cell : /\ Mine(c) => q.role[c] = "frame" /\ q.of[c] = k /\ q.at[c] = o.at[c]
                         /\ ~Mine(c) /\ c # k /\ c # p => SameLabel(o, q, c)
  BY <1>1 DEF Labels, Role, Value, SameLabel
<1> HIDE DEF q
<1>3. /\ k \notin m.spent /\ p \notin m.spent /\ k \notin ReservedCell /\ p \notin ReservedCell
  BY DEF Sound, CellSound, FreeSound, GlobalSound
<1>4. \A c \in Cell : o.role[c] \in {"frame", "saved"} => o.of[c] # k
  BY NilAssumption DEF Sound, CellSound, SlotSound, SavedSound, IsObject
<1>5. \A c \in Cell : o.role[c] = "saved" => o.of[c] # NIL
  BY NilAssumption DEF Sound, CellSound, SavedSound, IsObject
<1>6. Apart(q)
  BY <1>1, <1>2, <1>4 DEF Apart, SameLabel
<1>7. ASSUME NEW c \in Cell PROVE CellSound(s, q, 0, a, c)
  <2>1. CellSound(m, o, n, a, c)
    BY DEF Sound
  <2>2. CASE c = k
    <3>1. Ref(q, s.car[k])
      BY <1>2 DEF Ref, IsObject, SameLabel
    <3>2. In(q, s.cdr[k], "saved", k, 0)
      BY <1>2 DEF In
    <3> QED
      BY <1>2, <1>3, <2>2, <3>1, <3>2
      DEF CellSound, GlobalSound, ObjectSound, SlotSound, SavedSound, FreeSound,
        CONS_TYPE, CLOSURE_TYPE, CONTINUATION_TYPE, STRING_TYPE
  <2>3. CASE c = p
    <3>1. Chain(m, o, m.env, "frame", NIL, n)
      BY DEF Sound
    <3>2. Chain(s, q, s.car[p], "frame", k, n)
      BY <1>2, <3>1 DEF Chain, ListRef, IsObject, In, SameLabel
    <3> QED
      BY <1>2, <1>3, <2>3, <3>2
      DEF CellSound, GlobalSound, ObjectSound, SlotSound, SavedSound, FreeSound, IsObject
  <2>4. CASE Mine(c)
    <3>1. /\ m.type[c] = CONS_TYPE /\ Ref(o, m.car[c]) /\ o.at[c] # 0
          /\ Chain(m, o, m.cdr[c], "frame", NIL, o.at[c] - 1)
      BY <2>1, <2>4 DEF CellSound, SlotSound
    <3>2. Ref(q, s.car[c])
      BY <1>2, <3>1 DEF Ref, IsObject, SameLabel
    <3>3. Chain(s, q, s.cdr[c], "frame", k, o.at[c] - 1)
      BY <1>2, <3>1 DEF Chain, ListRef, IsObject, In, SameLabel
    <3>4. c \notin s.spent /\ c \notin ReservedCell
      BY <2>1, <2>4, <3>1 DEF CellSound, GlobalSound, FreeSound, CONS_TYPE, CONTINUATION_TYPE
    <3>5. k # NIL /\ IsObject(q, k)
      BY <1>2, NilAssumption DEF IsObject
    <3> QED
      BY <1>2, <2>4, <3>1, <3>2, <3>3, <3>4, <3>5
      DEF CellSound, GlobalSound, ObjectSound, SlotSound, SavedSound, FreeSound
  <2>5. CASE ~Mine(c) /\ c # k /\ c # p
    <3>1. ASSUME NEW v \in Cell, Uses(m, o, c, v) PROVE SameLabel(o, q, v)
      <4>1. o.role[c] = "args" => o.of[c] = NIL
        BY <2>1 DEF CellSound, SlotSound
      <4>2. ~Mine(v) /\ o.role[v] # "none"
        BY <2>5, <3>1, <4>1, UsesWhat, NilAssumption DEF IsObject, In
      <4> QED  BY <1>2, <4>2
    <3>2. o.role[c] = "free" => s.free_cells # NIL /\ o.at[c] <= q.at[s.free_cells]
      <4>1. o.role[c] = "free" => /\ m.free_cells # NIL /\ o.at[c] <= o.at[m.free_cells]
                                  /\ m.free_cells \in Cell /\ o.role[m.free_cells] = "free"
        BY <1>1, <2>1 DEF CellSound, FreeSound, Sound, Machines, Value
      <4> QED  BY <1>2, <4>1 DEF SameLabel
    <3>3. o.role[c] = "args" => o.at[c] <= a
      BY <2>1 DEF CellSound, SlotSound
    <3> QED  BY <1>2, <2>5, <3>1, <3>2, <3>3, CellKept
  <2> QED  BY <2>2, <2>3, <2>4, <2>5
<1>8. Chain(s, q, s.env, "frame", NIL, 0) /\ Ref(q, s.cont)
  BY <1>2 DEF Chain, ListRef, Ref, IsObject
<1>9. s.free_cells # NIL => q.role[s.free_cells] = "free"
  <2>1. s.free_cells # NIL => s.free_cells \in Cell /\ o.role[s.free_cells] = "free"
    BY <1>1 DEF Sound, Machines, Value
  <2> QED  BY <1>2, <2>1 DEF SameLabel
<1>10. Sound(s, q, 0, a)
  BY <1>1, <1>2, <1>6, <1>7, <1>8, <1>9 DEF Sound
<1>11. \A c \in Cell : o.role[c] \in {"args", "object"} => SameLabel(o, q, c)
  BY <1>2
<1>12. Suspends(o, q, k, p)
  BY <1>2 DEF Suspends
<1> QED  BY <1>10, <1>11, <1>12

\* The first n slots of continuation k become those of the running procedure, and p, which
\* saved them, is not needed any more.
Restores(o, q, k, p, n) ==
  /\ q.role[p] = "none"
  /\ \A c \in Cell : IF o.role[c] = "frame" /\ o.of[c] = k
                     THEN /\ q.of[c] = NIL /\ q.at[c] = o.at[c]
                          /\ q.role[c] = IF o.at[c] > n THEN "none" ELSE "frame"
                     ELSE c = p \/ SameLabel(o, q, c)

\* The procedure that continuation k suspended goes on, and k has been used.
LEMMA FrameResumed ==
  ASSUME NEW m, NEW o, NEW a, Sound(m, o, 0, a),
         NEW k, IsObject(o, k), m.type[k] = CONTINUATION_TYPE, k \notin m.spent,
         NEW s \in Machines, s.type = m.type, s.car = m.car, s.cdr = m.cdr,
         s.spent = m.spent \cup {k}, s.free_cells = m.free_cells,
         s.cont = m.car[k], s.env = m.car[m.cdr[k]]
  PROVE  /\ m.cdr[k] \in Cell /\ o.role[m.cdr[k]] = "saved"
         /\ m.cdr[m.cdr[k]] \in Address /\ m.cdr[m.cdr[k]].temps <= m.cdr[m.cdr[k]].slots
         /\ \E q : /\ Sound(s, q, m.cdr[m.cdr[k]].slots, a)
                   /\ \A c \in Cell : o.role[c] = "object" => SameLabel(o, q, c)
                   /\ Restores(o, q, k, m.cdr[k], m.cdr[m.cdr[k]].slots)
<1> DEFINE p == m.cdr[k]
           n == m.cdr[p].slots
           Mine(c) == o.role[c] = "frame" /\ o.of[c] = k
           q == [role |-> [c \in Cell |-> IF c = p \/ (Mine(c) /\ o.at[c] > n) THEN "none" ELSE o.role[c]],
                 of   |-> [c \in Cell |-> IF Mine(c) THEN NIL ELSE o.of[c]],
                 at   |-> o.at]
<1>1. m \in Machines /\ o \in Labels /\ a \in Nat /\ Apart(o) /\ k \in Cell
  BY DEF Sound, IsObject
<1>2. Ref(o, m.car[k]) /\ p \in Cell /\ o.role[p] = "saved" /\ o.of[p] = k
  <2>1. CellSound(m, o, 0, a, k)
    BY <1>1 DEF Sound
  <2> QED  BY <2>1 DEF CellSound, ObjectSound, IsObject, In
<1>3. /\ m.type[p] = CLOSURE_TYPE /\ m.cdr[p] \in Address /\ m.cdr[p].temps <= n
      /\ Chain(m, o, m.car[p], "frame", k, n) /\ n \in Nat
  <2>1. CellSound(m, o, 0, a, p)
    BY <1>2 DEF Sound
  <2> QED  BY <1>2, <2>1 DEF CellSound, SavedSound, Address
<1>4. p # k /\ p \notin m.spent /\ p \notin ReservedCell /\ k \notin ReservedCell
  <2>1. CellSound(m, o, 0, a, p) /\ CellSound(m, o, 0, a, k)
    BY <1>1, <1>2 DEF Sound
  <2> QED
    BY <1>1, <1>2, <1>3, <2>1
    DEF CellSound, FreeSound, GlobalSound, IsObject, CLOSURE_TYPE, CONTINUATION_TYPE
<1> HIDE DEF n, p
<1>5. /\ q \in Labels /\ q.role[p] = "none"
      /\ \A c \in Cell : /\ Mine(c) => /\ q.of[c] = NIL /\ q.at[c] = o.at[c]
                                       /\ q.role[c] = IF o.at[c] > n THEN "none" ELSE "frame"
                         /\ ~Mine(c) /\ c # p => SameLabel(o, q, c)
  BY <1>1, <1>2 DEF Labels, Role, Value, SameLabel
<1> HIDE DEF q
<1>6. \A c \in Cell : /\ o.role[c] = "frame" => o.of[c] # NIL
                      /\ o.role[c] = "saved" => o.at[c] = 0
  <2> SUFFICES ASSUME NEW c \in Cell
               PROVE  /\ o.role[c] = "frame" => o.of[c] # NIL
                      /\ o.role[c] = "saved" => o.at[c] = 0
    OBVIOUS
  <2>1. CellSound(m, o, 0, a, c) /\ o.at[c] \in Nat
    BY <1>1 DEF Sound, Labels
  <2> QED  BY <2>1 DEF CellSound, SlotSound, SavedSound
<1>7. Apart(q)
  BY <1>1, <1>2, <1>5, <1>6 DEF Apart, SameLabel
<1>8. ASSUME NEW c \in Cell PROVE CellSound(s, q, n, a, c)
  <2>1. CellSound(m, o, 0, a, c) /\ o.at[c] \in Nat
    BY <1>1 DEF Sound, Labels
  <2>2. CASE c = p \/ (Mine(c) /\ o.at[c] > n)
    <3>1. c \notin s.spent /\ c \notin ReservedCell
      BY <1>1, <1>2, <1>4, <2>1, <2>2
      DEF CellSound, GlobalSound, SlotSound, FreeSound, IsObject, CONS_TYPE, CONTINUATION_TYPE
    <3>2. q.role[c] = "none"
      BY <1>5, <2>2
    <3> QED
      BY <3>1, <3>2
      DEF CellSound, GlobalSound, ObjectSound, SlotSound, SavedSound, FreeSound
  <2>3. CASE Mine(c) /\ ~(o.at[c] > n)
    <3>1. /\ m.type[c] = CONS_TYPE /\ Ref(o, m.car[c]) /\ o.at[c] # 0
          /\ Chain(m, o, m.cdr[c], "frame", k, o.at[c] - 1)
      BY <2>1, <2>3 DEF CellSound, SlotSound
    <3>2. Ref(q, s.car[c])
      BY <1>2, <1>5, <3>1 DEF Ref, IsObject, SameLabel
    <3>3. Chain(s, q, s.cdr[c], "frame", NIL, o.at[c] - 1)
      BY <1>2, <1>3, <1>5, <2>1, <2>3, <3>1 DEF Chain, ListRef, IsObject, In, SameLabel
    <3>4. c \notin s.spent /\ c \notin ReservedCell
      BY <2>1, <2>3, <3>1 DEF CellSound, GlobalSound, FreeSound, IsObject, CONS_TYPE, CONTINUATION_TYPE
    <3>5. q.role[c] = "frame" /\ q.of[c] = NIL /\ q.at[c] = o.at[c] /\ o.at[c] <= n
      BY <1>3, <1>5, <2>1, <2>3
    <3> QED
      BY <3>1, <3>2, <3>3, <3>4, <3>5
      DEF CellSound, GlobalSound, ObjectSound, SlotSound, SavedSound, FreeSound
  <2>4. CASE c = k
    <3>1. q.role[k] = "object" /\ k \in s.spent /\ s.type[k] = CONTINUATION_TYPE
      BY <1>1, <1>4, <1>5 DEF IsObject, SameLabel
    <3> QED
      BY <1>4, <2>4, <3>1
      DEF CellSound, GlobalSound, ObjectSound, SlotSound, SavedSound, FreeSound,
        CONS_TYPE, CLOSURE_TYPE, CONTINUATION_TYPE, STRING_TYPE
  <2>5. CASE ~Mine(c) /\ c # p /\ c # k
    <3>1. ASSUME NEW v \in Cell, Uses(m, o, c, v) PROVE SameLabel(o, q, v)
      <4>1. CASE IsObject(o, v)
        BY <1>2, <1>5, <4>1 DEF IsObject
      <4>2. CASE o.role[c] \in {"frame", "args"} /\ In(o, v, o.role[c], o.of[c], o.at[c] - 1)
        BY <1>2, <1>5, <2>5, <4>2 DEF In
      <4>3. CASE o.role[c] = "saved" /\ In(o, v, "frame", o.of[c], m.cdr[c].slots)
        <5>1. o.of[c] # k
          BY <1>1, <1>2, <1>6, <2>5, <4>3 DEF Apart
        <5> QED  BY <1>2, <1>5, <4>3, <5>1 DEF In
      <4>4. CASE o.role[c] = "object" /\ In(o, v, "saved", c, 0)
        BY <1>2, <1>5, <2>5, <4>4 DEF In
      <4>5. CASE o.role[c] = "free" /\ In(o, v, "free", NIL, o.at[c] - 1)
        BY <1>2, <1>5, <4>5 DEF In
      <4> QED  BY <3>1, <4>1, <4>2, <4>3, <4>4, <4>5, UsesWhat
    <3>2. o.role[c] = "free" => s.free_cells # NIL /\ o.at[c] <= q.at[s.free_cells]
      <4>1. o.role[c] = "free" => /\ m.free_cells # NIL /\ o.at[c] <= o.at[m.free_cells]
                                  /\ m.free_cells \in Cell /\ o.role[m.free_cells] = "free"
        BY <1>1, <2>1 DEF CellSound, FreeSound, Sound, Machines, Value
      <4> QED  BY <1>2, <1>5, <4>1 DEF SameLabel
    <3>3. /\ o.role[c] = "args" => o.at[c] <= a
          /\ ~(o.role[c] = "frame" /\ o.of[c] = NIL)
      BY <1>6, <2>1 DEF CellSound, SlotSound
    <3> QED  BY <1>5, <2>5, <3>1, <3>2, <3>3, CellKept
  <2> QED  BY <2>2, <2>3, <2>4, <2>5
<1>9. Chain(s, q, s.env, "frame", NIL, n)
  <2>1. s.env = m.car[p]
    BY DEF p
  <2> QED  BY <1>2, <1>3, <1>5, <2>1 DEF Chain, ListRef, IsObject, In, SameLabel
<1>10. Ref(q, s.cont)
  BY <1>2, <1>5 DEF Ref, IsObject, SameLabel
<1>11. s.free_cells # NIL => q.role[s.free_cells] = "free"
  <2>1. s.free_cells # NIL => s.free_cells \in Cell /\ o.role[s.free_cells] = "free"
    BY <1>1 DEF Sound, Machines, Value
  <2> QED  BY <1>2, <1>5, <2>1 DEF SameLabel
<1>12. Sound(s, q, n, a)
  BY <1>1, <1>3, <1>5, <1>7, <1>8, <1>9, <1>10, <1>11 DEF Sound
<1>13. \A c \in Cell : o.role[c] = "object" => SameLabel(o, q, c)
  BY <1>2, <1>5
<1>14. Restores(o, q, k, p, n)
  BY <1>5 DEF Restores
<1> QED  BY <1>2, <1>3, <1>12, <1>13, <1>14 DEF n, p

\* Without its frame, the running procedure is seen to have no slots and no closed variables.
LEMMA DropShown ==
  ASSUME NEW m, NEW o, NEW n, NEW g, Shows(m, o, n, g), NEW a, NEW s, NEW q, Sound(s, q, 0, a),
         Stays(m, o, s, q, NIL), s.env = NIL
  PROVE  Shows(s, q, 0, WithFrame(g, NIL, g.slot[NIL], NIL))
<1> DEFINE h == WithFrame(g, NIL, g.slot[NIL], NIL)
<1>0. g \in Views /\ NIL \in Value /\ g.slot[NIL] \in FrameSlots
  BY DEF Shows, Views, Value, FrameSlots
<1>a. h = WithFrame(g, NIL, g.slot[NIL], NIL)
  OBVIOUS
<1> HIDE DEF h
<1>1. /\ h \in Views /\ h.bottom[NIL] = NIL
      /\ OnlyFrame(g, h, NIL)
  BY <1>0, <1>a, WithFrameIs
<1>2. ASSUME NEW c \in Cell, q.role[c] \notin {"free", "none"} PROVE CellShows(m, o, h, c)
  <2>1. /\ CellShows(m, o, g, c) /\ SameLabel(o, q, c) /\ CellSound(s, q, 0, a, c)
        /\ q.of[c] \in Value /\ q.at[c] \in Nat
    BY <1>2, NilAssumption DEF Shows, Stays, Sound, Labels
  <2>2. o.role[c] \in {"frame", "saved"} => o.of[c] # NIL /\ o.of[c] \in Value
    BY <2>1, NilAssumption DEF SameLabel, CellSound, SlotSound, SavedSound, IsObject
  <2> QED  BY <1>1, <2>1, <2>2 DEF CellShows, OnlyFrame
<1>3. Shows(s, q, 0, h)
  <2>1. NIL \notin Cell
    BY NilAssumption
  <2> QED  BY <1>1, <1>2, <2>1, ShowsBut
<1> QED  BY <1>3 DEF h

\* The arguments are seen as the slots of the procedure that is entered.
LEMMA EnterShown ==
  ASSUME NEW m, NEW o, NEW a, Sound(m, o, 0, a), NEW g, Shows(m, o, 0, g),
         a = 0 => m.reg1 = g.rest,
         NEW s, s.type = m.type, s.car = m.car, s.cdr = m.cdr, s.spent = m.spent, s.env = m.reg1,
         NEW q, Entered(o, q)
  PROVE  Shows(s, q, a, WithFrame(g, NIL, g.arg, g.rest))
<1> DEFINE h == WithFrame(g, NIL, g.arg, g.rest)
<1>0. g \in Views /\ NIL \in Value /\ g.arg \in FrameSlots /\ g.rest \in Value
  BY DEF Shows, Views, Value, FrameSlots
<1>a. h = WithFrame(g, NIL, g.arg, g.rest)
  OBVIOUS
<1> HIDE DEF h
<1>1. /\ h \in Views /\ h.slot[NIL] = g.arg /\ h.bottom[NIL] = g.rest
      /\ OnlyFrame(g, h, NIL)
  BY <1>0, <1>a, WithFrameIs
<1>2. ASSUME NEW c \in Cell PROVE CellShows(s, q, h, c)
  <2>1. CellShows(m, o, g, c) /\ CellSound(m, o, 0, a, c) /\ o.of[c] \in Value /\ o.at[c] \in Nat
    BY DEF Shows, Sound, Labels
  <2>2. CASE o.role[c] = "args"
    <3>1. q.role[c] = "frame" /\ q.of[c] = NIL /\ q.at[c] = o.at[c]
      BY <2>1, <2>2 DEF Entered, CellSound, SlotSound
    <3> QED  BY <1>1, <2>1, <2>2, <3>1 DEF CellShows, OnlyFrame
  <2>3. CASE o.role[c] # "args"
    <3>1. SameLabel(o, q, c)
      BY <2>3 DEF Entered
    <3>2. o.role[c] \in {"frame", "saved"} => o.of[c] # NIL
      BY <2>1, NilAssumption DEF CellSound, SlotSound, SavedSound, IsObject
    <3>3. KindOf(s, c) = KindOf(m, c)
      BY DEF KindOf
    <3> QED  BY <1>1, <2>1, <2>3, <3>1, <3>2, <3>3 DEF CellShows, SameLabel, OnlyFrame
  <2> QED  BY <2>2, <2>3
<1> QED  BY <1>1, <1>2 DEF Shows, h

\* The continuation that suspends the running procedure.
WithCont(g, k, parent, at) ==
  WithFrame(WithFrame(WithSaved(WithObject(g, k, CONTINUATION_TYPE, parent, NIL), k, at),
                      k, g.slot[NIL], g.bottom[NIL]),
            NIL, g.slot[NIL], NIL)

\* Continuation k holds the frame, and the running procedure has none.
OnlyCont(g, h, k, parent, at) ==
  /\ h.kind[k] = CONTINUATION_TYPE /\ h.car[k] = parent
  /\ \A d \in Cell : d # k => h.kind[d] = g.kind[d] /\ h.car[d] = g.car[d] /\ h.cdr[d] = g.cdr[d]
  /\ h.slot[k] = g.slot[NIL] /\ h.bottom[k] = g.bottom[NIL] /\ h.saved[k] = at
  /\ \A j \in Value : j # k /\ j # NIL =>
       h.slot[j] = g.slot[j] /\ h.bottom[j] = g.bottom[j] /\ h.saved[j] = g.saved[j]
  /\ h.bottom[NIL] = NIL /\ h.arg = g.arg /\ h.rest = g.rest

\* That much is seen to change.
LEMMA WithContIs ==
  ASSUME NEW g \in Views, NEW k \in Cell, NEW parent \in Value, NEW at \in Word,
         NEW h, h = WithCont(g, k, parent, at)
  PROVE  h \in Views /\ OnlyCont(g, h, k, parent, at)
<1>s. PICK slots : slots = g.slot[NIL]
  OBVIOUS
<1>t. PICK end : end = g.bottom[NIL]
  OBVIOUS
<1>d. PICK u : u = WithObject(g, k, CONTINUATION_TYPE, parent, NIL)
  OBVIOUS
<1>c. PICK v : v = WithSaved(u, k, at)
  OBVIOUS
<1>b. PICK w : w = WithFrame(v, k, slots, end)
  OBVIOUS
<1>0. /\ CONTINUATION_TYPE \in Kinds /\ NIL \in Value /\ NIL \in Word /\ k \in Value /\ k # NIL
      /\ slots \in FrameSlots /\ end \in Value
  BY <1>s, <1>t, NilAssumption DEF Kinds, Value, Word, Views, FrameSlots
<1>a. h = WithFrame(w, NIL, slots, NIL)
  BY <1>b, <1>c, <1>d, <1>s, <1>t DEF WithCont
<1>1. /\ u \in Views /\ u.kind[k] = CONTINUATION_TYPE /\ u.car[k] = parent
      /\ OnlyObject(g, u, k)
  BY <1>0, <1>d, WithObjectIs
<1>e. u \in Views /\ k \in Value /\ NIL \in Value
  BY <1>0, <1>1
<1>2. v \in Views /\ v.saved[k] = at /\ OnlySaved(u, v, k)
  BY <1>e, <1>c, WithSavedIs
<1>f. v \in Views
  BY <1>2
<1>i. slots \in FrameSlots
  BY <1>0
<1>j. end \in Value
  BY <1>0
<1>k. k \in Value
  BY <1>0
<1>l. NIL \in Value
  BY <1>0
<1>3. /\ w \in Views /\ w.slot[k] = slots /\ w.bottom[k] = end
      /\ OnlyFrame(v, w, k)
  BY <1>b, <1>f, <1>i, <1>j, <1>k, WithFrameIs
<1>g. w \in Views
  BY <1>3
<1>4. h \in Views /\ h.bottom[NIL] = NIL /\ OnlyFrame(w, h, NIL)
  BY <1>a, <1>g, <1>i, <1>l, WithFrameIs
<1> QED
  BY <1>0, <1>1, <1>2, <1>3, <1>4, <1>s, <1>t DEF OnlyCont, OnlyObject, OnlySaved, OnlyFrame

\* The frame that was the running one is seen in the continuation.
LEMMA SaveShown ==
  ASSUME NEW m, NEW o, NEW n, NEW a, Sound(m, o, n, a), NEW g, Shows(m, o, n, g),
         NEW k \in Cell, NEW p \in Cell, k # p, o.role[k] = "none", o.role[p] = "none",
         m.type[k] = CONTINUATION_TYPE, m.car[p] = m.env, m.cdr[p].slots = n,
         NEW s, s.type = m.type, s.car = m.car, s.cdr = m.cdr, s.spent = m.spent, s.env = NIL,
         NEW q, Suspends(o, q, k, p)
  PROVE  Shows(s, q, 0, WithCont(g, k, m.car[k], m.cdr[p]))
<1> DEFINE h == WithCont(g, k, m.car[k], m.cdr[p])
<1>0. g \in Views /\ m \in Machines /\ o \in Labels /\ k # NIL /\ NIL \in Value /\ k \in Value
  BY NilAssumption DEF Shows, Sound, Value
<1>a. h = WithCont(g, k, m.car[k], m.cdr[p])
  OBVIOUS
<1> HIDE DEF h
<1>1. h \in Views /\ OnlyCont(g, h, k, m.car[k], m.cdr[p])
  <2>1. m.car[k] \in Value /\ m.cdr[p] \in Word
    BY <1>0 DEF Machines
  <2> QED  BY <1>0, <1>a, <2>1, WithContIs
<1>2. k \notin m.spent
  BY DEF Sound, CellSound, FreeSound
<1>3. ASSUME NEW c \in Cell PROVE CellShows(s, q, h, c)
  <2>1. /\ CellShows(m, o, g, c) /\ CellSound(m, o, n, a, c) /\ o.of[c] \in Value /\ o.at[c] \in Nat
        /\ KindOf(s, c) = KindOf(m, c)
    BY <1>0 DEF Shows, Sound, Labels, KindOf
  <2>2. CASE c = k
    <3>1. q.role[k] = "object" /\ KindOf(s, k) = CONTINUATION_TYPE
      BY <1>0, <1>2 DEF Suspends, KindOf
    <3> QED  BY <1>1, <2>2, <3>1 DEF CellShows, OnlyCont
  <2>3. CASE c = p
    <3>1. n = 0 => m.env = g.bottom[NIL]
      BY DEF Shows
    <3>2. q.role[p] = "saved" /\ q.of[p] = k
      BY DEF Suspends
    <3> QED  BY <1>1, <2>3, <3>1, <3>2 DEF CellShows, OnlyCont
  <2>4. CASE o.role[c] = "frame" /\ o.of[c] = NIL
    <3>1. q.role[c] = "frame" /\ q.of[c] = k /\ q.at[c] = o.at[c]
      BY <2>4 DEF Suspends
    <3> QED  BY <1>1, <2>1, <2>4, <3>1 DEF CellShows, OnlyCont
  <2>5. CASE c # k /\ c # p /\ ~(o.role[c] = "frame" /\ o.of[c] = NIL)
    <3>1. SameLabel(o, q, c)
      BY <2>5 DEF Suspends
    <3>2. o.role[c] \in {"frame", "saved"} => o.of[c] # NIL /\ o.of[c] # k
      BY <2>1, <2>5, NilAssumption DEF CellSound, SlotSound, SavedSound, IsObject
    <3> QED  BY <1>1, <2>1, <2>5, <3>1, <3>2 DEF CellShows, SameLabel, OnlyCont
  <2> QED  BY <2>2, <2>3, <2>4, <2>5
<1>4. s.env = h.bottom[NIL]
  BY <1>1 DEF OnlyCont
<1> QED  BY <1>1, <1>3, <1>4 DEF Shows, h

\* The running procedure is the one that k had suspended, and k is spent.
WithResumed(g, k) == WithFrame(WithObject(g, k, "spent", g.car[k], NIL), NIL, g.slot[k], g.bottom[k])

\* Everything but k and the frame of the running procedure stays.
OnlyResumed(g, h, k) ==
  /\ h.kind[k] = "spent" /\ h.car = g.car
  /\ \A d \in Cell : d # k => h.kind[d] = g.kind[d] /\ h.cdr[d] = g.cdr[d]
  /\ h.slot[NIL] = g.slot[k] /\ h.bottom[NIL] = g.bottom[k]
  /\ \A j \in Value : j # NIL => h.slot[j] = g.slot[j] /\ h.bottom[j] = g.bottom[j]
  /\ h.saved = g.saved /\ h.arg = g.arg /\ h.rest = g.rest

\* That much is seen to change.
LEMMA WithResumedIs ==
  ASSUME NEW g \in Views, NEW k \in Cell, NEW h, h = WithResumed(g, k)
  PROVE  h \in Views /\ OnlyResumed(g, h, k)
<1>s. PICK slots : slots = g.slot[k]
  OBVIOUS
<1>t. PICK end : end = g.bottom[k]
  OBVIOUS
<1> DEFINE u == WithObject(g, k, "spent", g.car[k], NIL)
<1>0. /\ "spent" \in Kinds /\ NIL \in Value /\ NIL \in Word /\ k \in Value
      /\ slots \in FrameSlots /\ end \in Value /\ g.car[k] \in Value
  BY <1>s, <1>t DEF Kinds, Value, Word, Views, FrameSlots
<1>a. h = WithFrame(u, NIL, slots, end)
  BY <1>s, <1>t DEF WithResumed
<1>b. u = WithObject(g, k, "spent", g.car[k], NIL)
  OBVIOUS
<1> HIDE DEF u
<1>1. /\ u \in Views /\ u.kind[k] = "spent" /\ u.car[k] = g.car[k]
      /\ OnlyObject(g, u, k)
  BY <1>0, <1>b, WithObjectIs
<1>2. u.car = g.car
  <2>1. u.car \in [Cell -> Value] /\ g.car \in [Cell -> Value]
    BY <1>1 DEF Views
  <2>2. \A d \in Cell : u.car[d] = g.car[d]
    BY <1>1 DEF OnlyObject
  <2> QED  BY <2>1, <2>2
<1>3. /\ h \in Views /\ h.slot[NIL] = slots /\ h.bottom[NIL] = end
      /\ OnlyFrame(u, h, NIL)
  BY <1>0, <1>1, <1>a, WithFrameIs
<1> QED  BY <1>1, <1>2, <1>3, <1>s, <1>t DEF OnlyResumed, OnlyObject, OnlyFrame

\* The frame that the continuation held is seen as the running one.
LEMMA ResumeShown ==
  ASSUME NEW m, NEW o, NEW a, Sound(m, o, 0, a), NEW g, Shows(m, o, 0, g),
         NEW k, IsObject(o, k), m.type[k] = CONTINUATION_TYPE, k \notin m.spent,
         NEW s, s.type = m.type, s.car = m.car, s.cdr = m.cdr, s.spent = m.spent \cup {k},
         s.env = m.car[m.cdr[k]],
         NEW q, NEW n, n = m.cdr[m.cdr[k]].slots, Restores(o, q, k, m.cdr[k], n)
  PROVE  /\ Shows(s, q, n, WithResumed(g, k))
         /\ m.cdr[m.cdr[k]] = g.saved[k] /\ m.car[k] = g.car[k] /\ g.kind[k] = CONTINUATION_TYPE
<1> DEFINE h == WithResumed(g, k)
           p == m.cdr[k]
<1>0. g \in Views /\ m \in Machines /\ o \in Labels /\ NIL \in Value /\ k \in Cell
  BY DEF Shows, Sound, Value, IsObject
<1>a. h = WithResumed(g, k)
  OBVIOUS
<1> HIDE DEF h
<1>1. h \in Views /\ OnlyResumed(g, h, k)
  BY <1>0, <1>a, WithResumedIs
<1>2. In(o, p, "saved", k, 0)
  BY <1>0 DEF Sound, CellSound, ObjectSound, IsObject
<1>3. /\ m.cdr[p] = g.saved[k] /\ (n = 0 => m.car[p] = g.bottom[k]) /\ n \in Nat
      /\ m.car[k] = g.car[k] /\ g.kind[k] = CONTINUATION_TYPE /\ n = g.saved[k].slots
  <2>1. CellShows(m, o, g, p) /\ CellShows(m, o, g, k) /\ CellSound(m, o, 0, a, p)
    BY <1>0, <1>2 DEF Shows, In, Sound
  <2>2. m.cdr[p] \in Address
    BY <1>2, <2>1 DEF CellSound, SavedSound, In
  <2>3. m.cdr[p] = g.saved[k]
    BY <1>2, <2>1 DEF CellShows, In
  <2> QED  BY <1>0, <1>2, <2>1, <2>2, <2>3 DEF CellShows, In, IsObject, KindOf, Address
<1> HIDE DEF p
<1>4. ASSUME NEW c \in Cell PROVE CellShows(s, q, h, c)
  <2>1. CellShows(m, o, g, c) /\ CellSound(m, o, 0, a, c) /\ o.of[c] \in Value /\ o.at[c] \in Nat
    BY <1>0 DEF Shows, Sound, Labels
  <2>2. CASE c = p
    BY <2>2 DEF Restores, CellShows, p
  <2>3. CASE o.role[c] = "frame" /\ o.of[c] = k /\ o.at[c] > n
    BY <2>3 DEF Restores, CellShows
  <2>4. CASE o.role[c] = "frame" /\ o.of[c] = k /\ ~(o.at[c] > n)
    <3>1. q.role[c] = "frame" /\ q.of[c] = NIL /\ q.at[c] = o.at[c]
      BY <2>4 DEF Restores
    <3>2. o.at[c] = 1 => g.saved[k].slots # 0
      BY <1>3, <2>4
    <3>3. h.slot[NIL] = g.slot[k] /\ h.bottom[NIL] = g.bottom[k]
      BY <1>1 DEF OnlyResumed
    <3>4. m.car[c] = g.slot[k][o.at[c]] /\ (o.at[c] = 1 => m.cdr[c] = g.bottom[k])
      BY <2>1, <2>4, <3>2 DEF CellShows
    <3>5. /\ s.car[c] = h.slot[q.of[c]][q.at[c]]
          /\ o.at[c] = 1 => s.cdr[c] = h.bottom[q.of[c]]
      BY <3>1, <3>3, <3>4
    <3> QED  BY <3>1, <3>5 DEF CellShows
  <2>5. CASE c # p /\ ~(o.role[c] = "frame" /\ o.of[c] = k)
    <3>1. SameLabel(o, q, c)
      BY <2>5 DEF Restores, p
    <3>2. o.role[c] \in {"frame", "saved"} => o.of[c] # NIL
      BY <2>1, NilAssumption DEF CellSound, SlotSound, SavedSound, IsObject
    <3>3. CASE c = k
      <4>1. o.role[k] = "object" /\ KindOf(s, k) = "spent"
        BY DEF IsObject, KindOf
      <4>2. k \notin ReservedCell /\ s.type[k] = CONTINUATION_TYPE
        BY <2>1, <3>3, <4>1 DEF CellSound, GlobalSound
      <4>3. q.role[k] = "object" /\ m.car[k] = h.car[k]
        BY <1>1, <1>3, <3>1, <3>3, <4>1 DEF SameLabel, OnlyResumed
      <4> QED  BY <1>1, <3>3, <4>1, <4>2, <4>3 DEF CellShows, OnlyResumed
    <3>4. CASE c # k
      <4>1. KindOf(s, c) = KindOf(m, c)
        BY <3>4 DEF KindOf
      <4> QED  BY <1>1, <2>1, <3>1, <3>2, <3>4, <4>1 DEF CellShows, SameLabel, OnlyResumed
    <3> QED  BY <3>3, <3>4
  <2> QED  BY <2>2, <2>3, <2>4, <2>5
<1>5. n = 0 => s.env = h.bottom[NIL]
  BY <1>1, <1>3 DEF p, OnlyResumed
<1> QED  BY <1>1, <1>3, <1>4, <1>5 DEF Shows, h, p

-----------------------------------------------------------------------------
(* The arguments of a call. *)

\* One round of build_environment().
BuildStep(s) == [s EXCEPT !.env = s.cdr[s.env], !.cdr[s.env] = s.reg1, !.reg1 = s.env]

\* One round of build_environment().
LEMMA ArgTaken ==
  ASSUME NEW m, NEW o, NEW n, NEW a, Sound(m, o, n, a), n # 0,
         Chain(m, o, m.reg1, "args", NIL, a), NEW s, s = BuildStep(m)
  PROVE  \E q : /\ Sound(s, q, n - 1, a + 1) /\ Chain(s, q, s.reg1, "args", NIL, a + 1)
                /\ Kept(m, o, s, q)
                /\ In(q, m.env, "args", NIL, a + 1) /\ Stays(m, o, s, q, m.env) /\ s.cont = m.cont
<1> DEFINE p == m.env
           b == [m EXCEPT !.env = m.cdr[p]]
           q1 == Label(o, p, "none", NIL, 0)
           q == Label(q1, p, "args", NIL, a + 1)
<1>0. m \in Machines /\ o \in Labels /\ n \in Nat /\ a \in Nat
  BY DEF Sound
<1>1. /\ p \in Cell /\ o.role[p] = "frame" /\ m.type[p] = CONS_TYPE /\ Ref(o, m.car[p])
      /\ p \notin m.spent /\ Sound(b, q1, n - 1, a) /\ Stays(m, o, b, q1, NIL)
  BY TopTaken
<1>2. q1.role[p] = "none" /\ \A c \in Cell : c # p => SameLabel(o, q1, c)
  <2>1. "none" \in Role /\ NIL \in Value /\ 0 \in Nat
    BY DEF Role, Value
  <2> QED  BY <1>0, <1>1, <2>1, Labelled
<1> HIDE DEF q1
<1>3. /\ q \in Labels /\ q.role[p] = "args" /\ q.of[p] = NIL /\ q.at[p] = a + 1
      /\ \A c \in Cell : c # p => SameLabel(q1, q, c)
  <2>1. q1 \in Labels /\ "args" \in Role /\ NIL \in Value /\ a + 1 \in Nat
    BY <1>0, <1>1 DEF Sound, Role, Value
  <2> QED  BY <1>1, <2>1, Labelled
<1> HIDE DEF q
<1>4. /\ b \in Machines /\ b.type = m.type /\ b.car = m.car /\ b.cdr = m.cdr /\ b.spent = m.spent
      /\ b.free_cells = m.free_cells /\ b.env = m.cdr[p] /\ b.cont = m.cont
  BY <1>0, <1>1 DEF Sound, Machines
<1>5. /\ s \in Machines /\ s.type = m.type /\ s.car = m.car /\ s.spent = m.spent
      /\ s.free_cells = m.free_cells /\ s.env = m.cdr[p] /\ s.cont = m.cont /\ s.reg1 = p
      /\ s.cdr[p] = m.reg1 /\ \A c \in Cell : c # p => s.cdr[c] = m.cdr[c]
  <2>1. p \in Cell /\ m.cdr[p] \in Value /\ p \in Value /\ m.reg1 \in Word
    BY <1>0, <1>1, <1>4 DEF Machines, Word, Value
  <2> HIDE DEF b
  <2> QED  BY <1>0, <2>1 DEF Machines, BuildStep
<1> HIDE DEF b
<1>6. Chain(b, q1, m.reg1, "args", NIL, a) /\ m.reg1 # p
  <2>1. m.reg1 # p
    BY <1>1, NilAssumption DEF Chain, ListRef, IsObject, In
  <2> QED  BY <1>2, <1>4, <2>1, ChainKept
<1>7. Chain(s, q, m.reg1, "args", NIL, a)
  BY <1>3, <1>4, <1>5, <1>6, ChainKept
<1>8. Ref(q1, m.car[p]) /\ m.car[p] # p
  <2>1. m.car[p] # p
    BY <1>1, NilAssumption DEF Ref, IsObject
  <2> QED  BY <1>1, <1>2, <2>1, RefKept
<1>9. Ref(q, s.car[p])
  BY <1>3, <1>5, <1>8, RefKept
<1>10. p \notin ReservedCell
  BY <1>1, <1>2 DEF Sound, CellSound, GlobalSound
<1>11. CellSound(s, q, n - 1, a + 1, p)
  BY <1>0, <1>1, <1>3, <1>5, <1>7, <1>9, <1>10
  DEF CellSound, GlobalSound, ObjectSound, SlotSound, SavedSound, FreeSound
<1>12. Chain(s, q, s.env, "frame", NIL, n - 1) /\ Ref(q, s.cont)
  <2>1. Chain(b, q1, b.env, "frame", NIL, n - 1) /\ Ref(q1, b.cont)
    BY <1>1 DEF Sound
  <2>2. b.env # p /\ b.cont # p
    BY <1>1, <1>2, <2>1, NilAssumption DEF Chain, ListRef, IsObject, In, Ref
  <2> QED  BY <1>3, <1>4, <1>5, <2>1, <2>2, ChainKept, RefKept
<1>13. \A c \in Cell : ~(q.role[p] = q1.role[c] /\ q.of[p] = q1.of[c] /\ q.at[p] = q1.at[c])
  BY <1>0, <1>1, <1>3 DEF Sound, CellSound, SlotSound
<1>14. /\ \A c \in Cell : c # p /\ q1.role[c] = "free"
                          => s.free_cells # NIL /\ q1.at[c] <= q.at[s.free_cells]
       /\ s.free_cells # NIL => q.role[s.free_cells] = "free"
  <2>1. /\ \A c \in Cell : q1.role[c] = "free" => b.free_cells # NIL /\ q1.at[c] <= q1.at[b.free_cells]
        /\ b.free_cells # NIL => b.free_cells \in Cell /\ q1.role[b.free_cells] = "free"
    BY <1>1, <1>4 DEF Sound, CellSound, FreeSound, Machines, Value
  <2> QED  BY <1>2, <1>3, <1>4, <1>5, <2>1 DEF SameLabel
<1>15. Sound(s, q, n - 1, a + 1)
  <2>1. n - 1 \in Nat /\ a + 1 \in Nat /\ n - 1 <= n - 1 /\ a <= a + 1
    BY <1>0
  <2>2. \A c \in Cell : c # p => /\ SameLabel(q1, q, c) /\ s.type[c] = b.type[c]
                                 /\ s.car[c] = b.car[c] /\ s.cdr[c] = b.cdr[c]
                                 /\ (c \in s.spent <=> c \in b.spent)
    BY <1>3, <1>4, <1>5
  <2> QED  BY <1>1, <1>2, <1>3, <1>5, <1>11, <1>12, <1>13, <1>14, <2>1, <2>2, OneCell
<1>16. Chain(s, q, s.reg1, "args", NIL, a + 1)
  BY <1>0, <1>1, <1>3, <1>5 DEF Chain, In
<1>17. Kept(m, o, s, q)
  BY <1>1, <1>2, <1>3, <1>5 DEF Kept, SameLabel
<1>18. Stays(b, q1, s, q, p)
  BY <1>3, <1>4, <1>5 DEF Stays
<1>19. Stays(m, o, s, q, p) /\ In(q, p, "args", NIL, a + 1)
  BY <1>1, <1>3, <1>18, StaysTransitive DEF In, b
<1> QED  BY <1>5, <1>15, <1>16, <1>17, <1>19

\* The slot on top is seen as an argument.
LEMMA ArgShown ==
  ASSUME NEW m, NEW o, NEW n, NEW a, Sound(m, o, n, a), n # 0, NEW g, Shows(m, o, n, g),
         a = 0 => m.reg1 = g.rest, NEW s, s = BuildStep(m),
         NEW q, In(q, m.env, "args", NIL, a + 1), Stays(m, o, s, q, m.env)
  PROVE  Shows(s, q, n - 1, WithArgs(g, n, a, 1))
<1>1. /\ m.env \in Cell /\ m.car[m.env] = g.slot[NIL][n] /\ (n = 1 => m.cdr[m.env] = g.bottom[NIL])
      /\ n \in Nat /\ a \in Nat /\ m \in Machines /\ g \in Views /\ o \in Labels
  BY TopShown DEF TopOf, Sound, Shows
<1>2. PICK h : h = WithArgs(g, n, a, 1)
  OBVIOUS
<1>3. h \in Views /\ OnlyArgs(g, h, n, a, 1)
  <2>1. 1 \in Nat /\ 1 <= n
    BY <1>1
  <2> QED  BY <1>1, <1>2, <2>1, WithArgsIs
<1>4. h.arg[a + 1] = g.slot[NIL][n] /\ \A j \in 1 .. a : h.arg[j] = g.arg[j]
  <2>1. a + 1 \in a + 1 .. a + 1 /\ a + 1 \in Nat /\ n - ((a + 1) - a) + 1 = n
    BY <1>1
  <2>2. \A j \in 1 .. a : j \in Nat /\ j \notin a + 1 .. a + 1
    BY <1>1
  <2> QED  BY <1>3, <2>1, <2>2 DEF OnlyArgs
<1>5. /\ s.env = m.cdr[m.env] /\ s.car = m.car /\ s.cdr[m.env] = m.reg1
  BY <1>1 DEF BuildStep, Machines
<1>6. CellShows(s, q, h, m.env)
  <2>1. q.role[m.env] = "args" /\ q.at[m.env] = a + 1
    BY DEF In
  <2>2. a + 1 = 1 => s.cdr[m.env] = h.rest
    BY <1>1, <1>3, <1>5 DEF OnlyArgs
  <2> QED  BY <1>1, <1>4, <1>5, <2>1, <2>2 DEF CellShows
<1>7. ASSUME NEW c \in Cell PROVE CellShows(m, o, h, c)
  <2>1. CellShows(m, o, g, c)
    BY DEF Shows
  <2>2. o.role[c] = "args" => h.arg[o.at[c]] = g.arg[o.at[c]]
    <3>1. ASSUME o.role[c] = "args" PROVE o.at[c] \in 1 .. a
      BY <1>1, <3>1 DEF Sound, CellSound, SlotSound, Labels
    <3> QED  BY <1>4, <3>1
  <2> QED  BY <1>3, <2>1, <2>2 DEF CellShows, OnlyArgs
<1>8. n - 1 = 0 => s.env = h.bottom[NIL]
  BY <1>1, <1>3, <1>5 DEF OnlyArgs
<1> QED  BY <1>2, <1>3, <1>6, <1>7, <1>8, ShowsBut

\* One round of the loop of prepare_arguments().
RestStep(s) == [s EXCEPT !.env = s.cdr[s.env], !.cdr[s.env] = s.reg3, !.reg3 = s.env]

\* One round of the loop of prepare_arguments().
LEMMA RestTaken ==
  ASSUME NEW m, NEW o, NEW n, NEW a, Sound(m, o, n, a), n # 0,
         ListRef(m, o, m.reg3), NEW s, s = RestStep(m)
  PROVE  \E q : /\ Sound(s, q, n - 1, a) /\ ListRef(s, q, s.reg3) /\ Kept(m, o, s, q)
                /\ IsObject(q, m.env) /\ Stays(m, o, s, q, m.env) /\ s.cont = m.cont
<1> DEFINE p == m.env
           b == [m EXCEPT !.env = m.cdr[p]]
           q1 == Label(o, p, "none", NIL, 0)
           q == Label(q1, p, "object", NIL, 0)
<1>0. m \in Machines /\ o \in Labels /\ n \in Nat /\ a \in Nat /\ NIL \in Value /\ 0 \in Nat
  BY DEF Sound, Value
<1>1. /\ p \in Cell /\ o.role[p] = "frame" /\ m.type[p] = CONS_TYPE /\ Ref(o, m.car[p])
      /\ p \notin m.spent /\ Sound(b, q1, n - 1, a) /\ Stays(m, o, b, q1, NIL)
  BY TopTaken
<1>2. q1.role[p] = "none" /\ \A c \in Cell : c # p => SameLabel(o, q1, c)
  <2>1. "none" \in Role
    BY DEF Role
  <2> QED  BY <1>0, <1>1, <2>1, Labelled
<1> HIDE DEF q1
<1>3. /\ q \in Labels /\ q.role[p] = "object"
      /\ \A c \in Cell : c # p => SameLabel(q1, q, c)
  <2>1. q1 \in Labels /\ "object" \in Role
    BY <1>1 DEF Sound, Role
  <2> QED  BY <1>0, <1>1, <2>1, Labelled
<1> HIDE DEF q
<1>4. /\ b \in Machines /\ b.type = m.type /\ b.car = m.car /\ b.cdr = m.cdr /\ b.spent = m.spent
      /\ b.free_cells = m.free_cells /\ b.env = m.cdr[p] /\ b.cont = m.cont
  BY <1>0, <1>1 DEF Sound, Machines
<1>5. /\ s \in Machines /\ s.type = m.type /\ s.car = m.car /\ s.spent = m.spent
      /\ s.free_cells = m.free_cells /\ s.env = m.cdr[p] /\ s.cont = m.cont /\ s.reg3 = p
      /\ s.cdr[p] = m.reg3 /\ \A c \in Cell : c # p => s.cdr[c] = m.cdr[c]
  <2>1. p \in Cell /\ m.cdr[p] \in Value /\ p \in Value /\ m.reg3 \in Word
    BY <1>0, <1>1, <1>4 DEF Machines, Word, Value
  <2> HIDE DEF b
  <2> QED  BY <1>0, <2>1 DEF Machines, RestStep
<1> HIDE DEF b
<1>6. /\ \A v : Ref(o, v) => Ref(q, v)
      /\ Ref(o, m.reg3)
  BY <1>1, <1>2, <1>3 DEF Ref, ListRef, IsObject, SameLabel
<1>7. p \notin ReservedCell
  BY <1>1, <1>2 DEF Sound, CellSound, GlobalSound
<1>8. CellSound(s, q, n - 1, a, p)
  BY <1>1, <1>3, <1>5, <1>6, <1>7
  DEF CellSound, GlobalSound, ObjectSound, SlotSound, SavedSound, FreeSound,
    CONS_TYPE, CLOSURE_TYPE, CONTINUATION_TYPE, STRING_TYPE
<1>9. Chain(s, q, s.env, "frame", NIL, n - 1) /\ Ref(q, s.cont)
  <2>1. Chain(b, q1, b.env, "frame", NIL, n - 1) /\ Ref(q1, b.cont)
    BY <1>1 DEF Sound
  <2>2. b.env # p /\ b.cont # p
    BY <1>1, <1>2, <2>1, NilAssumption DEF Chain, ListRef, IsObject, In, Ref
  <2> QED  BY <1>3, <1>4, <1>5, <2>1, <2>2, ChainKept, RefKept
<1>10. /\ \A c \in Cell : c # p /\ q1.role[c] = "free"
                          => s.free_cells # NIL /\ q1.at[c] <= q.at[s.free_cells]
       /\ s.free_cells # NIL => q.role[s.free_cells] = "free"
  <2>1. /\ \A c \in Cell : q1.role[c] = "free" => b.free_cells # NIL /\ q1.at[c] <= q1.at[b.free_cells]
        /\ b.free_cells # NIL => b.free_cells \in Cell /\ q1.role[b.free_cells] = "free"
    BY <1>1, <1>4 DEF Sound, CellSound, FreeSound, Machines, Value
  <2> QED  BY <1>2, <1>3, <1>4, <1>5, <2>1 DEF SameLabel
<1>11. Sound(s, q, n - 1, a)
  <2>1. n - 1 \in Nat /\ n - 1 <= n - 1 /\ a <= a
    BY <1>0
  <2>2. \A c \in Cell : c # p => /\ SameLabel(q1, q, c) /\ s.type[c] = b.type[c]
                                 /\ s.car[c] = b.car[c] /\ s.cdr[c] = b.cdr[c]
                                 /\ (c \in s.spent <=> c \in b.spent)
    BY <1>3, <1>4, <1>5
  <2> QED  BY <1>0, <1>1, <1>2, <1>3, <1>5, <1>8, <1>9, <1>10, <2>1, <2>2, OneCell
<1>12. ListRef(s, q, s.reg3)
  BY <1>1, <1>3, <1>5 DEF ListRef, IsObject
<1>13. Kept(m, o, s, q)
  BY <1>1, <1>2, <1>3, <1>5 DEF Kept, SameLabel
<1>14. Stays(b, q1, s, q, p)
  BY <1>3, <1>4, <1>5 DEF Stays
<1>15. Stays(m, o, s, q, p) /\ IsObject(q, p)
  BY <1>1, <1>3, <1>14, StaysTransitive DEF IsObject, b
<1> QED  BY <1>5, <1>11, <1>12, <1>13, <1>15

\* The slot on top is seen as the head of the list in reg3.
LEMMA RestShown ==
  ASSUME NEW m, NEW o, NEW n, NEW a, Sound(m, o, n, a), n # 0, NEW g, Shows(m, o, n, g),
         NEW s, s = RestStep(m), NEW q, IsObject(q, m.env), Stays(m, o, s, q, m.env)
  PROVE  Shows(s, q, n - 1, WithObject(g, m.env, CONS_TYPE, g.slot[NIL][n], m.reg3))
<1>1. /\ m.env \in Cell /\ m.car[m.env] = g.slot[NIL][n] /\ (n = 1 => m.cdr[m.env] = g.bottom[NIL])
      /\ n \in Nat /\ m \in Machines /\ g \in Views /\ q.role[m.env] = "object"
  BY TopShown DEF TopOf, Sound, Shows, IsObject
<1>2. PICK x : x = g.slot[NIL][n]
  OBVIOUS
<1>3. PICK h : h = WithObject(g, m.env, CONS_TYPE, x, m.reg3)
  OBVIOUS
<1>4. h \in Views /\ h.kind[m.env] = CONS_TYPE /\ h.car[m.env] = x /\ h.cdr[m.env] = m.reg3 /\ OnlyObject(g, h, m.env)
  <2>1. CONS_TYPE \in Kinds
    BY DEF Kinds
  <2>2. x \in Value
    BY <1>1, <1>2 DEF Machines
  <2>3. m.reg3 \in Word
    BY <1>1 DEF Machines, Word
  <2> QED  BY <1>1, <1>3, <2>1, <2>2, <2>3, WithObjectIs
<1>5. s.env = m.cdr[m.env] /\ s.car = m.car /\ s.type = m.type /\ s.cdr[m.env] = m.reg3
  BY <1>1 DEF RestStep, Machines
<1>6. CellShows(s, q, h, m.env)
  <2>1. m.type[m.env] = CONS_TYPE
    BY TopTaken
  <2>2. KindOf(s, m.env) = CONS_TYPE
    BY <1>5, <2>1 DEF KindOf, CONS_TYPE, CONTINUATION_TYPE
  <2> QED  BY <1>1, <1>2, <1>4, <1>5, <2>2 DEF CellShows
<1>7. ASSUME NEW c \in Cell, c # m.env PROVE CellShows(m, o, h, c)
  <2>1. CellShows(m, o, g, c)
    BY DEF Shows
  <2> QED  BY <1>4, <1>7, <2>1 DEF CellShows, OnlyObject
<1>8. n - 1 = 0 => s.env = h.bottom[NIL]
  BY <1>1, <1>4, <1>5 DEF OnlyObject
<1> QED  BY <1>2, <1>3, <1>4, <1>6, <1>7, <1>8, ShowsBut

\* The k slots from the top of n slots have become the pairs of a list.
Paired(g, h, ids, n, k) ==
  \A j \in 1 .. k : /\ h.kind[ids[j]] = CONS_TYPE /\ h.car[ids[j]] = g.slot[NIL][n - j + 1]
                    /\ h.cdr[ids[j]] = IF j = 1 THEN NIL ELSE ids[j - 1]
Gathered(g, h, o, ids, n, k, list) ==
  /\ ids \in [1 .. k -> Cell] /\ list = IF k = 0 THEN NIL ELSE ids[k]
  /\ \A j \in 1 .. k : In(o, ids[j], "frame", NIL, n - j + 1)
  /\ Paired(g, h, ids, n, k)
  /\ \A c \in Cell : (\A j \in 1 .. k : ids[j] # c)
       => h.kind[c] = g.kind[c] /\ h.car[c] = g.car[c] /\ h.cdr[c] = g.cdr[c]
  /\ h.slot = g.slot /\ h.bottom = g.bottom
  /\ h.saved = g.saved /\ h.arg = g.arg /\ h.rest = g.rest

\* One pair more.
LEMMA OneMoreGathered ==
  ASSUME NEW g \in Views, NEW h \in Views, NEW o, NEW ids, NEW n \in Nat, NEW k \in Nat, k < n, NEW list,
         Gathered(g, h, o, ids, n, k, list), NEW c, In(o, c, "frame", NIL, n - k),
         NEW u, u = WithObject(h, c, CONS_TYPE, h.slot[NIL][n - k], list)
  PROVE  \E new : Gathered(g, u, o, new, n, k + 1, c)
<1>1. PICK x : x = h.slot[NIL][n - k]
  OBVIOUS
<1>2. PICK new : new = [j \in 1 .. k + 1 |-> IF j = k + 1 THEN c ELSE ids[j]]
  OBVIOUS
<1>3. /\ c \in Cell /\ n - k \in Nat /\ x \in Value /\ list \in Value /\ list \in Word
      /\ x = g.slot[NIL][n - k]
  <2>1. c \in Cell /\ n - k \in Nat
    BY DEF In
  <2>2. list \in Value
    BY DEF Gathered, Value
  <2> QED  BY <1>1, <2>1, <2>2 DEF Word, Value, Views, Gathered
<1>4. u \in Views /\ u.kind[c] = CONS_TYPE /\ u.car[c] = x /\ u.cdr[c] = list /\ OnlyObject(h, u, c)
  <2>1. CONS_TYPE \in Kinds
    BY DEF Kinds
  <2>2. u = WithObject(h, c, CONS_TYPE, x, list)
    BY <1>1
  <2> QED  BY <1>3, <2>1, <2>2, WithObjectIs
<1>5. new \in [1 .. k + 1 -> Cell] /\ new[k + 1] = c /\ \A j \in 1 .. k : new[j] = ids[j]
  BY <1>2, <1>3 DEF Gathered
<1>6. \A j \in 1 .. k : ids[j] # c /\ ids[j] \in Cell
  BY DEF Gathered, In
<1>7. \A j \in 1 .. k + 1 : In(o, new[j], "frame", NIL, n - j + 1)
  <2>1. \A j \in 1 .. k : In(o, new[j], "frame", NIL, n - j + 1)
    BY <1>5 DEF Gathered
  <2>2. n - (k + 1) + 1 = n - k
    OBVIOUS
  <2>3. In(o, new[k + 1], "frame", NIL, n - (k + 1) + 1)
    BY <1>5, <2>2
  <2> QED  BY <2>1, <2>3
<1>8. Paired(g, u, new, n, k + 1)
  <2>1. ASSUME NEW j \in 1 .. k
        PROVE  /\ u.kind[new[j]] = CONS_TYPE /\ u.car[new[j]] = g.slot[NIL][n - j + 1]
               /\ u.cdr[new[j]] = IF j = 1 THEN NIL ELSE new[j - 1]
    <3>1. j # 1 => j - 1 \in 1 .. k
      OBVIOUS
    <3>2. /\ h.kind[ids[j]] = CONS_TYPE /\ h.car[ids[j]] = g.slot[NIL][n - j + 1]
          /\ h.cdr[ids[j]] = IF j = 1 THEN NIL ELSE ids[j - 1]
      BY DEF Gathered, Paired
    <3>3. u.kind[ids[j]] = h.kind[ids[j]] /\ u.car[ids[j]] = h.car[ids[j]] /\ u.cdr[ids[j]] = h.cdr[ids[j]]
      BY <1>4, <1>6 DEF OnlyObject
    <3> QED  BY <1>5, <3>1, <3>2, <3>3
  <2>2. /\ u.kind[new[k + 1]] = CONS_TYPE /\ u.car[new[k + 1]] = g.slot[NIL][n - (k + 1) + 1]
        /\ u.cdr[new[k + 1]] = IF k + 1 = 1 THEN NIL ELSE new[(k + 1) - 1]
    <3>1. n - (k + 1) + 1 = n - k /\ (k + 1) - 1 = k /\ (k + 1 = 1 <=> k = 0) /\ (k # 0 => k \in 1 .. k)
      OBVIOUS
    <3>2. list = IF k = 0 THEN NIL ELSE ids[k]
      BY DEF Gathered
    <3> QED  BY <1>3, <1>4, <1>5, <3>1, <3>2
  <2>3. \A j \in 1 .. k + 1 : j = k + 1 \/ j \in 1 .. k
    OBVIOUS
  <2> QED  BY <2>1, <2>2, <2>3 DEF Paired
<1>9. ASSUME NEW d \in Cell, \A j \in 1 .. k + 1 : new[j] # d
      PROVE  u.kind[d] = g.kind[d] /\ u.car[d] = g.car[d] /\ u.cdr[d] = g.cdr[d]
  <2>1. d # c
    BY <1>5, <1>9
  <2>2. \A j \in 1 .. k : ids[j] # d
    BY <1>5, <1>9
  <2>3. h.kind[d] = g.kind[d] /\ h.car[d] = g.car[d] /\ h.cdr[d] = g.cdr[d]
    BY <2>2 DEF Gathered
  <2> QED  BY <1>4, <2>1, <2>3 DEF OnlyObject
<1>10. /\ u.slot = g.slot /\ u.bottom = g.bottom
       /\ u.saved = g.saved /\ u.arg = g.arg /\ u.rest = g.rest
  BY <1>4 DEF OnlyObject, Gathered
<1>11. c = IF k + 1 = 0 THEN NIL ELSE new[k + 1]
  BY <1>5
<1> QED
  <2>1. PICK i : i = k + 1
    OBVIOUS
  <2>2. /\ new \in [1 .. i -> Cell] /\ c = IF i = 0 THEN NIL ELSE new[i]
        /\ \A j \in 1 .. i : In(o, new[j], "frame", NIL, n - j + 1)
        /\ Paired(g, u, new, n, i)
    BY <1>5, <1>7, <1>8, <1>11, <2>1
  <2>3. \A d \in Cell : (\A j \in 1 .. i : new[j] # d)
          => u.kind[d] = g.kind[d] /\ u.car[d] = g.car[d] /\ u.cdr[d] = g.cdr[d]
    BY <1>9, <2>1
  <2>4. Gathered(g, u, o, new, n, i, c)
    BY <1>10, <2>2, <2>3 DEF Gathered
  <2> QED  BY <2>1, <2>4

\* build_environment()
LEMMA EnvironmentBuilt ==
  ASSUME NEW m, NEW o, NEW n, NEW a, Sound(m, o, n, a), Chain(m, o, m.reg1, "args", NIL, a),
         NEW w, Shows(m, o, n, w), a = 0 => m.reg1 = w.rest,
         NEW k \in Nat, k <= n, NEW s, s = build_environment(m, k)
  PROVE  /\ \E q : /\ Sound(s, q, n - k, a + k) /\ Chain(s, q, s.reg1, "args", NIL, a + k)
                   /\ Kept(m, o, s, q) /\ Shows(s, q, n - k, WithArgs(w, n, a, k))
         /\ (a + k = 0 => s.reg1 = w.rest) /\ s.cont = m.cont
<1> DEFINE Seen(t, q, i) == /\ t.cont = m.cont /\ Shows(t, q, n - i, WithArgs(w, n, a, i))
                            /\ a + i = 0 => t.reg1 = w.rest
           Loop(g) == [i \in 0 .. k |-> IF i = 0 THEN m ELSE BuildStep(g[i - 1])]
           Good(i) == {t \in Machines : \E q : /\ Sound(t, q, n - i, a + i)
                                               /\ Chain(t, q, t.reg1, "args", NIL, a + i)
                                               /\ Kept(m, o, t, q) /\ Seen(t, q, i)}
           step == [t \in Machines |-> IF BuildStep(t) \in Machines THEN BuildStep(t) ELSE t]
<1>0. m \in Machines /\ n \in Nat /\ a \in Nat
  BY DEF Sound
<1>1. m \in Good(0)
  <2>1. n - 0 = n /\ a + 0 = a
    BY <1>0
  <2>2. Kept(m, o, m, o)
    BY DEF Kept, SameLabel
  <2>3. WithArgs(w, n, a, 0) = w
    BY <1>0, WithArgsStep DEF Shows
  <2>4. Seen(m, o, 0)
    BY <2>1, <2>3
  <2> HIDE DEF Seen
  <2> QED  BY <1>0, <2>1, <2>2, <2>4
<1>2. ASSUME NEW i \in 0 .. k - 1, NEW t \in Good(i) PROVE BuildStep(t) \in Good(i + 1)
  <2>1. PICK q1 : /\ Sound(t, q1, n - i, a + i) /\ Chain(t, q1, t.reg1, "args", NIL, a + i)
                  /\ Kept(m, o, t, q1) /\ Seen(t, q1, i)
    <3> HIDE DEF Seen
    <3> QED  OBVIOUS
  <2>2. n - i # 0 /\ (n - i) - 1 = n - (i + 1) /\ (a + i) + 1 = a + (i + 1)
    BY <1>0
  <2>3. PICK q : /\ Sound(BuildStep(t), q, (n - i) - 1, (a + i) + 1)
                 /\ Chain(BuildStep(t), q, BuildStep(t).reg1, "args", NIL, (a + i) + 1)
                 /\ Kept(t, q1, BuildStep(t), q)
                 /\ In(q, t.env, "args", NIL, (a + i) + 1) /\ Stays(t, q1, BuildStep(t), q, t.env)
                 /\ BuildStep(t).cont = t.cont
    BY <2>1, <2>2, ArgTaken
  <2>4. Kept(m, o, BuildStep(t), q)
    BY <2>1, <2>3, KeptTransitive
  <2>5. BuildStep(t) \in Machines
    BY <2>3 DEF Sound
  <2>6. Seen(BuildStep(t), q, i + 1)
    <3>1. PICK v : v = WithArgs(w, n, a, i)
      OBVIOUS
    <3>2. Shows(t, q1, n - i, v) /\ v.rest = w.rest /\ i \in Nat /\ i <= n /\ w \in Views
      <4>1. i \in Nat /\ i <= n /\ w \in Views
        BY <1>0 DEF Shows
      <4>2. OnlyArgs(w, v, n, a, i)
        BY <1>0, <3>1, <4>1, WithArgsIs
      <4> QED  BY <2>1, <3>1, <4>1, <4>2 DEF OnlyArgs
    <3>3. a + i = 0 => t.reg1 = v.rest
      BY <2>1, <3>2
    <3>4. PICK b : b = BuildStep(t)
      OBVIOUS
    <3>5. Shows(b, q, (n - i) - 1, WithArgs(v, n - i, a + i, 1))
      BY <2>1, <2>2, <2>3, <3>2, <3>3, <3>4, ArgShown
    <3>6. WithArgs(v, n - i, a + i, 1) = WithArgs(w, n, a, i + 1)
      BY <1>0, <3>1, <3>2, WithArgsStep
    <3>7. a + (i + 1) # 0
      BY <1>0
    <3> QED  BY <2>1, <2>2, <2>3, <3>4, <3>5, <3>6, <3>7
  <2> HIDE DEF step, Loop, Seen
  <2> QED  BY <2>2, <2>3, <2>4, <2>5, <2>6
<1> HIDE DEF Good
<1>3. \A i \in 0 .. k : Good(i) \subseteq Machines
  BY DEF Good
<1>4. PICK g \in [0 .. k -> Machines] : IsLoop(g, m, step, k)
  <2>1. step \in [Machines -> Machines] /\ m \in Machines
    BY <1>1, <1>3
  <2> HIDE DEF step
  <2> QED  BY <2>1, Rounds
<1>5. \A i \in 0 .. k : g[i] \in Good(i)
  <2> DEFINE R == {i \in 0 .. k : g[i] \in Good(i)}
  <2>1. 0 \in R
    BY <1>1, <1>4 DEF IsLoop
  <2>2. ASSUME NEW i \in 0 .. k - 1, i \in R PROVE i + 1 \in R
    <3>0. (i + 1) - 1 = i /\ i \in 0 .. k /\ i + 1 \in 0 .. k /\ i + 1 \in 1 .. k
      OBVIOUS
    <3>1. g[i + 1] = step[g[(i + 1) - 1]]
      <4> HIDE DEF step
      <4> QED  BY <1>4, <3>0 DEF IsLoop
    <3>2. BuildStep(g[i]) \in Good(i + 1) /\ BuildStep(g[i]) \in Machines /\ g[i] \in Machines
      BY <1>2, <1>3, <2>2, <3>0
    <3>3. step[g[i]] = BuildStep(g[i])
      BY <3>2
    <3> QED  BY <3>0, <3>1, <3>2, <3>3
  <2> HIDE DEF R
  <2>3. \A i \in 0 .. k : i \in R
    BY <2>1, <2>2, EveryRoundTo
  <2> QED  BY <2>3 DEF R
<1>6. g = Loop(g)
  <2>1. ASSUME NEW i \in 1 .. k PROVE g[i] = BuildStep(g[i - 1])
    <3>1. i - 1 \in 0 .. k - 1 /\ (i - 1) + 1 = i /\ i - 1 \in 0 .. k
      OBVIOUS
    <3>2. g[i] = step[g[i - 1]]
      BY <1>4 DEF IsLoop
    <3>3. BuildStep(g[i - 1]) \in Machines /\ g[i - 1] \in Machines
      <4>1. g[i - 1] \in Good(i - 1)
        BY <1>5, <3>1
      <4>2. BuildStep(g[i - 1]) \in Good((i - 1) + 1)
        BY <1>2, <3>1, <4>1
      <4> QED  BY <1>3, <3>1, <4>1, <4>2
    <3> QED  BY <3>2, <3>3
  <2>2. g[0] = m
    BY <1>4 DEF IsLoop
  <2>3. \A i \in 0 .. k : g[i] = IF i = 0 THEN m ELSE BuildStep(g[i - 1])
    BY <2>1, <2>2
  <2> QED  BY <2>3
<1> DEFINE f == CHOOSE h : h = Loop(h)
<1>7. f = Loop(f)
  BY <1>6
<1>8. \A i \in 0 .. k : f[i] = IF i = 0 THEN m ELSE BuildStep(f[i - 1])
  <2> HIDE DEF f
  <2>1. \A i \in 0 .. k : Loop(f)[i] = IF i = 0 THEN m ELSE BuildStep(f[i - 1])
    OBVIOUS
  <2> HIDE DEF Loop
  <2> QED  BY <1>7, <2>1
<1>9. \A i \in 0 .. k : f[i] \in Good(i)
  <2> HIDE DEF f, Loop
  <2> DEFINE R == {i \in 0 .. k : f[i] \in Good(i)}
  <2>1. 0 \in R
    BY <1>1, <1>8
  <2>2. ASSUME NEW i \in 0 .. k - 1, i \in R PROVE i + 1 \in R
    <3>1. f[i + 1] = BuildStep(f[(i + 1) - 1]) /\ (i + 1) - 1 = i /\ i + 1 \in 0 .. k
      BY <1>8
    <3> QED  BY <1>2, <2>2, <3>1
  <2> HIDE DEF R
  <2>3. \A i \in 0 .. k : i \in R
    BY <2>1, <2>2, EveryRoundTo
  <2> QED  BY <2>3 DEF R
<1>10. s = [f[k] EXCEPT !.reg2 = NIL]
  BY DEF build_environment, BuildStep
<1>11. f[k] \in Good(k)
  BY <1>9
<1> HIDE DEF f
<1>12. PICK q : /\ Sound(f[k], q, n - k, a + k) /\ Chain(f[k], q, f[k].reg1, "args", NIL, a + k)
                /\ Kept(m, o, f[k], q) /\ Seen(f[k], q, k)
  <2> HIDE DEF Seen
  <2> QED  BY <1>11 DEF Good
<1> DEFINE b == f[k]
<1>13. b \in Machines /\ Ref(q, b.cont) /\ Sound(b, q, n - k, a + k)
  BY <1>12 DEF Sound
<1>14. /\ s \in Machines /\ s.type = b.type /\ s.car = b.car /\ s.cdr = b.cdr /\ s.env = b.env
       /\ s.free_cells = b.free_cells /\ s.cont = b.cont /\ s.spent = b.spent /\ s.reg1 = b.reg1
  <2>1. NIL \in Value /\ s = [b EXCEPT !.reg2 = NIL]
    BY <1>10 DEF Value
  <2> HIDE DEF b
  <2> QED  BY <1>13, <2>1 DEF Machines
<1>15. Sound(s, q, n - k, a + k)
  <2> HIDE DEF b
  <2> QED  BY <1>13, <1>14, RegistersSet
<1>16. Chain(s, q, s.reg1, "args", NIL, a + k)
  BY <1>12, <1>14 DEF Chain, ListRef
<1>17. Kept(m, o, s, q)
  BY <1>12, <1>14 DEF Kept
<1>18. Shows(s, q, n - k, WithArgs(w, n, a, k)) /\ (a + k = 0 => s.reg1 = w.rest) /\ s.cont = m.cont
  <2>1. Shows(b, q, n - k, WithArgs(w, n, a, k)) /\ (a + k = 0 => b.reg1 = w.rest) /\ b.cont = m.cont
    BY <1>12
  <2> HIDE DEF b
  <2> QED  BY <1>14, <2>1 DEF Shows, CellShows, KindOf
<1> QED  BY <1>15, <1>16, <1>17, <1>18

\* The loop of prepare_arguments().
LEMMA RestListed ==
  ASSUME NEW m, NEW o, NEW n, NEW a, Sound(m, o, n, a),
         NEW w, Shows(m, o, n, w), NEW k \in Nat, k <= n, NEW s, s = RestList(m, k)
  PROVE  \E q, h, ids : /\ Sound(s, q, n - k, a) /\ ListRef(s, q, s.reg3) /\ Kept(m, o, s, q)
                        /\ Shows(s, q, n - k, h) /\ Gathered(w, h, o, ids, n, k, s.reg3)
                        /\ s.cont = m.cont
<1> DEFINE Loop(g) == [i \in 0 .. k |-> IF i = 0 THEN [m EXCEPT !.reg3 = NIL] ELSE RestStep(g[i - 1])]
           Seen(t, q, i, h, ids) ==
             /\ t.cont = m.cont /\ Shows(t, q, n - i, h) /\ Gathered(w, h, o, ids, n, i, t.reg3)
             /\ \A c \in Cell : q.role[c] = "frame" /\ q.of[c] = NIL => SameLabel(o, q, c)
           Good(i) == {t \in Machines : \E q, h, ids : /\ Sound(t, q, n - i, a) /\ ListRef(t, q, t.reg3)
                                                       /\ Kept(m, o, t, q) /\ Seen(t, q, i, h, ids)}
           step == [t \in Machines |-> IF RestStep(t) \in Machines THEN RestStep(t) ELSE t]
<1>0. m \in Machines /\ n \in Nat /\ a \in Nat
  BY DEF Sound
<1>1. [m EXCEPT !.reg3 = NIL] \in Good(0)
  <2> DEFINE t == [m EXCEPT !.reg3 = NIL]
  <2>1. n - 0 = n /\ NIL \in Value
    BY <1>0 DEF Value
  <2>2. /\ t \in Machines /\ t.type = m.type /\ t.car = m.car /\ t.cdr = m.cdr /\ t.env = m.env
        /\ t.free_cells = m.free_cells /\ t.cont = m.cont /\ t.spent = m.spent /\ t.reg3 = NIL
    BY <1>0, <2>1 DEF Machines
  <2>3. Ref(o, t.cont)
    BY <2>2 DEF Sound
  <2> HIDE DEF t
  <2>4. Sound(t, o, n, a) /\ ListRef(t, o, t.reg3) /\ Kept(m, o, t, o)
    BY <2>2, <2>3, RegistersSet DEF ListRef, Kept, SameLabel
  <2>5. PICK ids : ids = [j \in 1 .. 0 |-> NIL]
    OBVIOUS
  <2>6. Gathered(w, w, o, ids, n, 0, NIL)
    BY <2>5 DEF Gathered, Paired
  <2>7. Shows(t, o, n, w)
    BY <2>2 DEF Shows, CellShows, KindOf
  <2>8. Seen(t, o, 0, w, ids)
    BY <2>1, <2>2, <2>6, <2>7 DEF SameLabel
  <2> HIDE DEF Seen
  <2>9. t \in Good(0)
    BY <2>1, <2>2, <2>4, <2>8
  <2> QED  BY <2>9 DEF t
<1>2. ASSUME NEW i \in 0 .. k - 1, NEW t \in Good(i) PROVE RestStep(t) \in Good(i + 1)
  <2>1. PICK q1, v, ids : /\ Sound(t, q1, n - i, a) /\ ListRef(t, q1, t.reg3) /\ Kept(m, o, t, q1)
                          /\ Seen(t, q1, i, v, ids)
    <3> HIDE DEF Seen
    <3> QED  OBVIOUS
  <2>2. n - i # 0 /\ (n - i) - 1 = n - (i + 1)
    BY <1>0
  <2>3. PICK q : /\ Sound(RestStep(t), q, (n - i) - 1, a) /\ ListRef(RestStep(t), q, RestStep(t).reg3)
                 /\ Kept(t, q1, RestStep(t), q)
                 /\ IsObject(q, t.env) /\ Stays(t, q1, RestStep(t), q, t.env)
                 /\ RestStep(t).cont = t.cont
    BY <2>1, <2>2, RestTaken
  <2>4. Kept(m, o, RestStep(t), q)
    BY <2>1, <2>3, KeptTransitive
  <2>5. RestStep(t) \in Machines
    BY <2>3 DEF Sound
  <2>6. \E u, new : Seen(RestStep(t), q, i + 1, u, new)
    <3>1. PICK b : b = RestStep(t)
      OBVIOUS
    <3>2. PICK u : u = WithObject(v, t.env, CONS_TYPE, v.slot[NIL][n - i], t.reg3)
      OBVIOUS
    <3>3. /\ Shows(t, q1, n - i, v) /\ Gathered(w, v, o, ids, n, i, t.reg3)
          /\ i \in Nat /\ i < n /\ w \in Views /\ v \in Views
      BY <1>0, <2>1 DEF Shows
    <3>4. Shows(b, q, (n - i) - 1, u)
      BY <2>1, <2>2, <2>3, <3>1, <3>2, <3>3, RestShown
    <3>5. t.env \in Cell /\ In(q1, t.env, "frame", NIL, n - i)
      BY <2>1, <2>2 DEF Sound, Chain, In
    <3>6. In(o, t.env, "frame", NIL, n - i)
      BY <2>1, <3>5 DEF In, SameLabel
    <3>7. PICK new : Gathered(w, u, o, new, n, i + 1, t.env)
      BY <1>0, <3>2, <3>3, <3>6, OneMoreGathered
    <3>8. b.reg3 = t.env
      BY <2>1, <3>1 DEF RestStep, Sound, Machines
    <3>9. ASSUME NEW c \in Cell, q.role[c] = "frame", q.of[c] = NIL PROVE SameLabel(o, q, c)
      <4>1. c # t.env
        BY <2>3, <3>9 DEF IsObject
      <4>2. SameLabel(q1, q, c)
        BY <2>3, <3>9, <4>1 DEF Stays
      <4> QED  BY <2>1, <3>9, <4>2 DEF SameLabel
    <3>10. Seen(b, q, i + 1, u, new)
      BY <2>1, <2>2, <2>3, <3>1, <3>4, <3>7, <3>8, <3>9
    <3> HIDE DEF Seen
    <3> QED  BY <3>1, <3>10
  <2> HIDE DEF step, Loop, Seen
  <2> QED  BY <2>2, <2>3, <2>4, <2>5, <2>6
<1> HIDE DEF Good
<1>3. \A i \in 0 .. k : Good(i) \subseteq Machines
  BY DEF Good
<1>4. PICK g \in [0 .. k -> Machines] : IsLoop(g, [m EXCEPT !.reg3 = NIL], step, k)
  <2>1. step \in [Machines -> Machines] /\ [m EXCEPT !.reg3 = NIL] \in Machines
    BY <1>1, <1>3
  <2> HIDE DEF step
  <2> QED  BY <2>1, Rounds
<1>5. \A i \in 0 .. k : g[i] \in Good(i)
  <2> DEFINE R == {i \in 0 .. k : g[i] \in Good(i)}
  <2>1. 0 \in R
    BY <1>1, <1>4 DEF IsLoop
  <2>2. ASSUME NEW i \in 0 .. k - 1, i \in R PROVE i + 1 \in R
    <3>0. (i + 1) - 1 = i /\ i \in 0 .. k /\ i + 1 \in 0 .. k /\ i + 1 \in 1 .. k
      OBVIOUS
    <3>1. g[i + 1] = step[g[(i + 1) - 1]]
      <4> HIDE DEF step
      <4> QED  BY <1>4, <3>0 DEF IsLoop
    <3>2. RestStep(g[i]) \in Good(i + 1) /\ RestStep(g[i]) \in Machines /\ g[i] \in Machines
      BY <1>2, <1>3, <2>2, <3>0
    <3>3. step[g[i]] = RestStep(g[i])
      BY <3>2
    <3> QED  BY <3>0, <3>1, <3>2, <3>3
  <2> HIDE DEF R
  <2>3. \A i \in 0 .. k : i \in R
    BY <2>1, <2>2, EveryRoundTo
  <2> QED  BY <2>3 DEF R
<1>6. g = Loop(g)
  <2>1. ASSUME NEW i \in 1 .. k PROVE g[i] = RestStep(g[i - 1])
    <3>1. i - 1 \in 0 .. k - 1 /\ (i - 1) + 1 = i /\ i - 1 \in 0 .. k
      OBVIOUS
    <3>2. g[i] = step[g[i - 1]]
      BY <1>4 DEF IsLoop
    <3>3. RestStep(g[i - 1]) \in Machines /\ g[i - 1] \in Machines
      <4>1. g[i - 1] \in Good(i - 1)
        BY <1>5, <3>1
      <4>2. RestStep(g[i - 1]) \in Good((i - 1) + 1)
        BY <1>2, <3>1, <4>1
      <4> QED  BY <1>3, <3>1, <4>1, <4>2
    <3> QED  BY <3>2, <3>3
  <2>2. g[0] = [m EXCEPT !.reg3 = NIL]
    BY <1>4 DEF IsLoop
  <2>3. \A i \in 0 .. k : g[i] = IF i = 0 THEN [m EXCEPT !.reg3 = NIL] ELSE RestStep(g[i - 1])
    BY <2>1, <2>2
  <2> QED  BY <2>3
<1> DEFINE f == CHOOSE h : h = Loop(h)
<1>7. f = Loop(f)
  BY <1>6
<1>8. \A i \in 0 .. k : f[i] = IF i = 0 THEN [m EXCEPT !.reg3 = NIL] ELSE RestStep(f[i - 1])
  <2> HIDE DEF f
  <2>1. \A i \in 0 .. k : Loop(f)[i] = IF i = 0 THEN [m EXCEPT !.reg3 = NIL] ELSE RestStep(f[i - 1])
    OBVIOUS
  <2> HIDE DEF Loop
  <2> QED  BY <1>7, <2>1
<1>9. \A i \in 0 .. k : f[i] \in Good(i)
  <2> HIDE DEF f, Loop
  <2> DEFINE R == {i \in 0 .. k : f[i] \in Good(i)}
  <2>1. 0 \in R
    BY <1>1, <1>8
  <2>2. ASSUME NEW i \in 0 .. k - 1, i \in R PROVE i + 1 \in R
    <3>1. f[i + 1] = RestStep(f[(i + 1) - 1]) /\ (i + 1) - 1 = i /\ i + 1 \in 0 .. k
      BY <1>8
    <3> QED  BY <1>2, <2>2, <3>1
  <2> HIDE DEF R
  <2>3. \A i \in 0 .. k : i \in R
    BY <2>1, <2>2, EveryRoundTo
  <2> QED  BY <2>3 DEF R
<1>10. s = f[k]
  BY DEF RestList, RestStep
<1>11. f[k] \in Good(k)
  BY <1>9
<1> HIDE DEF f
<1>12. PICK q, h, ids : /\ Sound(s, q, n - k, a) /\ ListRef(s, q, s.reg3) /\ Kept(m, o, s, q)
                        /\ Seen(s, q, k, h, ids)
  <2> HIDE DEF Seen
  <2> QED  BY <1>10, <1>11 DEF Good
<1> QED  BY <1>12

\* A closure on top of the stack is an object with an environment and an entry point.
LEMMA TopIsClosure ==
  ASSUME NEW m, NEW o, NEW n, NEW a, Sound(m, o, n, a), n # 0,
         TopOf(m) \in Cell, m.type[TopOf(m)] = CLOSURE_TYPE
  PROVE  /\ IsObject(o, TopOf(m)) /\ ListRef(m, o, m.car[TopOf(m)])
         /\ m.cdr[TopOf(m)] \in [params : Nat, rest : BOOLEAN]
<1>1. Ref(o, TopOf(m))
  BY TopTaken DEF TopOf
<1>2. IsObject(o, TopOf(m))
  BY <1>1, NilAssumption DEF Ref
<1>3. CellSound(m, o, n, a, TopOf(m))
  BY DEF Sound
<1> QED  BY <1>2, <1>3, VmAssumption DEF CellSound, ObjectSound, IsObject

\* The arguments that stay slots are some of them.
LEMMA FixedIs ==
  ASSUME NEW entry \in [params : Nat, rest : BOOLEAN], NEW k \in Nat
  PROVE  /\ Fixed(entry, k) \in Nat /\ Fixed(entry, k) <= k
         /\ ~entry.rest => Fixed(entry, k) = k
BY DEF Fixed

\* prepare_arguments(): with a rest parameter, its list is an argument.
Rests(entry) == IF entry.rest THEN 1 ELSE 0

\* The list of the rest arguments and the closed variables of the procedure to enter.
WithList(g, x, end) == [g EXCEPT !.arg = [g.arg EXCEPT ![1] = x], !.rest = end]

\* That much is seen to change, before any argument is there.
LEMMA ListShown ==
  ASSUME NEW m, NEW o, NEW n, Sound(m, o, n, 0), NEW g, Shows(m, o, n, g),
         NEW x \in Value, NEW end \in Value, NEW h, h = WithList(g, x, end)
  PROVE  /\ Shows(m, o, n, h) /\ h.arg[1] = x /\ h.rest = end
         /\ h.kind = g.kind /\ h.car = g.car /\ h.cdr = g.cdr
         /\ h.slot = g.slot /\ h.bottom = g.bottom /\ h.saved = g.saved
<1> DEFINE b == [g.arg EXCEPT ![1] = x]
<1>0. 1 \in Nat /\ g \in Views
  BY DEF Shows
<1>1. b \in [Nat -> Value] /\ b[1] = x
  BY <1>0 DEF Views
<1>2. h = [g EXCEPT !.arg = b, !.rest = end]
  BY DEF WithList
<1> HIDE DEF b
<1>3. /\ h \in Views /\ h.arg[1] = x /\ h.rest = end
      /\ h.kind = g.kind /\ h.car = g.car /\ h.cdr = g.cdr
      /\ h.slot = g.slot /\ h.bottom = g.bottom /\ h.saved = g.saved
  BY <1>0, <1>1, <1>2 DEF Views
<1>4. ASSUME NEW c \in Cell PROVE CellShows(m, o, h, c)
  <2>1. CellShows(m, o, g, c) /\ o.role[c] # "args"
    BY DEF Shows, Sound, CellSound, SlotSound, Labels
  <2> QED  BY <1>3, <2>1 DEF CellShows
<1> QED  BY <1>3, <1>4 DEF Shows

\* What the program sees of the arguments, and what prepare_arguments() has added to it.
Readied(g, h, o, ids, n, k, entry, end) ==
  /\ ids \in [1 .. k - Fixed(entry, k) -> Cell]
  /\ \A j \in 1 .. k - Fixed(entry, k) : In(o, ids[j], "frame", NIL, n - j + 1)
  /\ Paired(g, h, ids, n, k - Fixed(entry, k))
  /\ \A c \in Cell : (\A j \in 1 .. k - Fixed(entry, k) : ids[j] # c)
       => h.kind[c] = g.kind[c] /\ h.car[c] = g.car[c] /\ h.cdr[c] = g.cdr[c]
  /\ h.slot = g.slot /\ h.bottom = g.bottom /\ h.saved = g.saved /\ h.rest = end
  /\ entry.rest => h.arg[1] = IF k = Fixed(entry, k) THEN NIL ELSE ids[k - Fixed(entry, k)]

\* prepare_arguments(): the rest list and the environment of the closure.
LEMMA ArgsPrepared ==
  ASSUME NEW m, NEW o, NEW n, Sound(m, o, n, 0), NEW k \in Nat, k < n,
         TopOf(m) \in Cell, m.type[TopOf(m)] = CLOSURE_TYPE,
         NEW entry, entry = m.cdr[TopOf(m)], NEW g, Shows(m, o, n, g),
         NEW s, s = prepare_arguments(m, k)
  PROVE  \E q, h, ids : /\ Sound(s, q, n - 1 - (k - Fixed(entry, k)), Rests(entry))
                        /\ Chain(s, q, s.reg1, "args", NIL, Rests(entry))
                        /\ Shows(s, q, n - 1 - (k - Fixed(entry, k)), h)
                        /\ Rests(entry) = 0 => s.reg1 = h.rest
                        /\ Readied(g, h, o, ids, n - 1, k, entry, m.car[TopOf(m)])
                        /\ s.cont = m.cont
<1> DEFINE p == m.env
           v == m.car[TopOf(m)]
           b == [m EXCEPT !.env = m.cdr[p]]
           q1 == Label(o, p, "none", NIL, 0)
           count == k - Fixed(entry, k)
<1>0. m \in Machines /\ o \in Labels /\ n \in Nat /\ n # 0 /\ NIL \in Value
  BY DEF Sound, Value
<1>1. /\ p \in Cell /\ o.role[p] = "frame" /\ m.type[p] = CONS_TYPE
      /\ p \notin m.spent /\ Sound(b, q1, n - 1, 0) /\ Stays(m, o, b, q1, NIL)
  BY <1>0, TopTaken
<1>2. q1.role[p] = "none" /\ \A c \in Cell : c # p => SameLabel(o, q1, c)
  <2>1. "none" \in Role /\ 0 \in Nat
    BY DEF Role
  <2> QED  BY <1>0, <1>1, <2>1, Labelled
<1> HIDE DEF q1
<1>3. /\ b \in Machines /\ b.type = m.type /\ b.car = m.car /\ b.cdr = m.cdr /\ b.spent = m.spent
      /\ b.free_cells = m.free_cells /\ b.env = m.cdr[p] /\ b.cont = m.cont
  BY <1>0, <1>1 DEF Sound, Machines
<1>4. ListRef(m, o, v) /\ entry \in [params : Nat, rest : BOOLEAN]
  BY <1>0, TopIsClosure
<1>5. ListRef(b, q1, v)
  BY <1>1, <1>2, <1>3, <1>4 DEF ListRef, IsObject, SameLabel
<1>6. v \in Value
  BY <1>4 DEF ListRef, IsObject, Value
<1>7. count \in Nat /\ count <= n - 1 /\ (~entry.rest => count = 0)
  BY <1>0, <1>4, FixedIs
<1>a. Shows(b, q1, n - 1, g)
  BY <1>0, <1>1, <1>3, PopShown
<1>8. CASE ~entry.rest
  <2>a. PICK h : h = WithList(g, NIL, v)
    OBVIOUS
  <2>b. PICK ids : ids = [j \in 1 .. 0 |-> NIL]
    OBVIOUS
  <2>c. /\ Shows(b, q1, n - 1, h) /\ h.rest = v /\ h.kind = g.kind /\ h.car = g.car /\ h.cdr = g.cdr
        /\ h.slot = g.slot /\ h.bottom = g.bottom /\ h.saved = g.saved
    <3> HIDE DEF b, v
    <3> QED  BY <1>0, <1>1, <1>6, <1>a, <2>a, ListShown
  <2>d. Readied(g, h, o, ids, n - 1, k, entry, v)
    <3>1. k - Fixed(entry, k) = 0
      BY <1>7, <1>8
    <3> HIDE DEF v
    <3> QED  BY <1>8, <2>b, <2>c, <3>1 DEF Readied, Paired
  <2>1. s = [b EXCEPT !.reg1 = v, !.reg2 = NIL]
    BY <1>8 DEF prepare_arguments, TopOf
  <2> HIDE DEF b, v, count
  <2>2. /\ s \in Machines /\ s.type = b.type /\ s.car = b.car /\ s.cdr = b.cdr /\ s.env = b.env
        /\ s.free_cells = b.free_cells /\ s.cont = b.cont /\ s.spent = b.spent /\ s.reg1 = v
    BY <1>0, <1>3, <1>6, <2>1 DEF Machines
  <2>3. Ref(q1, s.cont)
    BY <1>1, <2>2 DEF Sound
  <2>4. Sound(s, q1, n - 1, 0)
    BY <1>1, <2>2, <2>3, RegistersSet
  <2>5. Chain(s, q1, s.reg1, "args", NIL, 0)
    BY <1>5, <2>2 DEF Chain, ListRef
  <2>6. Rests(entry) = 0 /\ n - 1 - count = n - 1
    BY <1>0, <1>7, <1>8 DEF Rests
  <2>7. Shows(s, q1, n - 1, h)
    BY <2>2, <2>c DEF Shows, CellShows, KindOf
  <2>8. s.cont = m.cont
    BY <1>3, <2>2
  <2> QED  BY <2>2, <2>4, <2>5, <2>6, <2>7, <2>8, <2>c, <2>d DEF count, v
<1>9. CASE entry.rest
  <2> DEFINE s1 == RestList(b, count)
  <2>1. PICK q2, w, ids : /\ Sound(s1, q2, n - 1 - count, 0) /\ ListRef(s1, q2, s1.reg3)
                          /\ Kept(b, q1, s1, q2) /\ Shows(s1, q2, n - 1 - count, w)
                          /\ Gathered(g, w, q1, ids, n - 1, count, s1.reg3) /\ s1.cont = b.cont
    <3> HIDE DEF b, count
    <3> QED  BY <1>1, <1>7, <1>a, RestListed
  <2>2. s = [s1 EXCEPT !.cdr[p] = v, !.car[p] = s1.reg3,
                       !.reg1 = p, !.reg2 = NIL, !.reg3 = NIL, !.reg4 = NIL]
    BY <1>9 DEF prepare_arguments, TopOf
  <2> HIDE DEF s1, b, v, count
  <2>3. s1 \in Machines /\ q2 \in Labels /\ n - 1 - count \in Nat
    BY <2>1 DEF Sound
  <2>4. /\ q2.role[p] = "none" /\ s1.type[p] = CONS_TYPE
    BY <1>1, <1>2, <1>3, <2>1 DEF Kept, SameLabel
  <2>5. ListRef(s1, q2, v)
    BY <1>5, <2>1, KeptRef
  <2> DEFINE q == Label(q2, p, "args", NIL, 1)
  <2>6. /\ q \in Labels /\ q.role[p] = "args" /\ q.of[p] = NIL /\ q.at[p] = 1
        /\ \A c \in Cell : c # p => SameLabel(q2, q, c)
    <3>1. "args" \in Role
      BY DEF Role
    <3> QED  BY <1>0, <1>1, <2>3, <3>1, Labelled
  <2> HIDE DEF q
  <2>7. /\ s \in Machines /\ s.type = s1.type /\ s.spent = s1.spent
        /\ s.free_cells = s1.free_cells /\ s.env = s1.env /\ s.cont = s1.cont /\ s.reg1 = p
        /\ s.cdr[p] = v /\ s.car[p] = s1.reg3
        /\ \A c \in Cell : c # p => s.cdr[c] = s1.cdr[c] /\ s.car[c] = s1.car[c]
    <3>1. p \in Value /\ v \in Word /\ s1.reg3 \in Value
      BY <1>1, <1>6, <2>3 DEF Word, Value, Machines
    <3> DEFINE t == [s1 EXCEPT !.cdr[p] = v, !.car[p] = s1.reg3]
    <3>2. s \in Machines
      <4>1. t \in Machines
        BY <1>1, <2>3, <3>1 DEF Machines
      <4>2. s = [t EXCEPT !.reg1 = p, !.reg2 = NIL, !.reg3 = NIL, !.reg4 = NIL]
        BY <2>2
      <4> HIDE DEF t
      <4> QED  BY <1>0, <3>1, <4>1, <4>2, ZenonT(60) DEF Machines
    <3> QED  BY <1>0, <1>1, <2>2, <2>3, <3>1, <3>2 DEF Machines
  <2>8. p \notin ReservedCell /\ p \notin s1.spent
    BY <1>1, <2>1, <2>4 DEF Sound, CellSound, GlobalSound, FreeSound
  <2>9. Ref(q, s.car[p]) /\ Chain(s, q, s.cdr[p], "args", NIL, 0)
    BY <2>1, <2>4, <2>5, <2>6, <2>7 DEF Chain, ListRef, Ref, IsObject, SameLabel
  <2>10. CellSound(s, q, n - 1 - count, 1, p)
    BY <2>4, <2>6, <2>7, <2>8, <2>9
    DEF CellSound, GlobalSound, ObjectSound, SlotSound, SavedSound, FreeSound
  <2>11. Chain(s, q, s.env, "frame", NIL, n - 1 - count) /\ Ref(q, s.cont)
    <3>1. Chain(s1, q2, s1.env, "frame", NIL, n - 1 - count) /\ Ref(q2, s1.cont)
      BY <2>1 DEF Sound
    <3>2. s1.env # p /\ s1.cont # p
      BY <1>1, <2>4, <3>1, NilAssumption DEF Chain, ListRef, IsObject, In, Ref
    <3> QED  BY <2>6, <2>7, <3>1, <3>2, ChainKept, RefKept
  <2>12. \A c \in Cell : ~(q.role[p] = q2.role[c] /\ q.of[p] = q2.of[c] /\ q.at[p] = q2.at[c])
    BY <2>1, <2>6 DEF Sound, CellSound, SlotSound
  <2>13. /\ \A c \in Cell : c # p /\ q2.role[c] = "free"
                           => s.free_cells # NIL /\ q2.at[c] <= q.at[s.free_cells]
         /\ s.free_cells # NIL => q.role[s.free_cells] = "free"
    <3>1. /\ \A c \in Cell : q2.role[c] = "free" => s1.free_cells # NIL /\ q2.at[c] <= q2.at[s1.free_cells]
          /\ s1.free_cells # NIL => s1.free_cells \in Cell /\ q2.role[s1.free_cells] = "free"
      BY <2>1, <2>3 DEF Sound, CellSound, FreeSound, Machines, Value
    <3> QED  BY <2>4, <2>6, <2>7, <3>1 DEF SameLabel
  <2>14. Sound(s, q, n - 1 - count, 1)
    <3>1. 1 \in Nat /\ n - 1 - count <= n - 1 - count /\ 0 <= 1
      BY <2>3
    <3>2. \A c \in Cell : c # p => /\ SameLabel(q2, q, c) /\ s.type[c] = s1.type[c]
                                   /\ s.car[c] = s1.car[c] /\ s.cdr[c] = s1.cdr[c]
                                   /\ (c \in s.spent <=> c \in s1.spent)
      BY <2>6, <2>7
    <3> QED  BY <1>1, <2>1, <2>3, <2>4, <2>6, <2>7, <2>10, <2>11, <2>12, <2>13, <3>1, <3>2, OneCell
  <2>15. Chain(s, q, s.reg1, "args", NIL, 1) /\ Rests(entry) = 1
    BY <1>1, <1>9, <2>6, <2>7 DEF Chain, In, Rests
  <2>16. PICK h : h = WithList(w, s1.reg3, v)
    OBVIOUS
  <2>17. /\ Shows(s1, q2, n - 1 - count, h) /\ h.arg[1] = s1.reg3 /\ h.rest = v
         /\ h.kind = w.kind /\ h.car = w.car /\ h.cdr = w.cdr
         /\ h.slot = w.slot /\ h.bottom = w.bottom /\ h.saved = w.saved
    <3>1. s1.reg3 \in Value
      BY <2>3 DEF Machines
    <3> QED  BY <1>6, <2>1, <2>16, <3>1, ListShown
  <2>18. Shows(s, q, n - 1 - count, h)
    <3>1. Stays(s1, q2, s, q, p)
      BY <2>6, <2>7 DEF Stays
    <3>2. CellShows(s, q, h, p)
      BY <2>6, <2>7, <2>17 DEF CellShows
    <3>3. h \in Views /\ \A c \in Cell : CellShows(s1, q2, h, c)
      BY <2>17 DEF Shows
    <3>4. n - 1 - count = 0 => s.env = h.bottom[NIL]
      BY <2>7, <2>17 DEF Shows
    <3> QED  BY <2>17, <3>1, <3>2, <3>3, <3>4, ShowsBut
  <2>19. Readied(g, h, o, ids, n - 1, k, entry, v)
    <3>1. \A c \in Cell : q1.role[c] = "frame" => SameLabel(o, q1, c)
      BY <1>2
    <3>2. \A j \in 1 .. count : In(o, ids[j], "frame", NIL, (n - 1) - j + 1)
      BY <2>1, <3>1 DEF Gathered, In, SameLabel
    <3>3. Paired(g, h, ids, n - 1, count)
      BY <2>1, <2>17 DEF Gathered, Paired
    <3>4. h.arg[1] = IF count = 0 THEN NIL ELSE ids[count]
      BY <2>1, <2>17 DEF Gathered
    <3>5. count = 0 <=> k = Fixed(entry, k)
      BY <1>4, FixedIs DEF count
    <3>6. /\ ids \in [1 .. count -> Cell]
          /\ \A c \in Cell : (\A j \in 1 .. count : ids[j] # c)
               => h.kind[c] = g.kind[c] /\ h.car[c] = g.car[c] /\ h.cdr[c] = g.cdr[c]
          /\ h.slot = g.slot /\ h.bottom = g.bottom /\ h.saved = g.saved
      BY <2>1, <2>17 DEF Gathered
    <3> QED  BY <2>17, <3>2, <3>3, <3>4, <3>5, <3>6 DEF Readied, count
  <2>20. s.cont = m.cont /\ Rests(entry) # 0
    BY <1>3, <1>9, <2>1, <2>7 DEF Rests
  <2> QED  BY <2>14, <2>15, <2>18, <2>19, <2>20 DEF count, v
<1> QED  BY <1>8, <1>9

\* The arguments that stay slots, the last one first.
Handed(g, h, n, k, entry) ==
  \A j \in 1 .. Fixed(entry, k) :
    h.arg[Rests(entry) + j] = g.slot[NIL][n - (k - Fixed(entry, k)) - j + 1]

\* prepare_arguments() and build_environment()
LEMMA CallPrepared ==
  ASSUME NEW m, NEW o, NEW n, Sound(m, o, n, 0), NEW k \in Nat, k < n,
         TopOf(m) \in Cell, m.type[TopOf(m)] = CLOSURE_TYPE,
         NEW entry, entry = m.cdr[TopOf(m)], NEW g, Shows(m, o, n, g), NEW s, s = Prepared(m, k)
  PROVE  /\ FrameOf(entry, k) \in Address /\ FrameOf(entry, k).temps = 0
         /\ \E q, h, ids : /\ Sound(s, q, n - 1 - k, FrameOf(entry, k).slots)
                           /\ Chain(s, q, s.reg1, "args", NIL, FrameOf(entry, k).slots)
                           /\ Shows(s, q, n - 1 - k, h)
                           /\ FrameOf(entry, k).slots = 0 => s.reg1 = h.rest
                           /\ Readied(g, h, o, ids, n - 1, k, entry, m.car[TopOf(m)])
                           /\ Handed(g, h, n - 1, k, entry)
                           /\ s.cont = m.cont
<1> DEFINE b == prepare_arguments(m, k)
           i == n - 1 - (k - Fixed(entry, k))
<1>0. n \in Nat /\ n # 0
  BY DEF Sound
<1>1. PICK o1, u, ids : /\ Sound(b, o1, i, Rests(entry))
                        /\ Chain(b, o1, b.reg1, "args", NIL, Rests(entry))
                        /\ Shows(b, o1, i, u)
                        /\ Rests(entry) = 0 => b.reg1 = u.rest
                        /\ Readied(g, u, o, ids, n - 1, k, entry, m.car[TopOf(m)])
                        /\ b.cont = m.cont
  BY ArgsPrepared
<1>2. entry \in [params : Nat, rest : BOOLEAN]
  BY <1>0, TopIsClosure
<1>3. /\ Fixed(entry, k) \in Nat /\ Fixed(entry, k) <= k /\ Rests(entry) \in Nat
      /\ Fixed(entry, k) <= i /\ i - Fixed(entry, k) = n - 1 - k
  BY <1>0, <1>2, FixedIs DEF Rests
<1>4. s = build_environment(b, Fixed(entry, k))
  BY DEF Prepared
<1>a. i = (n - 1) - (k - Fixed(entry, k)) /\ i \in Nat /\ u \in Views
  BY <1>0, <1>1, <1>3 DEF Shows
<1> HIDE DEF b, i
<1>5. /\ \E q : /\ Sound(s, q, i - Fixed(entry, k), Rests(entry) + Fixed(entry, k))
                /\ Chain(s, q, s.reg1, "args", NIL, Rests(entry) + Fixed(entry, k))
                /\ Shows(s, q, i - Fixed(entry, k), WithArgs(u, i, Rests(entry), Fixed(entry, k)))
      /\ (Rests(entry) + Fixed(entry, k) = 0 => s.reg1 = u.rest) /\ s.cont = b.cont
  BY <1>1, <1>3, <1>4, EnvironmentBuilt
<1>b. PICK h : h = WithArgs(u, i, Rests(entry), Fixed(entry, k))
  OBVIOUS
<1>c. OnlyArgs(u, h, i, Rests(entry), Fixed(entry, k))
  BY <1>3, <1>a, <1>b, WithArgsIs
<1>d. Handed(g, h, n - 1, k, entry)
  <2>1. ASSUME NEW j \in 1 .. Fixed(entry, k)
        PROVE  h.arg[Rests(entry) + j] = g.slot[NIL][(n - 1) - (k - Fixed(entry, k)) - j + 1]
    <3>1. /\ Rests(entry) + j \in Nat /\ Rests(entry) + j \in Rests(entry) + 1 .. Rests(entry) + Fixed(entry, k)
          /\ i - ((Rests(entry) + j) - Rests(entry)) + 1 = i - j + 1
      BY <1>3, <1>a
    <3>2. h.arg[Rests(entry) + j] = u.slot[NIL][i - j + 1] /\ u.slot = g.slot
      BY <1>1, <1>c, <3>1 DEF OnlyArgs, Readied
    <3> QED  BY <1>a, <3>2
  <2> QED  BY <2>1 DEF Handed
<1>e. Readied(g, h, o, ids, n - 1, k, entry, m.car[TopOf(m)])
  <2>1. entry.rest => h.arg[1] = u.arg[1]
    <3>1. entry.rest => 1 \in Nat /\ 1 \notin Rests(entry) + 1 .. Rests(entry) + Fixed(entry, k)
      BY <1>3 DEF Rests
    <3> QED  BY <1>c, <3>1 DEF OnlyArgs
  <2>2. /\ h.kind = u.kind /\ h.car = u.car /\ h.cdr = u.cdr /\ h.slot = u.slot /\ h.bottom = u.bottom
        /\ h.saved = u.saved /\ h.rest = u.rest
    BY <1>c DEF OnlyArgs
  <2> QED  BY <1>1, <2>1, <2>2 DEF Readied, Paired
<1>f. FrameOf(entry, k).slots = 0 => s.reg1 = h.rest
  BY <1>3, <1>5, <1>c DEF FrameOf, Rests, OnlyArgs
<1>6. /\ FrameOf(entry, k).slots = Rests(entry) + Fixed(entry, k) /\ FrameOf(entry, k).temps = 0
      /\ FrameOf(entry, k) \in Address
  BY <1>3 DEF FrameOf, Rests, Address
<1> QED  BY <1>1, <1>3, <1>5, <1>6, <1>b, <1>d, <1>e, <1>f

\* The arguments become the slots.
Enters(g, h) == h.slot[NIL] = g.arg /\ h.bottom[NIL] = g.rest /\ OnlyFrame(g, h, NIL)

\* Two changes of a frame are one.
LEMMA EntersAfter ==
  ASSUME NEW g \in Views, NEW end \in Value, NEW u, u = WithFrame(g, NIL, g.slot[NIL], end),
         NEW h, h = WithFrame(u, NIL, u.arg, u.rest)
  PROVE  Enters(g, h)
<1>1. PICK x : x = g.slot[NIL]
  OBVIOUS
<1>2. x \in FrameSlots
  BY <1>1 DEF Views, FrameSlots, Value
<1>3. NIL \in Value
  BY DEF Value
<1>4. u = WithFrame(g, NIL, x, end)
  BY <1>1
<1>5. u \in Views /\ OnlyFrame(g, u, NIL)
  BY <1>2, <1>3, <1>4, WithFrameIs
<1>6. PICK y : y = u.arg
  OBVIOUS
<1>7. PICK z : z = u.rest
  OBVIOUS
<1>8. y \in FrameSlots
  BY <1>5, <1>6 DEF Views, FrameSlots
<1>9. z \in Value
  BY <1>5, <1>7 DEF Views
<1>10. h = WithFrame(u, NIL, y, z)
  BY <1>6, <1>7
<1>11. u \in Views
  BY <1>5
<1>12. h.slot[NIL] = y /\ h.bottom[NIL] = z /\ OnlyFrame(u, h, NIL)
  BY <1>3, <1>8, <1>9, <1>10, <1>11, WithFrameIs
<1> QED  BY <1>5, <1>6, <1>7, <1>12 DEF Enters, OnlyFrame

\* The end of a tail call.
LEMMA JumpEntered ==
  ASSUME NEW m, NEW o, NEW n, NEW a, Sound(m, o, n, a), Chain(m, o, m.reg1, "args", NIL, a),
         NEW g, Shows(m, o, n, g), a = 0 => m.reg1 = g.rest
  PROVE  \E q, h : Sound(Enter(m), q, a, 0) /\ Shows(Enter(m), q, a, h) /\ Enters(g, h)
<1> DEFINE b == [m EXCEPT !.env = NIL]
           s == Enter(m)
<1>0. m \in Machines
  BY DEF Sound
<1>1. PICK q : /\ Sound(b, q, 0, a) /\ Kept(m, o, b, q)
               /\ \A c \in Cell : o.role[c] = "args" => SameLabel(o, q, c)
               /\ Stays(m, o, b, q, NIL)
  BY FrameDropped
<1>2. /\ b.type = m.type /\ b.car = m.car /\ b.cdr = m.cdr /\ b.spent = m.spent
      /\ b.free_cells = m.free_cells /\ b.cont = m.cont /\ b.reg1 = m.reg1 /\ b.env = NIL
  BY <1>0 DEF Machines
<1>3. /\ s \in Machines /\ s.type = m.type /\ s.car = m.car /\ s.cdr = m.cdr /\ s.spent = m.spent
      /\ s.free_cells = m.free_cells /\ s.cont = m.cont /\ s.env = m.reg1
  <2>1. NIL \in Value
    BY DEF Value
  <2> QED  BY <1>0, <2>1 DEF Machines, Enter
<1> HIDE DEF b, s
<1>4. Chain(b, q, b.reg1, "args", NIL, a)
  <2>1. m.reg1 \in Cell => SameLabel(o, q, m.reg1)
    BY <1>1, NilAssumption DEF Chain, ListRef, IsObject, In, Kept
  <2> QED  BY <1>2, <2>1, ChainKept
<1>5. PICK r : Sound(s, r, a, 0) /\ Entered(q, r)
  BY <1>1, <1>2, <1>3, <1>4, ArgsEntered
<1>6. PICK u : u = WithFrame(g, NIL, g.slot[NIL], NIL)
  OBVIOUS
<1>7. PICK h : h = WithFrame(u, NIL, u.arg, u.rest)
  OBVIOUS
<1>8. Enters(g, h) /\ u.rest = g.rest
  <2>1. NIL \in Value /\ g \in Views
    BY DEF Value, Shows
  <2>2. u.rest = g.rest
    BY <1>6, <2>1 DEF WithFrame, Views
  <2> QED  BY <1>6, <1>7, <2>1, <2>2, EntersAfter
<1>9. Shows(b, q, 0, u)
  BY <1>1, <1>2, <1>6, DropShown
<1>10. a = 0 => b.reg1 = u.rest
  BY <1>2, <1>8
<1>11. s.env = b.reg1 /\ s.type = b.type /\ s.car = b.car /\ s.cdr = b.cdr /\ s.spent = b.spent
  BY <1>2, <1>3
<1>12. Shows(s, r, a, WithFrame(u, NIL, u.arg, u.rest))
  BY <1>1, <1>5, <1>9, <1>10, <1>11, EnterShown
<1> QED  BY <1>5, <1>7, <1>8, <1>12 DEF s

\* While continuation k is allocated, the machine b holds the frame and the arguments of m,
\* so that k is none of the cells that they lead to.
Saving(m, n, a, g, k, b, r) ==
  /\ Sound(b, r, n, a) /\ Shows(b, r, n, g) /\ ~Held(b, r, k)
  /\ b.env = m.env /\ b.cont = m.cont /\ b.reg1 = m.reg1
  /\ Chain(b, r, b.reg1, "args", NIL, a)

\* The frame is in continuation k, and the arguments are the slots.
SavedAndEntered(g, h, k, parent, back) ==
  \E u : OnlyCont(g, u, k, parent, back) /\ Enters(u, h)

\* The end of a call: save_cont() and the entry.
LEMMA CallEntered ==
  ASSUME NEW m, NEW o, NEW n, NEW a, Sound(m, o, n, a), Chain(m, o, m.reg1, "args", NIL, a),
         NEW back \in Address, back.slots = n, back.temps <= n,
         NEW g, Shows(m, o, n, g), a = 0 => m.reg1 = g.rest,
         ~Enter(save_cont(m, back)).exhausted
  PROVE  \E q, h, k : /\ Sound(Enter(save_cont(m, back)), q, a, 0)
                      /\ Shows(Enter(save_cont(m, back)), q, a, h)
                      /\ k \in Cell /\ Enter(save_cont(m, back)).cont = k
                      /\ SavedAndEntered(g, h, k, m.cont, back)
                      /\ \E b, r : Saving(m, n, a, g, k, b, r)
<1> DEFINE c1 == new_closure(m, m.env, back)
           p == Allocated(m)
           s1 == [c1 EXCEPT !.reg4 = p]
           c2 == new_cont(s1, s1.cont, s1.reg4)
           k == Allocated(s1)
           s2 == [c2 EXCEPT !.cont = k, !.reg4 = NIL]
           s3 == [s2 EXCEPT !.env = NIL]
           s == Enter(s2)
<1>0. m \in Machines /\ NIL \in Value /\ n \in Nat /\ a \in Nat
  BY DEF Sound, Value
<1>1. s = Enter(save_cont(m, back))
  BY DEF save_cont
<1>2. /\ m.env \in Value /\ back \in Word
      /\ c1 = new_closure(m, m.env, back) /\ p = Allocated(m)
  BY <1>0 DEF Machines, Word
<1>3. c2 = new_cont(s1, s1.cont, s1.reg4) /\ k = Allocated(s1)
  OBVIOUS
<1> HIDE DEF c1, c2, p, k
<1>4. /\ SameRegisters(m, c1)
      /\ ~c1.exhausted => p # NIL
      /\ p # NIL => p \in Cell /\ c1.type[p] = CLOSURE_TYPE /\ c1.car[p] = m.env /\ c1.cdr[p] = back
      /\ \E q : Sound(c1, q, n, a) /\ Fresh(m, o, c1, q, p)
  BY <1>2, ClosureAllocated
<1>5. PICK q1 : /\ Sound(c1, q1, n, a) /\ HeldKept(m, o, c1, q1) /\ Stays(m, o, c1, q1, NIL)
                /\ p # NIL => /\ p \in Cell /\ q1.role[p] = "none" /\ ~Held(m, o, p)
                              /\ c1.type[p] = CLOSURE_TYPE /\ c1.car[p] = m.env /\ c1.cdr[p] = back
  BY <1>4 DEF Fresh
<1>6. /\ s1 \in Machines /\ s1.type = c1.type /\ s1.car = c1.car /\ s1.cdr = c1.cdr
      /\ s1.free_cells = c1.free_cells /\ s1.env = m.env /\ s1.spent = c1.spent /\ s1.cont = m.cont
      /\ s1.reg1 = m.reg1 /\ s1.reg4 = p /\ s1.exhausted = c1.exhausted
  <2>1. c1 \in Machines /\ p \in Value
    BY <1>5 DEF Sound, Value
  <2> QED  BY <1>4, <2>1 DEF Machines, SameRegisters
<1> HIDE DEF s1
<1>7. Sound(s1, q1, n, a)
  <2>1. Ref(q1, s1.cont) /\ s1.env = c1.env
    BY <1>4, <1>5, <1>6 DEF Sound, SameRegisters
  <2> QED  BY <1>5, <1>6, <2>1, RegistersSet
<1>8. /\ s1.cont \in Value /\ s1.reg4 \in Word
  BY <1>6 DEF Machines, Word
<1>9. /\ SameRegisters(s1, c2) /\ (s1.exhausted => c2.exhausted)
      /\ ~c2.exhausted => k # NIL
      /\ k # NIL => k \in Cell /\ c2.type[k] = CONTINUATION_TYPE /\ c2.car[k] = s1.cont /\ c2.cdr[k] = s1.reg4
      /\ \E q : Sound(c2, q, n, a) /\ Fresh(s1, q1, c2, q, k)
  BY <1>3, <1>7, <1>8, ContAllocated
<1>10. PICK q2 : /\ Sound(c2, q2, n, a) /\ HeldKept(s1, q1, c2, q2) /\ Stays(s1, q1, c2, q2, NIL)
                 /\ k # NIL => /\ k \in Cell /\ q2.role[k] = "none" /\ ~Held(s1, q1, k)
                               /\ c2.type[k] = CONTINUATION_TYPE /\ c2.car[k] = s1.cont
                               /\ c2.cdr[k] = s1.reg4
  BY <1>9 DEF Fresh
<1>11. c2 \in Machines /\ k \in Value
  BY <1>10 DEF Sound, Value
<1>12. /\ s2 \in Machines /\ s2.type = c2.type /\ s2.car = c2.car /\ s2.cdr = c2.cdr
       /\ s2.spent = c2.spent /\ s2.free_cells = c2.free_cells /\ s2.cont = k
       /\ s2.reg1 = c2.reg1 /\ s2.exhausted = c2.exhausted
  BY <1>0, <1>11 DEF Machines
<1> HIDE DEF s2
<1>13. /\ s3 \in Machines /\ s3.type = c2.type /\ s3.car = c2.car /\ s3.cdr = c2.cdr
       /\ s3.spent = c2.spent /\ s3.free_cells = c2.free_cells /\ s3.cont = k /\ s3.env = NIL
       /\ s3.reg1 = c2.reg1
  BY <1>0, <1>12 DEF Machines
<1>14. /\ s \in Machines /\ s.type = c2.type /\ s.car = c2.car /\ s.cdr = c2.cdr
       /\ s.spent = c2.spent /\ s.free_cells = c2.free_cells /\ s.cont = k /\ s.env = c2.reg1
       /\ s.exhausted = c2.exhausted
  BY <1>0, <1>12 DEF Machines, Enter
<1> HIDE DEF s3, s
<1>15. /\ k # NIL /\ p # NIL
  BY <1>1, <1>4, <1>6, <1>9, <1>14
<1>16. /\ Held(s1, q1, p) /\ p # k
  <2>1. p \in Live(s1)
    BY <1>5, <1>6, <1>15, RegistersLive DEF Registers
  <2>2. Held(s1, q1, p)
    BY <1>5, <1>15, <2>1 DEF Held
  <2> QED  BY <1>10, <1>15, <2>2
<1>17. /\ q2.role[p] = "none" /\ c2.type[p] = CLOSURE_TYPE /\ c2.car[p] = c2.env /\ c2.cdr[p] = back
  BY <1>5, <1>6, <1>9, <1>10, <1>15, <1>16 DEF HeldKept, SameLabel, SameRegisters
<1>18. Chain(c2, q2, c2.reg1, "args", NIL, a)
  <2>1. Chain(c1, q1, m.reg1, "args", NIL, a)
    BY <1>5, HeldChain, RegistersLive DEF Registers
  <2>2. Chain(s1, q1, s1.reg1, "args", NIL, a)
    BY <1>6, <2>1 DEF Chain, ListRef
  <2>3. Chain(c2, q2, s1.reg1, "args", NIL, a)
    BY <1>10, <2>2, HeldChain, RegistersLive DEF Registers
  <2> QED  BY <1>9, <2>3 DEF SameRegisters
<1>19. Ref(q2, c2.car[k]) /\ c2.cdr[k] = p
  BY <1>6, <1>9, <1>10, <1>15 DEF Sound, SameRegisters
<1>20. PICK q3 : /\ Sound(s3, q3, 0, a)
                 /\ \A c \in Cell : q2.role[c] \in {"args", "object"} => SameLabel(q2, q3, c)
                 /\ Suspends(q2, q3, k, p)
  BY <1>5, <1>10, <1>13, <1>15, <1>16, <1>17, <1>19, FrameSaved
<1>21. Chain(s3, q3, s3.reg1, "args", NIL, a)
  <2>1. c2.reg1 \in Cell => SameLabel(q2, q3, c2.reg1)
    BY <1>18, <1>20, NilAssumption DEF Chain, ListRef, IsObject, In
  <2> QED  BY <1>13, <1>18, <2>1, ChainKept
<1>22. PICK q : Sound(s, q, a, 0) /\ Entered(q3, q)
  BY <1>13, <1>14, <1>20, <1>21, ArgsEntered
<1>23. Shows(s1, q1, n, g)
  <2>1. n = 0 => c1.env = g.bottom[NIL]
    BY <1>4 DEF SameRegisters, Shows
  <2>2. Shows(c1, q1, n, g)
    BY <1>5, <2>1, ShowsKept
  <2>3. s1.env = c1.env
    BY <1>4, <1>6 DEF SameRegisters
  <2> QED  BY <1>6, <2>2, <2>3 DEF Shows, CellShows, KindOf
<1>24. Shows(c2, q2, n, g)
  <2>1. n = 0 => c2.env = g.bottom[NIL]
    BY <1>9, <1>23 DEF SameRegisters, Shows
  <2> QED  BY <1>10, <1>23, <2>1, ShowsKept
<1>25. PICK u : u = WithCont(g, k, m.cont, back)
  OBVIOUS
<1>26. Shows(s3, q3, 0, u)
  <2>1. c2.car[k] = m.cont /\ c2.cdr[p] = back
    BY <1>6, <1>10, <1>15, <1>17
  <2>2. Shows(s3, q3, 0, WithCont(g, k, c2.car[k], c2.cdr[p]))
    BY <1>5, <1>10, <1>13, <1>15, <1>16, <1>17, <1>20, <1>24, SaveShown
  <2> QED  BY <1>25, <2>1, <2>2
<1>27. OnlyCont(g, u, k, m.cont, back)
  <2>1. m.cont \in Value
    BY <1>0 DEF Machines
  <2>2. back \in Word
    BY <1>2
  <2>3. k \in Cell
    BY <1>10, <1>15
  <2>4. g \in Views
    BY DEF Shows
  <2> QED  BY <1>25, <2>1, <2>2, <2>3, <2>4, WithContIs
<1>28. PICK h : h = WithFrame(u, NIL, u.arg, u.rest)
  OBVIOUS
<1>29. Enters(u, h)
  <2>1. u \in Views
    BY <1>26 DEF Shows
  <2>2. u.arg \in FrameSlots
    BY <2>1 DEF Views, FrameSlots
  <2>3. u.rest \in Value
    BY <2>1 DEF Views
  <2>4. NIL \in Value
    BY <1>0
  <2>5. PICK x : x = u.arg
    OBVIOUS
  <2>6. PICK y : y = u.rest
    OBVIOUS
  <2>7. x \in FrameSlots
    BY <2>2, <2>5
  <2>8. y \in Value
    BY <2>3, <2>6
  <2>9. h = WithFrame(u, NIL, x, y)
    BY <1>28, <2>5, <2>6
  <2>10. h.slot[NIL] = x /\ h.bottom[NIL] = y /\ OnlyFrame(u, h, NIL)
    BY <2>1, <2>4, <2>7, <2>8, <2>9, WithFrameIs
  <2> QED  BY <2>5, <2>6, <2>10 DEF Enters
<1>30. Shows(s, q, a, h)
  <2>1. a = 0 => s3.reg1 = u.rest
    BY <1>6, <1>9, <1>13, <1>27 DEF SameRegisters, OnlyCont
  <2>2. s.env = s3.reg1 /\ s.type = s3.type /\ s.car = s3.car /\ s.cdr = s3.cdr /\ s.spent = s3.spent
    BY <1>13, <1>14
  <2>3. Shows(s, q, a, WithFrame(u, NIL, u.arg, u.rest))
    BY <1>20, <1>22, <1>26, <2>1, <2>2, EnterShown
  <2> QED  BY <1>28, <2>3
<1>31. Saving(m, n, a, g, k, s1, q1)
  <2>1. ~Held(s1, q1, k)
    BY <1>10, <1>15
  <2>2. Chain(s1, q1, s1.reg1, "args", NIL, a)
    <3>1. Chain(c1, q1, m.reg1, "args", NIL, a)
      BY <1>5, HeldChain, RegistersLive DEF Registers
    <3> QED  BY <1>6, <3>1 DEF Chain, ListRef
  <2> QED  BY <1>6, <1>7, <1>23, <2>1, <2>2 DEF Saving
<1>32. SavedAndEntered(g, h, k, m.cont, back)
  BY <1>27, <1>29 DEF SavedAndEntered
<1>33. k \in Cell /\ s.cont = k
  BY <1>10, <1>14, <1>15
<1>34. \E b, r : Saving(m, n, a, g, k, b, r)
  BY <1>31
<1> QED  BY <1>1, <1>22, <1>30, <1>32, <1>33, <1>34

-----------------------------------------------------------------------------
(* The instructions. *)

\* The program sees the same, or another slot on top, or the object that p has become.
ShowsSame(m, o, n, s, q, i) == \A g : Shows(m, o, n, g) => Shows(s, q, i, g)
ShowsSlot(m, o, n, s, q, i, v) == \A g : Shows(m, o, n, g) => Shows(s, q, i, WithSlot(g, i, v))
ShowsObject(m, o, n, q, p) ==
  \A g : Shows(m, o, n, g) => Shows(m, q, n, WithObject(g, p, m.type[p], m.car[p], m.cdr[p]))

\* A new cell becomes an object of the program.
LEMMA ObjectMade ==
  ASSUME NEW m, NEW o, NEW n, NEW a, Sound(m, o, n, a), NEW p \in Cell, o.role[p] = "none",
         \/ m.type[p] = CONS_TYPE /\ Ref(o, m.car[p]) /\ Ref(o, m.cdr[p])
         \/ m.type[p] = STRING_TYPE /\ Ref(o, m.car[p])
         \/ m.type[p] = CLOSURE_TYPE /\ ListRef(m, o, m.car[p]) /\ m.cdr[p] \in Entries
  PROVE  \E q : /\ Sound(m, q, n, a) /\ IsObject(q, p)
                /\ (\A c \in Cell : c # p => SameLabel(o, q, c)) /\ ShowsObject(m, o, n, q, p)
<1> DEFINE q == Label(o, p, "object", NIL, 0)
<1>1. m \in Machines /\ o \in Labels /\ n \in Nat /\ a \in Nat /\ CellSound(m, o, n, a, p)
  BY DEF Sound
<1>2. /\ q \in Labels /\ q.role[p] = "object"
      /\ \A c \in Cell : c # p => SameLabel(o, q, c)
  <2>1. "object" \in Role /\ NIL \in Value /\ 0 \in Nat
    BY DEF Role, Value
  <2> QED  BY <1>1, <2>1, Labelled
<1> HIDE DEF q
<1>3. \A v : /\ Ref(o, v) => Ref(q, v)
             /\ ListRef(m, o, v) => ListRef(m, q, v)
  BY <1>2 DEF Ref, ListRef, IsObject, SameLabel
<1>4. p \notin ReservedCell /\ p \notin m.spent
  BY <1>1 DEF CellSound, GlobalSound, FreeSound
<1>5. CellSound(m, q, n, a, p)
  BY <1>2, <1>3, <1>4
  DEF CellSound, GlobalSound, ObjectSound, SlotSound, SavedSound, FreeSound,
    CONS_TYPE, CLOSURE_TYPE, CONTINUATION_TYPE, STRING_TYPE
<1>6. Chain(m, q, m.env, "frame", NIL, n) /\ Ref(q, m.cont)
  <2>1. Chain(m, o, m.env, "frame", NIL, n) /\ Ref(o, m.cont)
    BY DEF Sound
  <2>2. m.env # p
    BY <2>1, NilAssumption DEF Chain, ListRef, IsObject, In
  <2>3. Chain(m, q, m.env, "frame", NIL, n)
    BY <1>2, <2>1, <2>2, ChainKept
  <2> QED  BY <1>3, <2>1, <2>3
<1>7. /\ \A c \in Cell : c # p /\ o.role[c] = "free"
                         => m.free_cells # NIL /\ o.at[c] <= q.at[m.free_cells]
      /\ m.free_cells # NIL => q.role[m.free_cells] = "free"
  <2>1. /\ \A c \in Cell : o.role[c] = "free" => m.free_cells # NIL /\ o.at[c] <= o.at[m.free_cells]
        /\ m.free_cells # NIL => m.free_cells \in Cell /\ o.role[m.free_cells] = "free"
    BY <1>1 DEF Sound, CellSound, FreeSound, Machines, Value
  <2> QED  BY <1>2, <2>1 DEF SameLabel
<1>8. n <= n /\ a <= a
  BY <1>1
<1>9. Sound(m, q, n, a)
  BY <1>1, <1>2, <1>5, <1>6, <1>7, <1>8, OneCell
<1>10. ASSUME NEW g, Shows(m, o, n, g)
       PROVE  Shows(m, q, n, WithObject(g, p, m.type[p], m.car[p], m.cdr[p]))
  <2>1. PICK kind, x, y : kind = m.type[p] /\ x = m.car[p] /\ y = m.cdr[p]
    OBVIOUS
  <2>2. kind \in Kinds
    BY <1>1, <2>1 DEF Machines, Kinds
  <2>3. x \in Value
    BY <1>1, <2>1 DEF Machines
  <2>12. y \in Word
    BY <1>1, <2>1 DEF Machines
  <2>4. PICK h : h = WithObject(g, p, kind, x, y)
    OBVIOUS
  <2>5. g \in Views
    BY <1>10 DEF Shows
  <2>6. h \in Views /\ h.kind[p] = kind /\ h.car[p] = x /\ h.cdr[p] = y /\ OnlyObject(g, h, p)
    BY <2>2, <2>3, <2>4, <2>5, <2>12, WithObjectIs
  <2>7. Stays(m, o, m, q, p)
    BY <1>2 DEF Stays
  <2>8. CellShows(m, q, h, p)
    <3>1. KindOf(m, p) = kind
      BY <1>4, <2>1 DEF KindOf
    <3> QED  BY <1>2, <2>1, <2>6, <3>1 DEF CellShows
  <2>9. ASSUME NEW c \in Cell, c # p PROVE CellShows(m, o, h, c)
    <3>1. CellShows(m, o, g, c)
      BY <1>10 DEF Shows
    <3> QED  BY <2>6, <2>9, <3>1 DEF CellShows, OnlyObject
  <2>10. n = 0 => m.env = h.bottom[NIL]
    BY <1>10, <2>6 DEF Shows, OnlyObject
  <2>11. Shows(m, q, n, h)
    BY <1>10, <2>6, <2>7, <2>8, <2>9, <2>10, ShowsBut
  <2> QED  BY <2>1, <2>4, <2>11
<1> QED  BY <1>2, <1>9, <1>10 DEF IsObject, ShowsObject

\* The pops of the dispatcher.
LEMMA OnePopped ==
  ASSUME NEW m, NEW o, NEW n, NEW a, Sound(m, o, n, a), n # 0, NEW s, s = Pop1(m)
  PROVE  /\ Ref(o, TopOf(m)) /\ s.reg1 = TopOf(m) /\ s.reg2 = m.reg2 /\ s.free_cells # NIL
         /\ s.cont = m.cont /\ s.exhausted = m.exhausted /\ s.spent = m.spent
         /\ \E q : /\ Sound(s, q, n - 1, a) /\ Kept(m, o, s, q) /\ Stays(m, o, s, q, NIL)
                   /\ ShowsSame(m, o, n, s, q, n - 1)
<1> DEFINE b == pop(m)
<1>1. PICK q : Sound(b, q, n - 1, a) /\ Kept(m, o, b, q) /\ Stays(m, o, b, q, NIL)
  BY Popped
<1>2. /\ Ref(o, TopOf(m)) /\ b.free_cells \in Cell /\ b.cont = m.cont /\ b.reg2 = m.reg2
      /\ b.exhausted = m.exhausted /\ b.spent = m.spent
  BY Popped
<1>3. TopOf(m) \in Value /\ b \in Machines
  BY <1>1, <1>2 DEF Ref, IsObject, Value, Sound
<1>4. s = [b EXCEPT !.reg1 = TopOf(m)]
  BY DEF Pop1
<1>8. b.env = m.cdr[m.env]
  <2>1. m \in Machines
    BY DEF Sound
  <2> QED  BY <2>1 DEF pop, return_to_free_list, Machines
<1> HIDE DEF b
<1>5. /\ s \in Machines /\ s.type = b.type /\ s.car = b.car /\ s.cdr = b.cdr /\ s.spent = b.spent
      /\ s.free_cells = b.free_cells /\ s.cont = b.cont /\ s.env = b.env /\ s.reg1 = TopOf(m)
      /\ s.reg2 = b.reg2 /\ s.exhausted = b.exhausted
  BY <1>3, <1>4 DEF Machines
<1>6. Sound(s, q, n - 1, a)
  <2>1. Ref(q, s.cont)
    BY <1>1, <1>5 DEF Sound
  <2> QED  BY <1>1, <1>5, <2>1, RegistersSet
<1>7. Kept(m, o, s, q) /\ Stays(m, o, s, q, NIL)
  BY <1>1, <1>5 DEF Kept, Stays
<1>9. ShowsSame(m, o, n, s, q, n - 1)
  <2>1. s.env = m.cdr[m.env]
    BY <1>5, <1>8
  <2> QED  BY <1>7, <2>1, PopShown DEF ShowsSame
<1> QED  BY <1>2, <1>5, <1>6, <1>7, <1>9, NilAssumption

\* The two arguments of a primitive.
LEMMA TwoPopped ==
  ASSUME NEW m, NEW o, NEW n, NEW a, Sound(m, o, n, a), n > 1, NEW s, s = Pop2(m)
  PROVE  /\ Ref(o, TopOf(m)) /\ s.reg2 = TopOf(m) /\ Ref(o, Second(m)) /\ s.reg1 = Second(m)
         /\ s.free_cells # NIL
         /\ s.cont = m.cont /\ s.exhausted = m.exhausted /\ s.spent = m.spent
         /\ \E q : /\ Sound(s, q, n - 2, a) /\ Kept(m, o, s, q) /\ Stays(m, o, s, q, NIL)
                   /\ ShowsSame(m, o, n, s, q, n - 2)
<1> DEFINE b == pop(m)
           t == [b EXCEPT !.reg2 = TopOf(m)]
<1>0. n \in Nat /\ n # 0 /\ n - 1 # 0 /\ n - 1 - 1 = n - 2 /\ m \in Machines
  BY DEF Sound
<1>1. PICK q1 : Sound(b, q1, n - 1, a) /\ Kept(m, o, b, q1) /\ Stays(m, o, b, q1, NIL)
  BY <1>0, Popped
<1>2. /\ Ref(o, TopOf(m)) /\ b.cont = m.cont /\ b.exhausted = m.exhausted /\ b.spent = m.spent
  BY <1>0, Popped
<1>3. TopOf(m) \in Value /\ b \in Machines
  BY <1>1, <1>2 DEF Ref, IsObject, Value, Sound
<1>11. b.env = m.cdr[m.env]
  BY <1>0 DEF pop, return_to_free_list, Machines
<1>4. TopOf(t) = Second(m) /\ s = Pop1(t)
  <2>1. TopOf(t) = TopOf(b)
    BY <1>3 DEF Machines, TopOf
  <2> QED  BY <2>1 DEF Second, Pop1, Pop2
<1>5. Ref(o, Second(m))
  <2>1. In(o, m.env, "frame", NIL, n)
    BY <1>0 DEF Sound, Chain
  <2>2. CellSound(m, o, n, a, m.env)
    BY <2>1 DEF Sound, In
  <2>3. In(o, m.cdr[m.env], "frame", NIL, n - 1)
    BY <1>0, <2>1, <2>2 DEF CellSound, SlotSound, In, Chain
  <2>4. CellSound(m, o, n, a, m.cdr[m.env])
    BY <2>3 DEF Sound, In
  <2>5. Ref(o, m.car[m.cdr[m.env]])
    BY <2>3, <2>4 DEF CellSound, SlotSound, In
  <2>6. Second(m) = m.car[m.cdr[m.env]]
    BY <1>0 DEF Second, TopOf, pop, return_to_free_list, Machines
  <2> QED  BY <2>5, <2>6
<1> HIDE DEF b
<1>6. /\ t \in Machines /\ t.type = b.type /\ t.car = b.car /\ t.cdr = b.cdr /\ t.spent = b.spent
      /\ t.free_cells = b.free_cells /\ t.cont = b.cont /\ t.env = b.env /\ t.reg2 = TopOf(m)
      /\ t.exhausted = b.exhausted
  BY <1>3 DEF Machines
<1> HIDE DEF t
<1>7. Sound(t, q1, n - 1, a) /\ Kept(m, o, t, q1) /\ Stays(m, o, t, q1, NIL)
  <2>1. Ref(q1, t.cont)
    BY <1>1, <1>6 DEF Sound
  <2> QED  BY <1>1, <1>6, <2>1, RegistersSet DEF Kept, Stays
<1>8. PICK q : /\ Sound(s, q, n - 2, a) /\ Kept(t, q1, s, q) /\ Stays(t, q1, s, q, NIL)
               /\ ShowsSame(t, q1, n - 1, s, q, n - 2)
  BY <1>0, <1>4, <1>7, OnePopped
<1>9. /\ s.reg1 = Second(m) /\ s.reg2 = TopOf(m) /\ s.free_cells # NIL
      /\ s.cont = m.cont /\ s.exhausted = m.exhausted /\ s.spent = m.spent
  BY <1>0, <1>2, <1>4, <1>6, <1>7, OnePopped
<1>10. Kept(m, o, s, q) /\ Stays(m, o, s, q, NIL)
  BY <1>7, <1>8, KeptTransitive, StaysTransitive
<1>12. ShowsSame(m, o, n, s, q, n - 2)
  <2>1. t.env = m.cdr[m.env]
    BY <1>6, <1>11
  <2>2. ShowsSame(m, o, n, t, q1, n - 1)
    BY <1>0, <1>7, <2>1, PopShown DEF ShowsSame
  <2> QED  BY <1>8, <2>2 DEF ShowsSame
<1> QED  BY <1>2, <1>5, <1>8, <1>9, <1>10, <1>12

\* A push is seen.
LEMMA PushSeen ==
  ASSUME NEW m, NEW o, NEW n, NEW a, Sound(m, o, n, a), NEW v \in Value, Ref(o, v),
         v \in Cell => v \in Live(m), NEW s, s = Push(m, v), ~s.exhausted
  PROVE  s.cont = m.cont /\ \E q : Sound(s, q, n + 1, a) /\ ShowsSlot(m, o, n, s, q, n + 1, v)
<1> DEFINE p == s.env
<1>1. s.cont = m.cont /\ s.car[p] = v /\ s.cdr[p] = m.env
  BY Pushed
<1>2. PICK q : Sound(s, q, n + 1, a) /\ In(q, p, "frame", NIL, n + 1) /\ Stays(m, o, s, q, p)
  BY Pushed
<1> HIDE DEF p
<1>3. ShowsSlot(m, o, n, s, q, n + 1, v)
  BY <1>1, <1>2, PushShown DEF ShowsSlot
<1> QED  BY <1>1, <1>2, <1>3

\* The result of a primitive becomes a slot.
LEMMA ResultPushed ==
  ASSUME NEW m, NEW o, NEW n, NEW a, Sound(m, o, n, a), Ref(o, m.reg1),
         NEW s, s = PushResult(m), ~s.exhausted
  PROVE  s.cont = m.cont /\ \E q : Sound(s, q, n + 1, a) /\ ShowsSlot(m, o, n, s, q, n + 1, m.reg1)
<1> DEFINE v == m.reg1
<1>1. v \in Cell => v \in Live(m)
  BY RegistersLive DEF Registers
<1>2. s = Push(m, v) /\ Ref(o, v) /\ v \in Value
  BY DEF PushResult, Sound, Machines
<1> HIDE DEF v
<1>3. s.cont = m.cont /\ \E q : Sound(s, q, n + 1, a) /\ ShowsSlot(m, o, n, s, q, n + 1, v)
  BY <1>1, <1>2, PushSeen
<1> QED  BY <1>3 DEF v

\* A primitive of one argument.
LEMMA TopReplaced ==
  ASSUME NEW m, NEW o, NEW n, NEW a, Sound(m, o, n, a), n # 0, NEW v, Ref(o, v),
         NEW s, s = PushResult([Pop1(m) EXCEPT !.reg1 = v]), ~s.exhausted
  PROVE  s.cont = m.cont /\ \E q : Sound(s, q, n, a) /\ ShowsSlot(m, o, n, s, q, n, v)
<1> DEFINE b == Pop1(m)
           t == [b EXCEPT !.reg1 = v]
<1>1. PICK q : Sound(b, q, n - 1, a) /\ Kept(m, o, b, q) /\ ShowsSame(m, o, n, b, q, n - 1)
  BY OnePopped
<1>7. b.cont = m.cont
  BY OnePopped
<1>2. b \in Machines /\ v \in Value /\ n \in Nat
  BY <1>1 DEF Sound, Ref, IsObject, Value
<1> HIDE DEF b
<1>3. /\ t \in Machines /\ t.type = b.type /\ t.car = b.car /\ t.cdr = b.cdr /\ t.spent = b.spent
      /\ t.free_cells = b.free_cells /\ t.cont = b.cont /\ t.env = b.env /\ t.reg1 = v
  BY <1>2 DEF Machines
<1>4. s = PushResult(t)
  BY DEF b
<1> HIDE DEF t
<1>5. Sound(t, q, n - 1, a) /\ Ref(q, t.reg1)
  <2>1. Ref(q, t.cont)
    BY <1>1, <1>3 DEF Sound
  <2> QED  BY <1>1, <1>3, <2>1, RegistersSet, KeptRef
<1>6. n - 1 + 1 = n
  BY <1>2
<1>8. PICK r : Sound(s, r, n, a) /\ ShowsSlot(t, q, n - 1, s, r, n, v)
  <2> DEFINE i == n - 1
  <2>1. i + 1 = n /\ t.reg1 = v /\ Sound(t, q, i, a)
    BY <1>3, <1>5, <1>6
  <2> HIDE DEF i
  <2>2. PICK r : Sound(s, r, i + 1, a) /\ ShowsSlot(t, q, i, s, r, i + 1, t.reg1)
    BY <1>4, <1>5, <2>1, ResultPushed
  <2> QED  BY <2>1, <2>2 DEF i
<1>9. \A g : Shows(b, q, n - 1, g) => Shows(t, q, n - 1, g)
  BY <1>3 DEF Shows, CellShows, KindOf
<1>10. ShowsSlot(m, o, n, s, r, n, v)
  BY <1>1, <1>8, <1>9 DEF ShowsSlot, ShowsSame
<1>11. s.cont = m.cont
  BY <1>3, <1>4, <1>5, <1>7, ResultPushed
<1> QED  BY <1>8, <1>10, <1>11

\* An instruction that loads a value, with reg1 = r meanwhile.
LEMMA ValuePushed ==
  ASSUME NEW m, NEW o, NEW n, NEW a, Sound(m, o, n, a), NEW v, Ref(o, v), NEW r \in Value,
         v = NIL \/ r = v \/ (r \in Cell /\ m.type[r] = CONS_TYPE /\ v = m.car[r]),
         NEW s, s = [Push([m EXCEPT !.reg1 = r], v) EXCEPT !.reg1 = NIL], ~s.exhausted
  PROVE  s.cont = m.cont /\ \E q : Sound(s, q, n + 1, a) /\ ShowsSlot(m, o, n, s, q, n + 1, v)
<1> DEFINE b == [m EXCEPT !.reg1 = r]
           t == Push(b, v)
<1>0. m \in Machines /\ NIL \in Value
  BY DEF Sound, Value
<1>1. /\ b \in Machines /\ b.type = m.type /\ b.car = m.car /\ b.cdr = m.cdr /\ b.spent = m.spent
      /\ b.free_cells = m.free_cells /\ b.cont = m.cont /\ b.env = m.env /\ b.reg1 = r
  BY <1>0 DEF Machines
<1> HIDE DEF b
<1>2. Sound(b, o, n, a)
  <2>1. Ref(o, b.cont)
    BY <1>1 DEF Sound
  <2> QED  BY <1>1, <2>1, RegistersSet
<1>3. v \in Cell => v \in Live(b)
  <2>1. r \in Cell => r \in Live(b)
    BY <1>1, RegistersLive DEF Registers
  <2>2. r \in Live(b) => LinksOf(r, b.type, b.car, b.cdr) \subseteq Live(b)
    BY LiveIs
  <2>3. r \in Cell /\ m.type[r] = CONS_TYPE /\ v = m.car[r] /\ v \in Cell
        => v \in LinksOf(r, b.type, b.car, b.cdr)
    BY <1>1 DEF LinksOf, HasLeftLinkTypes, HasRightLinkTypes
  <2> QED  BY <2>1, <2>2, <2>3, NilAssumption
<1>4. t \in Machines /\ t.cont = m.cont
  BY <1>1, <1>2, <1>3, Pushed
<1>5. s = [t EXCEPT !.reg1 = NIL]
  BY DEF b
<1> HIDE DEF t
<1>6. ~t.exhausted
  BY <1>4, <1>5 DEF Machines
<1>7. PICK q : Sound(t, q, n + 1, a) /\ ShowsSlot(b, o, n, t, q, n + 1, v)
  <2>1. v \in Value
    BY DEF Ref, IsObject, Value
  <2> QED  BY <1>2, <1>3, <1>6, <2>1, PushSeen DEF t
<1>8. /\ s \in Machines /\ s.type = t.type /\ s.car = t.car /\ s.cdr = t.cdr /\ s.spent = t.spent
      /\ s.free_cells = t.free_cells /\ s.cont = t.cont /\ s.env = t.env
  BY <1>0, <1>4, <1>5 DEF Machines
<1>9. Sound(s, q, n + 1, a)
  <2>1. Ref(q, s.cont)
    BY <1>7, <1>8 DEF Sound
  <2> QED  BY <1>7, <1>8, <2>1, RegistersSet
<1>10. ShowsSlot(m, o, n, s, q, n + 1, v)
  <2>1. \A g : Shows(m, o, n, g) => Shows(b, o, n, g)
    BY <1>1 DEF Shows, CellShows, KindOf
  <2>2. \A g : Shows(t, q, n + 1, g) => Shows(s, q, n + 1, g)
    BY <1>8 DEF Shows, CellShows, KindOf
  <2> QED  BY <1>7, <2>1, <2>2 DEF ShowsSlot
<1> QED  BY <1>4, <1>8, <1>9, <1>10

\* The machine, at an address of the program.
Sane(m, at) == at \in Address /\ at.temps <= at.slots /\ \E o : Sound(m, o, at.slots, 0)

\* What the machine shows to the program at an address, with continuation k.
Pictured(m, at, k, g) ==
  /\ at \in Address /\ at.temps <= at.slots /\ m.cont = k
  /\ \E o : Sound(m, o, at.slots, 0) /\ Shows(m, o, at.slots, g)

\* A sane machine shows something.
LEMMA SaneIsPictured ==
  ASSUME NEW m, NEW at
  PROVE  Sane(m, at) <=> \E g : Pictured(m, at, m.cont, g)
<1>1. ASSUME Sane(m, at) PROVE \E g : Pictured(m, at, m.cont, g)
  <2>1. PICK o : Sound(m, o, at.slots, 0)
    BY <1>1 DEF Sane
  <2>2. \E g : Shows(m, o, at.slots, g)
    BY <2>1, SomethingShown
  <2> QED  BY <1>1, <2>1, <2>2 DEF Sane, Pictured
<1> QED  BY <1>1 DEF Sane, Pictured

\* It shows g but for one slot, or for one object.
SlotSet(g, i, v, s, at, k) ==
  \E h : Pictured(s, at, k, h) /\ h.slot[NIL][i] = v /\ OnlySlot(g, h, i)
ObjectSet(g, c, kind, x, y, s, at, k) ==
  \E h : /\ Pictured(s, at, k, h)
         /\ h.kind[c] = kind /\ h.car[c] = x /\ h.cdr[c] = y /\ OnlyObject(g, h, c)

\* A view with another slot is the view of what comes next.
LEMMA SlotIsPictured ==
  ASSUME NEW m, NEW o, NEW n, NEW g, Shows(m, o, n, g), NEW s, NEW at \in Address, at.temps <= at.slots,
         NEW k, s.cont = k, NEW q, NEW i \in Nat, i = at.slots, Sound(s, q, i, 0),
         NEW v \in Value, ShowsSlot(m, o, n, s, q, i, v)
  PROVE  SlotSet(g, i, v, s, at, k)
<1>1. PICK h : h = WithSlot(g, i, v)
  OBVIOUS
<1>2. g \in Views
  BY DEF Shows
<1>3. h.slot[NIL][i] = v /\ OnlySlot(g, h, i)
  BY <1>1, <1>2, WithSlotIs
<1>4. Shows(s, q, i, h)
  BY <1>1 DEF ShowsSlot
<1> QED  BY <1>3, <1>4 DEF SlotSet, Pictured

\* The address after an instruction that pops no more than the temporaries.
LEMMA MovedIs ==
  ASSUME pc \in Address, pc.temps <= pc.slots, NEW i \in Nat, NEW j \in Nat, i <= pc.temps
  PROVE  /\ Moved(i, j) \in Address /\ Moved(i, j).temps <= Moved(i, j).slots
         /\ Moved(i, j).slots = pc.slots - i + j /\ Moved(i, j).temps = pc.temps - i + j
BY DEF Moved, Address

\* A reference to a cell of some type that is no global refers to an object.
LEMMA AnObject ==
  ASSUME NEW o, NEW v, Ref(o, v), NEW t, IsA(v, t)
  PROVE  IsObject(o, v) /\ vm.type[v] = t
BY NilAssumption DEF IsA, Ref

\* PushConstant
LEMMA ConstantIsPushed ==
  ASSUME NEW g, Pictured(vm, pc, vm.cont, g), NEW s, s = Push(vm, NIL), ~s.exhausted
  PROVE  SlotSet(g, pc.slots + 1, NIL, s, Moved(0, 1), vm.cont)
<1>1. PICK o : Sound(vm, o, pc.slots, 0) /\ Shows(vm, o, pc.slots, g)
  BY DEF Pictured
<1>2. Ref(o, NIL) /\ NIL \notin Cell /\ pc.slots \in Nat /\ NIL \in Value
  BY <1>1, NilAssumption DEF Ref, Sound, Value
<1>3. PICK v : v = NIL
  OBVIOUS
<1>4. PICK q : Sound(s, q, pc.slots + 1, 0) /\ ShowsSlot(vm, o, pc.slots, s, q, pc.slots + 1, v)
  BY <1>1, <1>2, <1>3, PushSeen
<1>5. s.cont = vm.cont
  BY <1>1, <1>2, <1>3, PushSeen
<1>6. /\ Moved(0, 1) \in Address /\ Moved(0, 1).temps <= Moved(0, 1).slots
      /\ pc.slots + 1 = Moved(0, 1).slots /\ pc.slots + 1 \in Nat
  BY <1>2, MovedIs DEF Pictured, Address
<1> QED  BY <1>1, <1>2, <1>3, <1>4, <1>5, <1>6, SlotIsPictured

\* The cells of the globals.
LEMMA GlobalIs ==
  ASSUME NEW m, NEW o, NEW n, NEW a, Sound(m, o, n, a), NEW i \in GlobalVars
  PROVE  /\ Ref(o, Global(m, i))
         /\ i \div 2 \in Cell /\ o.role[i \div 2] = "global" /\ m.type[i \div 2] = CONS_TYPE
         /\ Ref(o, m.car[i \div 2]) /\ Ref(o, m.cdr[i \div 2])
<1>1. i \div 2 \in ReservedCell
  BY HeapEndAssumption, ReservedAssumption DEF GlobalVars, ReservedCell, Cell
<1>2. i \div 2 \in Cell /\ CellSound(m, o, n, a, i \div 2)
  BY <1>1 DEF ReservedCell, Sound
<1> QED  BY <1>1, <1>2 DEF CellSound, GlobalSound, Global

\* PushGlobal
LEMMA GlobalIsPushed ==
  ASSUME NEW g, Pictured(vm, pc, vm.cont, g), NEW i \in GlobalVars,
         NEW s, s = [Push([vm EXCEPT !.reg1 = Global(vm, i)], Global(vm, i)) EXCEPT !.reg1 = NIL],
         ~s.exhausted
  PROVE  SlotSet(g, pc.slots + 1, Global(vm, i), s, Moved(0, 1), vm.cont)
<1>0. PICK v : v = Global(vm, i)
  OBVIOUS
<1>1. PICK o : Sound(vm, o, pc.slots, 0) /\ Shows(vm, o, pc.slots, g)
  BY DEF Pictured
<1>2. Ref(o, v) /\ v \in Value /\ pc.slots \in Nat
  BY <1>0, <1>1, GlobalIs DEF Ref, IsObject, Value, Sound
<1>3. s = [Push([vm EXCEPT !.reg1 = v], v) EXCEPT !.reg1 = NIL]
  BY <1>0
<1>7. s.cont = vm.cont /\ \E q : Sound(s, q, pc.slots + 1, 0) /\ ShowsSlot(vm, o, pc.slots, s, q, pc.slots + 1, v)
  BY <1>1, <1>2, <1>3, ValuePushed
<1>4. PICK q : Sound(s, q, pc.slots + 1, 0) /\ ShowsSlot(vm, o, pc.slots, s, q, pc.slots + 1, v)
  BY <1>7
<1>5. s.cont = vm.cont
  BY <1>7
<1>6. /\ Moved(0, 1) \in Address /\ Moved(0, 1).temps <= Moved(0, 1).slots
      /\ pc.slots + 1 = Moved(0, 1).slots /\ pc.slots + 1 \in Nat
  BY <1>2, MovedIs DEF Pictured, Address
<1> QED  BY <1>0, <1>1, <1>2, <1>4, <1>5, <1>6, SlotIsPictured

\* PrimPop
LEMMA TopIsDropped ==
  ASSUME NEW g, Pictured(vm, pc, vm.cont, g), pc.temps > 0, NEW s, s = pop(vm)
  PROVE  Pictured(s, Moved(1, 0), vm.cont, g)
<1>1. PICK o : Sound(vm, o, pc.slots, 0) /\ Shows(vm, o, pc.slots, g)
  BY DEF Pictured
<1>2. pc.slots \in Nat /\ pc.slots # 0 /\ 1 <= pc.temps /\ pc.slots - 1 + 0 = pc.slots - 1
  BY DEF Pictured, Address
<1>3. PICK q : Sound(s, q, pc.slots - 1, 0) /\ Stays(vm, o, s, q, NIL)
  BY <1>1, <1>2, Popped
<1>4. s.cont = vm.cont
  BY <1>1, <1>2, Popped
<1>5. s.env = vm.cdr[vm.env]
  <2>1. vm \in Machines
    BY <1>1 DEF Sound
  <2> QED  BY <2>1 DEF pop, return_to_free_list, Machines
<1>6. Shows(s, q, pc.slots - 1, g)
  BY <1>1, <1>2, <1>3, <1>5, PopShown
<1> QED  BY <1>2, <1>3, <1>4, <1>6, MovedIs DEF Pictured

\* Two fields are seen to change.
LEMMA FieldsShown ==
  ASSUME NEW m, NEW o, NEW n, NEW a, Sound(m, o, n, a), NEW g, Shows(m, o, n, g),
         NEW p \in Cell, o.role[p] \in {"global", "object"}, m.type[p] = CONS_TYPE,
         NEW s \in Machines, s.type = m.type, s.env = m.env, s.spent = m.spent,
         \A c \in Cell : c # p => s.car[c] = m.car[c] /\ s.cdr[c] = m.cdr[c],
         NEW x, x = s.car[p], NEW y, y = s.cdr[p]
  PROVE  Shows(s, o, n, WithObject(g, p, g.kind[p], x, y))
<1>1. PICK kind : kind = g.kind[p]
  OBVIOUS
<1>2. g \in Views
  BY DEF Shows
<1>3. kind \in Kinds
  BY <1>1, <1>2 DEF Views
<1>4. x \in Value
  BY DEF Machines
<1>5. y \in Word
  BY DEF Machines
<1>6. PICK h : h = WithObject(g, p, kind, x, y)
  OBVIOUS
<1>7. h \in Views /\ h.kind[p] = kind /\ h.car[p] = x /\ h.cdr[p] = y /\ OnlyObject(g, h, p)
  BY <1>2, <1>3, <1>4, <1>5, <1>6, WithObjectIs
<1>8. Stays(m, o, s, o, p)
  BY DEF Stays, SameLabel
<1>9. CellShows(s, o, h, p)
  <2>1. CellShows(m, o, g, p)
    BY DEF Shows
  <2>2. KindOf(s, p) = KindOf(m, p)
    BY DEF KindOf
  <2> QED  BY <1>1, <1>7, <2>1, <2>2 DEF CellShows
<1>10. ASSUME NEW c \in Cell, c # p PROVE CellShows(m, o, h, c)
  <2>1. CellShows(m, o, g, c)
    BY DEF Shows
  <2> QED  BY <1>7, <1>10, <2>1 DEF CellShows, OnlyObject
<1>11. n = 0 => s.env = h.bottom[NIL]
  BY <1>7 DEF Shows, OnlyObject
<1>12. Shows(s, o, n, h)
  BY <1>7, <1>8, <1>9, <1>10, <1>11, ShowsBut
<1> QED  BY <1>1, <1>6, <1>12

\* A view with another object is the view of what comes next.
LEMMA ObjectIsPictured ==
  ASSUME NEW g \in Views, NEW s, NEW at \in Address, at.temps <= at.slots,
         NEW k, s.cont = k, NEW q, Sound(s, q, at.slots, 0),
         NEW c \in Cell, NEW kind \in Kinds, NEW x \in Value, NEW y \in Word,
         Shows(s, q, at.slots, WithObject(g, c, kind, x, y))
  PROVE  ObjectSet(g, c, kind, x, y, s, at, k)
<1>1. PICK h : h = WithObject(g, c, kind, x, y)
  OBVIOUS
<1>2. h.kind[c] = kind /\ h.car[c] = x /\ h.cdr[c] = y /\ OnlyObject(g, h, c)
  BY <1>1, WithObjectIs
<1> QED  BY <1>1, <1>2 DEF ObjectSet, Pictured

\* What the running procedure has on top.
LEMMA TopIs ==
  ASSUME NEW g, Pictured(vm, pc, vm.cont, g), pc.temps > 0
  PROVE  /\ TopOf(vm) = g.slot[NIL][pc.slots]
         /\ pc.temps > 1 => Second(vm) = g.slot[NIL][pc.slots - 1]
<1>1. PICK o : Sound(vm, o, pc.slots, 0) /\ Shows(vm, o, pc.slots, g)
  BY DEF Pictured
<1>2. pc.slots \in Nat /\ pc.slots # 0
  BY DEF Pictured, Address
<1>3. TopOf(vm) = g.slot[NIL][pc.slots]
  BY <1>1, <1>2, TopShown
<1>4. ASSUME pc.temps > 1 PROVE Second(vm) = g.slot[NIL][pc.slots - 1]
  <2>1. pc.slots - 1 # 0
    BY <1>4 DEF Pictured, Address
  <2>2. PICK b : b = pop(vm)
    OBVIOUS
  <2>3. PICK o2 : Sound(b, o2, pc.slots - 1, 0) /\ Stays(vm, o, b, o2, NIL)
    BY <1>1, <1>2, <2>2, Popped
  <2>4. b.env = vm.cdr[vm.env]
    BY <1>1, <2>2 DEF pop, return_to_free_list, Machines, Sound
  <2>5. Shows(b, o2, pc.slots - 1, g)
    BY <1>1, <1>2, <2>3, <2>4, PopShown
  <2>6. TopOf(b) = g.slot[NIL][pc.slots - 1]
    <3>1. PICK i : i = pc.slots - 1
      OBVIOUS
    <3>2. i # 0 /\ Sound(b, o2, i, 0) /\ Shows(b, o2, i, g)
      BY <2>1, <2>3, <2>5, <3>1
    <3>3. TopOf(b) = g.slot[NIL][i]
      BY <3>2, TopShown
    <3> QED  BY <3>1, <3>3
  <2> QED  BY <2>2, <2>6 DEF Second
<1> QED  BY <1>3, <1>4

\* SetGlobal
LEMMA GlobalIsSet ==
  ASSUME NEW g, Pictured(vm, pc, vm.cont, g), pc.temps > 0, NEW i \in GlobalVars,
         NEW p, p = i \div 2, NEW s, s = GLOBAL_SET(pop(vm), i, TopOf(vm))
  PROVE  /\ ObjectSet(g, p, g.kind[p], s.car[p], s.cdr[p], s, Moved(1, 0), vm.cont)
         /\ s.car[p] = IF i % 2 = 1 THEN TopOf(vm) ELSE g.car[p]
         /\ s.cdr[p] = IF i % 2 = 1 THEN g.cdr[p] ELSE TopOf(vm)
         /\ p \in Cell
<1> DEFINE b == pop(vm)
           v == TopOf(vm)
<1>1. PICK o : Sound(vm, o, pc.slots, 0) /\ Shows(vm, o, pc.slots, g)
  BY DEF Pictured
<1>2. /\ pc.slots \in Nat /\ pc.slots # 0 /\ 1 <= pc.temps /\ pc.slots - 1 + 0 = pc.slots - 1
      /\ g \in Views
  BY <1>1 DEF Pictured, Address, Shows
<1>3. PICK q : Sound(b, q, pc.slots - 1, 0) /\ Kept(vm, o, b, q) /\ Stays(vm, o, b, q, NIL)
  BY <1>1, <1>2, Popped
<1>10. b.cont = vm.cont /\ b.env = vm.cdr[vm.env]
  <2>1. b.cont = vm.cont
    BY <1>1, <1>2, Popped
  <2> QED  BY <1>1, <2>1 DEF pop, return_to_free_list, Machines, Sound
<1>11. Shows(b, q, pc.slots - 1, g)
  BY <1>1, <1>2, <1>3, <1>10, PopShown
<1>4. Ref(q, v) /\ v \in Value
  <2>1. Ref(o, v)
    BY <1>1, <1>2, Popped
  <2>2. Ref(q, v)
    BY <1>3, <2>1, KeptRef
  <2> QED  BY <2>2 DEF Ref, IsObject, Value
<1>5. /\ p \in Cell /\ q.role[p] = "global" /\ b.type[p] = CONS_TYPE
      /\ Ref(q, b.car[p]) /\ Ref(q, b.cdr[p])
  BY <1>3, GlobalIs
<1>6. s = IF i % 2 = 1 THEN [b EXCEPT !.car[p] = v] ELSE [b EXCEPT !.cdr[p] = v]
  BY DEF GLOBAL_SET
<1>12. b.car[p] = g.car[p] /\ b.cdr[p] = g.cdr[p] /\ g.kind[p] \in Kinds
  BY <1>2, <1>5, <1>11 DEF Shows, CellShows, Views
<1>7. b \in Machines /\ Ref(q, b.cont) /\ v \in Word
  BY <1>3, <1>4 DEF Sound, Word
<1> HIDE DEF b, v
<1>8. /\ s \in Machines /\ s.type = b.type /\ s.free_cells = b.free_cells /\ s.env = b.env
      /\ s.spent = b.spent /\ s.cont = b.cont
      /\ s.car[p] = (IF i % 2 = 1 THEN v ELSE b.car[p])
      /\ s.cdr[p] = (IF i % 2 = 1 THEN b.cdr[p] ELSE v)
      /\ \A c \in Cell : c # p => s.car[c] = b.car[c] /\ s.cdr[c] = b.cdr[c]
  BY <1>4, <1>5, <1>6, <1>7 DEF Machines
<1>9. Sound(s, q, pc.slots - 1, 0)
  BY <1>3, <1>4, <1>5, <1>7, <1>8, FieldsSet
<1>13. PICK x, y, kind : x = s.car[p] /\ y = s.cdr[p] /\ kind = g.kind[p]
  OBVIOUS
<1>14. Shows(s, q, pc.slots - 1, WithObject(g, p, kind, x, y))
  BY <1>3, <1>5, <1>8, <1>11, <1>13, FieldsShown
<1>15. x \in Value /\ y \in Word
  BY <1>5, <1>8, <1>13 DEF Machines
<1>16. PICK at : at = Moved(1, 0)
  OBVIOUS
<1>17. at \in Address /\ at.temps <= at.slots /\ at.slots = pc.slots - 1
  BY <1>2, <1>16, MovedIs DEF Pictured
<1>18. ObjectSet(g, p, kind, x, y, s, at, vm.cont)
  <2>1. PICK k : k = vm.cont
    OBVIOUS
  <2>2. s.cont = k
    BY <1>8, <1>10, <2>1
  <2>3. Sound(s, q, at.slots, 0)
    BY <1>9, <1>17
  <2>4. Shows(s, q, at.slots, WithObject(g, p, kind, x, y))
    BY <1>14, <1>17
  <2>5. kind \in Kinds
    BY <1>12, <1>13
  <2>6. ObjectSet(g, p, kind, x, y, s, at, k)
    BY <1>2, <1>5, <1>15, <1>17, <2>2, <2>3, <2>4, <2>5, ObjectIsPictured
  <2> QED  BY <2>1, <2>6
<1> QED  BY <1>5, <1>8, <1>12, <1>13, <1>16, <1>18 DEF v

\* PrimTest, PrimCar, PrimCdr and PrimStringToList
LEMMA TopIsReplaced ==
  ASSUME NEW g, Pictured(vm, pc, vm.cont, g), pc.temps > 0, NEW v,
         \/ v = NIL
         \/ IsA(TopOf(vm), CONS_TYPE) /\ v \in {vm.car[TopOf(vm)], vm.cdr[TopOf(vm)]}
         \/ IsA(TopOf(vm), STRING_TYPE) /\ v = vm.car[TopOf(vm)],
         NEW s, s = PushResult([Pop1(vm) EXCEPT !.reg1 = v]), ~s.exhausted
  PROVE  SlotSet(g, pc.slots, v, s, Moved(1, 1), vm.cont)
<1>1. PICK o : Sound(vm, o, pc.slots, 0) /\ Shows(vm, o, pc.slots, g)
  BY DEF Pictured
<1>2. pc.slots \in Nat /\ pc.slots # 0 /\ 1 <= pc.temps /\ pc.slots - 1 + 1 = pc.slots
  BY DEF Pictured, Address
<1>3. Ref(o, TopOf(vm))
  BY <1>1, <1>2, Popped
<1>4. Ref(o, v)
  <2>1. CASE v = NIL
    BY <2>1 DEF Ref
  <2>2. ASSUME NEW t \in {CONS_TYPE, STRING_TYPE}, IsA(TopOf(vm), t)
        PROVE  CellSound(vm, o, pc.slots, 0, TopOf(vm)) /\ o.role[TopOf(vm)] = "object" /\ vm.type[TopOf(vm)] = t
    BY <1>1, <1>3, <2>2, AnObject DEF Sound, IsObject
  <2> QED  BY <2>1, <2>2 DEF CellSound, ObjectSound
<1>5. s.cont = vm.cont /\ \E q : Sound(s, q, pc.slots, 0) /\ ShowsSlot(vm, o, pc.slots, s, q, pc.slots, v)
  BY <1>1, <1>2, <1>4, TopReplaced
<1>6. PICK q : Sound(s, q, pc.slots, 0) /\ ShowsSlot(vm, o, pc.slots, s, q, pc.slots, v)
  BY <1>5
<1>7. Moved(1, 1) \in Address /\ Moved(1, 1).temps <= Moved(1, 1).slots /\ pc.slots = Moved(1, 1).slots
  BY <1>2, MovedIs DEF Pictured
<1>8. v \in Value
  BY <1>4 DEF Ref, IsObject, Value
<1> QED  BY <1>1, <1>2, <1>5, <1>6, <1>7, <1>8, SlotIsPictured

\* PrimGetCont
LEMMA ContinuationIsPushed ==
  ASSUME NEW g, Pictured(vm, pc, vm.cont, g), NEW s, s = PushResult([vm EXCEPT !.reg1 = vm.cont]), ~s.exhausted
  PROVE  SlotSet(g, pc.slots + 1, vm.cont, s, Moved(0, 1), vm.cont)
<1> DEFINE b == [vm EXCEPT !.reg1 = vm.cont]
<1>1. PICK o : Sound(vm, o, pc.slots, 0) /\ Shows(vm, o, pc.slots, g)
  BY DEF Pictured
<1>2. vm \in Machines /\ Ref(o, vm.cont) /\ pc.slots \in Nat
  BY <1>1 DEF Sound
<1>3. /\ b \in Machines /\ b.type = vm.type /\ b.car = vm.car /\ b.cdr = vm.cdr /\ b.spent = vm.spent
      /\ b.free_cells = vm.free_cells /\ b.cont = vm.cont /\ b.env = vm.env /\ b.reg1 = vm.cont
  BY <1>2 DEF Machines
<1> HIDE DEF b
<1>4. Sound(b, o, pc.slots, 0) /\ Ref(o, b.reg1)
  BY <1>1, <1>2, <1>3, RegistersSet
<1>5. s.cont = b.cont /\ \E q : Sound(s, q, pc.slots + 1, 0) /\ ShowsSlot(b, o, pc.slots, s, q, pc.slots + 1, b.reg1)
  BY <1>4, ResultPushed DEF b
<1>6. PICK q : Sound(s, q, pc.slots + 1, 0) /\ ShowsSlot(b, o, pc.slots, s, q, pc.slots + 1, b.reg1)
  BY <1>5
<1>7. Shows(b, o, pc.slots, g)
  BY <1>1, <1>3 DEF Shows, CellShows, KindOf
<1>8. /\ Moved(0, 1) \in Address /\ Moved(0, 1).temps <= Moved(0, 1).slots
      /\ pc.slots + 1 = Moved(0, 1).slots /\ pc.slots + 1 \in Nat
  BY <1>2, MovedIs DEF Pictured, Address
<1>9. vm.cont \in Value /\ s.cont = vm.cont
  BY <1>2, <1>3, <1>5 DEF Machines
<1>10. ShowsSlot(b, o, pc.slots, s, q, pc.slots + 1, vm.cont)
  BY <1>3, <1>6
<1> QED  BY <1>6, <1>7, <1>8, <1>9, <1>10, SlotIsPictured

\* PrimSetCar and PrimSetCdr: the pair in reg1 gets the value in reg2.
CarSet(b) == [b EXCEPT !.car[b.reg1] = b.reg2, !.reg1 = NIL, !.reg2 = NIL]
CdrSet(b) == [b EXCEPT !.cdr[b.reg1] = b.reg2, !.reg1 = NIL, !.reg2 = NIL]

\* They change one object.
LEMMA PairIsSet ==
  ASSUME NEW g, Pictured(vm, pc, vm.cont, g), pc.temps > 1, NEW b, b = Pop2(vm), IsA(b.reg1, CONS_TYPE),
         NEW p, p = b.reg1, NEW s, s = CarSet(b) \/ s = CdrSet(b)
  PROVE  /\ ObjectSet(g, p, g.kind[p], s.car[p], s.cdr[p], s, Moved(2, 0), vm.cont)
         /\ s = CarSet(b) => s.car[p] = b.reg2 /\ s.cdr[p] = g.cdr[p]
         /\ s = CdrSet(b) => s.car[p] = g.car[p] /\ s.cdr[p] = b.reg2
<1> DEFINE v == b.reg2
<1>1. PICK o : Sound(vm, o, pc.slots, 0) /\ Shows(vm, o, pc.slots, g)
  BY DEF Pictured
<1>2. /\ pc.slots \in Nat /\ pc.slots > 1 /\ 2 <= pc.temps /\ pc.slots - 2 + 0 = pc.slots - 2
      /\ g \in Views
  BY <1>1 DEF Pictured, Address, Shows
<1>3. PICK q : /\ Sound(b, q, pc.slots - 2, 0) /\ Kept(vm, o, b, q)
               /\ ShowsSame(vm, o, pc.slots, b, q, pc.slots - 2)
  BY <1>1, <1>2, TwoPopped
<1>4. Ref(o, v) /\ Ref(o, p)
  BY <1>1, <1>2, TwoPopped
<1>5. IsObject(o, p) /\ vm.type[p] = CONS_TYPE
  BY <1>4, AnObject
<1>6. IsObject(q, p) /\ b.type[p] = CONS_TYPE /\ Ref(q, v)
  <2>1. Ref(q, v)
    BY <1>3, <1>4, KeptRef
  <2>2. IsObject(q, p) /\ b.type[p] = vm.type[p]
    BY <1>3, <1>5 DEF Kept, IsObject, SameLabel
  <2> QED  BY <1>5, <2>1, <2>2
<1>7. Ref(q, b.car[p]) /\ Ref(q, b.cdr[p]) /\ p \in Cell /\ q.role[p] = "object"
  <2>1. CellSound(b, q, pc.slots - 2, 0, p)
    BY <1>3, <1>6 DEF Sound, IsObject
  <2> QED  BY <1>6, <2>1 DEF CellSound, ObjectSound, IsObject
<1>8. b \in Machines /\ Ref(q, b.cont) /\ v \in Value /\ v \in Word /\ NIL \in Value
  BY <1>3, <1>6 DEF Sound, Word, Ref, IsObject, Value
<1>9. \/ s = [b EXCEPT !.car[p] = v, !.reg1 = NIL, !.reg2 = NIL]
      \/ s = [b EXCEPT !.cdr[p] = v, !.reg1 = NIL, !.reg2 = NIL]
  BY DEF CarSet, CdrSet
<1>12. Shows(b, q, pc.slots - 2, g)
  BY <1>1, <1>3 DEF ShowsSame
<1>13. b.car[p] = g.car[p] /\ b.cdr[p] = g.cdr[p] /\ g.kind[p] \in Kinds
  <2>1. CONS_TYPE # CONTINUATION_TYPE
    BY DEF CONS_TYPE, CONTINUATION_TYPE
  <2> QED  BY <1>2, <1>6, <1>7, <1>12, <2>1 DEF Shows, CellShows, Views
<1> HIDE DEF v
<1>10. /\ s \in Machines /\ s.type = b.type /\ s.free_cells = b.free_cells /\ s.env = b.env
       /\ s.spent = b.spent /\ s.cont = b.cont
       /\ s.car[p] \in {b.car[p], v} /\ s.cdr[p] \in {b.cdr[p], v}
       /\ \A c \in Cell : c # p => s.car[c] = b.car[c] /\ s.cdr[c] = b.cdr[c]
  <2>1. CASE s = [b EXCEPT !.car[p] = v, !.reg1 = NIL, !.reg2 = NIL]
    <3> DEFINE f == [b.car EXCEPT ![p] = v]
    <3>1. f \in [Cell -> Value] /\ f[p] = v /\ \A c \in Cell : c # p => f[c] = b.car[c]
      BY <1>7, <1>8 DEF Machines
    <3>2. s = [b EXCEPT !.car = f, !.reg1 = NIL, !.reg2 = NIL]
      BY <2>1
    <3> HIDE DEF f
    <3> QED  BY <1>8, <3>1, <3>2 DEF Machines
  <2>2. CASE s = [b EXCEPT !.cdr[p] = v, !.reg1 = NIL, !.reg2 = NIL]
    <3> DEFINE f == [b.cdr EXCEPT ![p] = v]
    <3>1. f \in [Cell -> Word] /\ f[p] = v /\ \A c \in Cell : c # p => f[c] = b.cdr[c]
      BY <1>7, <1>8 DEF Machines
    <3>2. s = [b EXCEPT !.cdr = f, !.reg1 = NIL, !.reg2 = NIL]
      BY <2>2
    <3> HIDE DEF f
    <3> QED  BY <1>8, <3>1, <3>2 DEF Machines
  <2> QED  BY <1>9, <2>1, <2>2
<1>11. Sound(s, q, pc.slots - 2, 0)
  BY <1>3, <1>6, <1>7, <1>8, <1>10, FieldsSet
<1>14. PICK x, y, kind : x = s.car[p] /\ y = s.cdr[p] /\ kind = g.kind[p]
  OBVIOUS
<1>15. Shows(s, q, pc.slots - 2, WithObject(g, p, kind, x, y))
  BY <1>3, <1>6, <1>7, <1>10, <1>12, <1>14, FieldsShown
<1>16. x \in Value /\ y \in Word
  BY <1>7, <1>10, <1>14 DEF Machines
<1>17. PICK at : at = Moved(2, 0)
  OBVIOUS
<1>18. at \in Address /\ at.temps <= at.slots /\ at.slots = pc.slots - 2
  BY <1>2, <1>17, MovedIs DEF Pictured
<1>19. s.cont = vm.cont
  BY <1>1, <1>2, <1>10, TwoPopped
<1>20. ObjectSet(g, p, kind, x, y, s, at, vm.cont)
  <2>1. PICK k : k = vm.cont
    OBVIOUS
  <2>2. s.cont = k
    BY <1>19, <2>1
  <2>3. Sound(s, q, at.slots, 0)
    BY <1>11, <1>18
  <2>4. Shows(s, q, at.slots, WithObject(g, p, kind, x, y))
    BY <1>15, <1>18
  <2>5. kind \in Kinds
    BY <1>13, <1>14
  <2>6. ObjectSet(g, p, kind, x, y, s, at, k)
    BY <1>2, <1>7, <1>16, <1>18, <2>2, <2>3, <2>4, <2>5, ObjectIsPictured
  <2> QED  BY <2>1, <2>6
<1>21. s = CarSet(b) => s.car[p] = v /\ s.cdr[p] = b.cdr[p]
  BY <1>7, <1>8 DEF Machines, CarSet, v
<1>22. s = CdrSet(b) => s.car[p] = b.car[p] /\ s.cdr[p] = v
  BY <1>7, <1>8 DEF Machines, CdrSet, v
<1> QED  BY <1>13, <1>14, <1>17, <1>20, <1>21, <1>22 DEF v

\* A reference to an object that the collector keeps.
LiveRef(m, o, v) == v = NIL \/ (IsObject(o, v) /\ v \in Live(m))

\* A machine that shows g and keeps the values R, when cell p is allocated.
Unheld(g, n, k, R, p) ==
  \E b, q : /\ Sound(b, q, n, 0) /\ Shows(b, q, n, g) /\ b.cont = k
            /\ (\A v \in R : LiveRef(b, q, v)) /\ ~Held(b, q, p)

\* It shows g but for a new object p, which is in a slot.
Made(g, i, p, kind, x, y, s, at, k) ==
  \E u, h : /\ u.kind[p] = kind /\ u.car[p] = x /\ u.cdr[p] = y /\ OnlyObject(g, u, p)
            /\ h.slot[NIL][i] = p /\ OnlySlot(u, h, i) /\ Pictured(s, at, k, h)

\* The object p is seen, and the slot that holds it.
ShowsMade(m, o, n, s, q, p) ==
  \A g : Shows(m, o, n, g) =>
    Shows(s, q, n + 1, WithSlot(WithObject(g, p, m.type[p], m.car[p], m.cdr[p]), n + 1, p))

\* The new object m makes of its head is the result of a primitive.
LEMMA MadePushed ==
  ASSUME NEW m, NEW o, NEW n, NEW a, Sound(m, o, n, a), NEW p \in Cell, o.role[p] = "none",
         \/ m.type[p] = CONS_TYPE /\ Ref(o, m.car[p]) /\ Ref(o, m.cdr[p])
         \/ m.type[p] = STRING_TYPE /\ Ref(o, m.car[p]),
         NEW r \in Value, NEW b, b = [m EXCEPT !.reg1 = p, !.reg2 = r],
         NEW s, s = PushResult(b), ~s.exhausted
  PROVE  s.cont = m.cont /\ \E q : Sound(s, q, n + 1, a) /\ ShowsMade(m, o, n, s, q, p)
<1>1. PICK q : Sound(m, q, n, a) /\ IsObject(q, p) /\ ShowsObject(m, o, n, q, p)
  BY ObjectMade
<1>2. m \in Machines /\ Ref(q, m.cont) /\ p \in Value
  BY <1>1 DEF Sound, Value
<1>3. /\ b \in Machines /\ b.type = m.type /\ b.car = m.car /\ b.cdr = m.cdr /\ b.spent = m.spent
      /\ b.free_cells = m.free_cells /\ b.cont = m.cont /\ b.env = m.env /\ b.reg1 = p
  BY <1>2 DEF Machines
<1>4. Sound(b, q, n, a) /\ Ref(q, b.reg1)
  BY <1>1, <1>2, <1>3, RegistersSet DEF Ref
<1>5. s.cont = b.cont /\ \E r1 : Sound(s, r1, n + 1, a) /\ ShowsSlot(b, q, n, s, r1, n + 1, b.reg1)
  BY <1>4, ResultPushed
<1>6. PICK r1 : Sound(s, r1, n + 1, a) /\ ShowsSlot(b, q, n, s, r1, n + 1, p)
  BY <1>3, <1>5
<1>7. \A g : Shows(m, q, n, g) => Shows(b, q, n, g)
  BY <1>3 DEF Shows, CellShows, KindOf
<1>8. ShowsMade(m, o, n, s, r1, p)
  BY <1>1, <1>6, <1>7 DEF ShowsMade, ShowsObject, ShowsSlot
<1> QED  BY <1>3, <1>5, <1>6, <1>8

\* A view with a new object in a slot is the view of what comes next.
LEMMA MadeIsPictured ==
  ASSUME NEW m, NEW o, NEW n \in Nat, NEW g, Shows(m, o, n, g), m \in Machines, NEW p \in Cell,
         NEW kind \in Kinds, kind = m.type[p], NEW x, x = m.car[p], NEW y, y = m.cdr[p],
         NEW s, NEW at \in Address, at.temps <= at.slots, NEW i, i = n + 1, i = at.slots,
         NEW k, s.cont = k, NEW q, Sound(s, q, i, 0), ShowsMade(m, o, n, s, q, p)
  PROVE  Made(g, i, p, kind, x, y, s, at, k)
<1>1. PICK u : u = WithObject(g, p, kind, x, y)
  OBVIOUS
<1>2. g \in Views
  BY DEF Shows
<1>3. x \in Value
  BY DEF Machines
<1>4. y \in Word
  BY DEF Machines
<1>5. u \in Views /\ u.kind[p] = kind /\ u.car[p] = x /\ u.cdr[p] = y /\ OnlyObject(g, u, p)
  BY <1>1, <1>2, <1>3, <1>4, WithObjectIs
<1>6. PICK h : h = WithSlot(u, i, p)
  OBVIOUS
<1>7. p \in Value /\ i \in Nat /\ u \in Views
  BY <1>5 DEF Value
<1>8. h.slot[NIL][i] = p /\ OnlySlot(u, h, i)
  BY <1>6, <1>7, WithSlotIs
<1>9. Shows(s, q, i, h)
  BY <1>1, <1>6 DEF ShowsMade
<1> QED  BY <1>5, <1>8, <1>9 DEF Made, Pictured

\* PrimCons
LEMMA PairIsMade ==
  ASSUME NEW g, Pictured(vm, pc, vm.cont, g), pc.temps > 1, NEW b, b = Pop2(vm),
         NEW s, s = PushResult([new_pair(b, b.reg1, b.reg2) EXCEPT !.reg1 = Allocated(b), !.reg2 = NIL]),
         ~s.exhausted
  PROVE  \E p \in Cell : /\ Unheld(g, pc.slots - 2, vm.cont, {b.reg1, b.reg2}, p)
                         /\ Made(g, pc.slots - 1, p, CONS_TYPE, b.reg1, b.reg2, s, Moved(2, 1), vm.cont)
<1> DEFINE t == new_pair(b, b.reg1, b.reg2)
           p == Allocated(b)
<1>1. PICK o : Sound(vm, o, pc.slots, 0) /\ Shows(vm, o, pc.slots, g)
  BY DEF Pictured
<1>2. /\ pc.slots \in Nat /\ pc.slots > 1 /\ 2 <= pc.temps
      /\ pc.slots - 2 + 1 = pc.slots - 1 /\ NIL \in Value
  BY DEF Pictured, Address, Value
<1>3. PICK q : /\ Sound(b, q, pc.slots - 2, 0) /\ Kept(vm, o, b, q)
               /\ ShowsSame(vm, o, pc.slots, b, q, pc.slots - 2)
  BY <1>1, <1>2, TwoPopped
<1>4. Ref(o, b.reg2) /\ Ref(o, b.reg1) /\ b.free_cells # NIL
  BY <1>1, <1>2, TwoPopped
<1>5. Ref(q, b.reg2) /\ Ref(q, b.reg1)
  BY <1>3, <1>4, KeptRef
<1>6. b.reg1 \in Value /\ b.reg2 \in Word
  BY <1>5 DEF Ref, IsObject, Value, Word
<1>7. s = PushResult([t EXCEPT !.reg1 = p, !.reg2 = NIL]) /\ t = new_pair(b, b.reg1, b.reg2) /\ p = Allocated(b)
  OBVIOUS
<1> HIDE DEF t, p
<1>8. p \in Cell /\ t.type[p] = CONS_TYPE /\ t.car[p] = b.reg1 /\ t.cdr[p] = b.reg2 /\ p # NIL
  BY <1>3, <1>4, <1>6, <1>7, PairAllocated
<1>9. PICK r : Sound(t, r, pc.slots - 2, 0) /\ Fresh(b, q, t, r, p)
  BY <1>3, <1>6, <1>7, PairAllocated
<1>10. r.role[p] = "none" /\ Ref(r, b.reg1) /\ Ref(r, b.reg2)
  BY <1>5, <1>8, <1>9, HeldRef, RegistersLive DEF Fresh, Registers
<1>11. s.cont = t.cont /\ \E w : Sound(s, w, pc.slots - 2 + 1, 0) /\ ShowsMade(t, r, pc.slots - 2, s, w, p)
  <2> DEFINE u == [t EXCEPT !.reg1 = p, !.reg2 = NIL]
             n == pc.slots - 2
             x == NIL
  <2>1. /\ s = PushResult(u) /\ u = [t EXCEPT !.reg1 = p, !.reg2 = x] /\ Sound(t, r, n, 0)
        /\ x \in Value
    BY <1>2, <1>7, <1>9
  <2>2. t.type[p] = CONS_TYPE /\ Ref(r, t.car[p]) /\ Ref(r, t.cdr[p])
    BY <1>8, <1>10
  <2> HIDE DEF u, n, x
  <2>3. s.cont = t.cont /\ \E w : Sound(s, w, n + 1, 0) /\ ShowsMade(t, r, n, s, w, p)
    BY <1>8, <1>10, <2>1, <2>2, MadePushed
  <2> QED  BY <2>3 DEF n
<1>12. Shows(b, q, pc.slots - 2, g)
  BY <1>1, <1>3 DEF ShowsSame
<1>13. SameRegisters(b, t) /\ b.cont = vm.cont
  <2>1. SameRegisters(b, t)
    BY <1>3, <1>6, <1>7, PairAllocated
  <2>2. b.cont = vm.cont
    BY <1>1, <1>2, TwoPopped
  <2> QED  BY <2>1, <2>2
<1>14. Shows(t, r, pc.slots - 2, g)
  <2>1. pc.slots - 2 = 0 => t.env = g.bottom[NIL]
    BY <1>12, <1>13 DEF Shows, SameRegisters
  <2>2. Stays(b, q, t, r, NIL)
    BY <1>9 DEF Fresh
  <2> QED  BY <1>12, <2>1, <2>2, ShowsKept
<1>15. Unheld(g, pc.slots - 2, vm.cont, {b.reg1, b.reg2}, p)
  <2>1. \A v \in {b.reg1, b.reg2} : LiveRef(b, q, v)
    BY <1>5, RegistersLive DEF Registers, Ref, LiveRef, IsObject
  <2> QED  BY <1>3, <1>8, <1>9, <1>12, <1>13, <2>1 DEF Unheld, Fresh
<1>16. PICK w : Sound(s, w, pc.slots - 2 + 1, 0) /\ ShowsMade(t, r, pc.slots - 2, s, w, p)
  BY <1>11
<1>17. Made(g, pc.slots - 1, p, CONS_TYPE, b.reg1, b.reg2, s, Moved(2, 1), vm.cont)
  <2>1. PICK n, i, at, k, kind : /\ n = pc.slots - 2 /\ i = pc.slots - 1 /\ at = Moved(2, 1)
                                 /\ k = vm.cont /\ kind = CONS_TYPE
    OBVIOUS
  <2>2. n \in Nat /\ i = n + 1
    BY <1>2, <2>1
  <2>3. at \in Address /\ at.temps <= at.slots /\ i = at.slots
    BY <1>2, <2>1, MovedIs DEF Pictured
  <2>4. Shows(t, r, n, g) /\ Sound(s, w, i, 0) /\ ShowsMade(t, r, n, s, w, p)
    BY <1>2, <1>14, <1>16, <2>1
  <2>5. s.cont = k
    BY <1>11, <1>13, <2>1 DEF SameRegisters
  <2>6. kind \in Kinds /\ kind = t.type[p] /\ t \in Machines /\ p \in Cell
    BY <1>8, <1>9, <2>1 DEF Kinds, Sound
  <2>7. PICK x, y : x = t.car[p] /\ y = t.cdr[p]
    OBVIOUS
  <2>8. Made(g, i, p, kind, x, y, s, at, k)
    BY <2>2, <2>3, <2>4, <2>5, <2>6, <2>7, MadeIsPictured
  <2> QED  BY <1>8, <2>1, <2>7, <2>8
<1> QED  BY <1>8, <1>15, <1>17

\* PrimListToString
LEMMA StringIsMade ==
  ASSUME NEW g, Pictured(vm, pc, vm.cont, g), pc.temps > 0, NEW b, b = Pop1(vm),
         NEW s, s = PushResult([new_string(b, b.reg1) EXCEPT !.reg1 = Allocated(b)]), ~s.exhausted
  PROVE  \E p \in Cell : \E y : /\ Unheld(g, pc.slots - 1, vm.cont, {b.reg1}, p)
                                /\ Made(g, pc.slots, p, STRING_TYPE, b.reg1, y, s, Moved(1, 1), vm.cont)
<1> DEFINE t == new_string(b, b.reg1)
           p == Allocated(b)
<1>1. PICK o : Sound(vm, o, pc.slots, 0) /\ Shows(vm, o, pc.slots, g)
  BY DEF Pictured
<1>2. /\ pc.slots \in Nat /\ pc.slots # 0 /\ 1 <= pc.temps
      /\ pc.slots - 1 + 1 = pc.slots
  BY DEF Pictured, Address
<1>3. PICK q : /\ Sound(b, q, pc.slots - 1, 0) /\ Kept(vm, o, b, q)
               /\ ShowsSame(vm, o, pc.slots, b, q, pc.slots - 1)
  BY <1>1, <1>2, OnePopped
<1>4. Ref(o, b.reg1) /\ b.free_cells # NIL
  BY <1>1, <1>2, OnePopped
<1>5. Ref(q, b.reg1)
  BY <1>3, <1>4, KeptRef
<1>6. b.reg1 \in Value
  BY <1>5 DEF Ref, IsObject, Value
<1>7. s = PushResult([t EXCEPT !.reg1 = p]) /\ t = new_string(b, b.reg1) /\ p = Allocated(b)
  OBVIOUS
<1> HIDE DEF t, p
<1>8. p \in Cell /\ t.type[p] = STRING_TYPE /\ t.car[p] = b.reg1 /\ p # NIL
  BY <1>3, <1>4, <1>6, <1>7, StringAllocated
<1>9. PICK r : Sound(t, r, pc.slots - 1, 0) /\ Fresh(b, q, t, r, p)
  BY <1>3, <1>6, <1>7, StringAllocated
<1>10. r.role[p] = "none" /\ Ref(r, b.reg1)
  BY <1>5, <1>8, <1>9, HeldRef, RegistersLive DEF Fresh, Registers
<1>11. t.reg2 \in Value /\ [t EXCEPT !.reg1 = p] = [t EXCEPT !.reg1 = p, !.reg2 = t.reg2]
  <2>1. t \in Machines
    BY <1>9 DEF Sound
  <2> QED  BY <2>1 DEF Machines
<1>12. s.cont = t.cont /\ \E w : Sound(s, w, pc.slots - 1 + 1, 0) /\ ShowsMade(t, r, pc.slots - 1, s, w, p)
  <2> DEFINE u == [t EXCEPT !.reg1 = p]
             n == pc.slots - 1
             x == t.reg2
  <2>1. /\ s = PushResult(u) /\ u = [t EXCEPT !.reg1 = p, !.reg2 = x] /\ Sound(t, r, n, 0)
        /\ x \in Value
    BY <1>7, <1>9, <1>11
  <2>2. t.type[p] = STRING_TYPE /\ Ref(r, t.car[p])
    BY <1>8, <1>10
  <2> HIDE DEF u, n, x
  <2>3. s.cont = t.cont /\ \E w : Sound(s, w, n + 1, 0) /\ ShowsMade(t, r, n, s, w, p)
    BY <1>8, <1>10, <2>1, <2>2, MadePushed
  <2> QED  BY <2>3 DEF n
<1>13. Shows(b, q, pc.slots - 1, g)
  BY <1>1, <1>3 DEF ShowsSame
<1>14. SameRegisters(b, t) /\ b.cont = vm.cont
  <2>1. SameRegisters(b, t)
    BY <1>3, <1>6, <1>7, StringAllocated
  <2>2. b.cont = vm.cont
    BY <1>1, <1>2, OnePopped
  <2> QED  BY <2>1, <2>2
<1>15. Shows(t, r, pc.slots - 1, g)
  <2>1. pc.slots - 1 = 0 => t.env = g.bottom[NIL]
    BY <1>13, <1>14 DEF Shows, SameRegisters
  <2>2. Stays(b, q, t, r, NIL)
    BY <1>9 DEF Fresh
  <2> QED  BY <1>13, <2>1, <2>2, ShowsKept
<1>16. Unheld(g, pc.slots - 1, vm.cont, {b.reg1}, p)
  <2>1. \A v \in {b.reg1} : LiveRef(b, q, v)
    BY <1>5, RegistersLive DEF Registers, Ref, LiveRef, IsObject
  <2> QED  BY <1>3, <1>8, <1>9, <1>13, <1>14, <2>1 DEF Unheld, Fresh
<1>17. PICK w : Sound(s, w, pc.slots - 1 + 1, 0) /\ ShowsMade(t, r, pc.slots - 1, s, w, p)
  BY <1>12
<1>18. Made(g, pc.slots, p, STRING_TYPE, b.reg1, t.cdr[p], s, Moved(1, 1), vm.cont)
  <2>1. PICK n, i, at, k, kind : /\ n = pc.slots - 1 /\ i = pc.slots /\ at = Moved(1, 1)
                                 /\ k = vm.cont /\ kind = STRING_TYPE
    OBVIOUS
  <2>2. n \in Nat /\ i = n + 1
    BY <1>2, <2>1
  <2>3. at \in Address /\ at.temps <= at.slots /\ i = at.slots
    BY <1>2, <2>1, MovedIs DEF Pictured
  <2>4. Shows(t, r, n, g) /\ Sound(s, w, i, 0) /\ ShowsMade(t, r, n, s, w, p)
    BY <1>2, <1>15, <1>17, <2>1
  <2>5. s.cont = k
    BY <1>12, <1>14, <2>1 DEF SameRegisters
  <2>6. kind \in Kinds /\ kind = t.type[p] /\ t \in Machines /\ p \in Cell
    BY <1>8, <1>9, <2>1 DEF Kinds, Sound
  <2>7. PICK x, y : x = t.car[p] /\ y = t.cdr[p]
    OBVIOUS
  <2>8. Made(g, i, p, kind, x, y, s, at, k)
    BY <2>2, <2>3, <2>4, <2>5, <2>6, <2>7, MadeIsPictured
  <2> QED  BY <1>8, <2>1, <2>7, <2>8
<1> QED  BY <1>8, <1>16, <1>18

\* The arguments of a call are ready, of which ids are listed.
Handing(g, n, k, entry, end, o, u, ids) == Readied(g, u, o, ids, n, k, entry, end) /\ Handed(g, u, n, k, entry)

\* The arguments have become the slots, after a jump or after a call, which keeps what the
\* program can still refer to while it allocates continuation c.
JumpedWith(u, s, at, k) == \E h : Enters(u, h) /\ Pictured(s, at, k, h)
SavedWith(u, n, a, k, c) ==
  \E b, r : /\ Sound(b, r, n, a) /\ Shows(b, r, n, u) /\ ~Held(b, r, c) /\ b.cont = k
            /\ Chain(b, r, b.reg1, "args", NIL, a) /\ (a = 0 => b.reg1 = u.rest)
CalledWith(u, back, s, at, k) ==
  \E c \in Cell : \E h : /\ SavedAndEntered(u, h, c, k, back) /\ Pictured(s, at, c, h)
                         /\ SavedWith(u, back.slots, at.slots, k, c)

\* The end of a tail call is pictured.
LEMMA JumpIsPictured ==
  ASSUME NEW m, NEW o, NEW n, NEW at \in Address, at.temps = 0, NEW a, a = at.slots, Sound(m, o, n, a),
         Chain(m, o, m.reg1, "args", NIL, a),
         NEW u, Shows(m, o, n, u), a = 0 => m.reg1 = u.rest, NEW k, k = m.cont
  PROVE  JumpedWith(u, Enter(m), at, k)
<1>1. PICK q, h : Sound(Enter(m), q, a, 0) /\ Shows(Enter(m), q, a, h) /\ Enters(u, h)
  BY JumpEntered
<1>2. Enter(m).cont = k
  BY DEF Enter, Sound, Machines
<1>3. at.temps <= at.slots
  BY DEF Address
<1>4. Pictured(Enter(m), at, k, h)
  BY <1>1, <1>2, <1>3 DEF Pictured
<1> QED  BY <1>1, <1>4 DEF JumpedWith

\* So is the end of a call.
LEMMA CallIsPictured ==
  ASSUME NEW m, NEW o, NEW back \in Address, back.temps <= back.slots, NEW n, n = back.slots,
         NEW at \in Address, at.temps = 0, NEW a, a = at.slots, Sound(m, o, n, a),
         Chain(m, o, m.reg1, "args", NIL, a),
         NEW u, Shows(m, o, n, u), a = 0 => m.reg1 = u.rest, NEW k, k = m.cont,
         NEW s, s = Enter(save_cont(m, back)), ~s.exhausted
  PROVE  CalledWith(u, back, s, at, k)
<1>1. \E q, h, c : /\ Sound(s, q, a, 0) /\ Shows(s, q, a, h) /\ c \in Cell /\ s.cont = c
                   /\ SavedAndEntered(u, h, c, m.cont, back)
                   /\ \E b, r : Saving(m, n, a, u, c, b, r)
  BY CallEntered
<1>2. PICK q, h, c : /\ Sound(s, q, a, 0) /\ Shows(s, q, a, h) /\ c \in Cell /\ s.cont = c
                     /\ SavedAndEntered(u, h, c, m.cont, back)
                     /\ \E b, r : Saving(m, n, a, u, c, b, r)
  BY <1>1
<1>3. at.temps <= at.slots
  BY DEF Address
<1>4. Pictured(s, at, c, h)
  BY <1>2, <1>3 DEF Pictured
<1>5. SavedWith(u, n, a, k, c)
  BY <1>2 DEF Saving, SavedWith
<1> QED  BY <1>2, <1>4, <1>5 DEF CalledWith

\* CallClosure
LEMMA ClosureIsCalled ==
  ASSUME NEW g, Pictured(vm, pc, vm.cont, g), NEW n \in Nat, pc.temps > n, IsA(TopOf(vm), CLOSURE_TYPE),
         NEW entry, entry = vm.cdr[TopOf(vm)], NEW back, back = Moved(n + 1, 0),
         NEW s, s = Enter(save_cont(Prepared(vm, n), back)), ~s.exhausted
  PROVE  \E o, u, ids : /\ Sound(vm, o, pc.slots, 0)
                        /\ Handing(g, pc.slots - 1, n, entry, vm.car[TopOf(vm)], o, u, ids)
                        /\ CalledWith(u, back, s, FrameOf(entry, n), vm.cont)
<1> DEFINE at == FrameOf(entry, n)
           b == Prepared(vm, n)
<1>1. PICK o : Sound(vm, o, pc.slots, 0) /\ Shows(vm, o, pc.slots, g)
  BY DEF Pictured
<1>2. /\ pc.slots \in Nat /\ pc.slots # 0 /\ n < pc.slots /\ n + 1 \in Nat /\ n + 1 <= pc.temps
      /\ pc.slots - (n + 1) + 0 = pc.slots - 1 - n
  BY DEF Pictured, Address
<1>3. TopOf(vm) \in Cell /\ vm.type[TopOf(vm)] = CLOSURE_TYPE
  BY DEF IsA
<1>4. back \in Address /\ back.temps <= back.slots /\ back.slots = pc.slots - 1 - n
  BY <1>2, MovedIs DEF Pictured
<1>5. s = Enter(save_cont(b, back)) /\ b = Prepared(vm, n) /\ at = FrameOf(entry, n)
  OBVIOUS
<1> HIDE DEF at, b
<1>0. PICK i : i = pc.slots
  OBVIOUS
<1>6. /\ at \in Address /\ at.temps = 0
      /\ \E q, u, ids : /\ Sound(b, q, pc.slots - 1 - n, at.slots)
                        /\ Chain(b, q, b.reg1, "args", NIL, at.slots)
                        /\ Shows(b, q, pc.slots - 1 - n, u)
                        /\ at.slots = 0 => b.reg1 = u.rest
                        /\ Readied(g, u, o, ids, pc.slots - 1, n, entry, vm.car[TopOf(vm)])
                        /\ Handed(g, u, pc.slots - 1, n, entry)
                        /\ b.cont = vm.cont
  <2>1. Sound(vm, o, i, 0) /\ Shows(vm, o, i, g) /\ n < i
    BY <1>0, <1>1, <1>2
  <2>2. /\ at \in Address /\ at.temps = 0
        /\ \E q, u, ids : /\ Sound(b, q, i - 1 - n, at.slots)
                          /\ Chain(b, q, b.reg1, "args", NIL, at.slots)
                          /\ Shows(b, q, i - 1 - n, u)
                          /\ at.slots = 0 => b.reg1 = u.rest
                          /\ Readied(g, u, o, ids, i - 1, n, entry, vm.car[TopOf(vm)])
                          /\ Handed(g, u, i - 1, n, entry)
                          /\ b.cont = vm.cont
    BY <1>3, <1>5, <2>1, CallPrepared
  <2> QED  BY <1>0, <2>2
<1>7. PICK q, u, ids : /\ Sound(b, q, pc.slots - 1 - n, at.slots)
                       /\ Chain(b, q, b.reg1, "args", NIL, at.slots)
                       /\ Shows(b, q, pc.slots - 1 - n, u)
                       /\ at.slots = 0 => b.reg1 = u.rest
                       /\ Handing(g, pc.slots - 1, n, entry, vm.car[TopOf(vm)], o, u, ids)
                       /\ b.cont = vm.cont
  BY <1>6 DEF Handing
<1>8. PICK j, a : j = back.slots /\ a = at.slots
  OBVIOUS
<1>9. /\ Sound(b, q, j, a) /\ Chain(b, q, b.reg1, "args", NIL, a) /\ Shows(b, q, j, u)
      /\ (a = 0 => b.reg1 = u.rest)
  BY <1>4, <1>7, <1>8
<1>10. CalledWith(u, back, s, at, b.cont)
  BY <1>4, <1>5, <1>6, <1>8, <1>9, CallIsPictured
<1> QED  BY <1>1, <1>5, <1>7, <1>10

\* A jump to the closure on top of any machine.
LEMMA ClosureIsEntered ==
  ASSUME NEW m, NEW o, NEW i, Sound(m, o, i, 0), NEW g, Shows(m, o, i, g), NEW n \in Nat, n < i,
         TopOf(m) \in Cell, m.type[TopOf(m)] = CLOSURE_TYPE,
         NEW entry, entry = m.cdr[TopOf(m)], NEW s, s = Enter(Prepared(m, n))
  PROVE  \E u, ids : /\ Handing(g, i - 1, n, entry, m.car[TopOf(m)], o, u, ids)
                     /\ JumpedWith(u, s, FrameOf(entry, n), m.cont)
<1> DEFINE at == FrameOf(entry, n)
           b == Prepared(m, n)
<1>1. s = Enter(b) /\ b = Prepared(m, n) /\ at = FrameOf(entry, n)
  OBVIOUS
<1> HIDE DEF at, b
<1>2. /\ at \in Address /\ at.temps = 0
      /\ \E q, u, ids : /\ Sound(b, q, i - 1 - n, at.slots)
                        /\ Chain(b, q, b.reg1, "args", NIL, at.slots)
                        /\ Shows(b, q, i - 1 - n, u)
                        /\ at.slots = 0 => b.reg1 = u.rest
                        /\ Readied(g, u, o, ids, i - 1, n, entry, m.car[TopOf(m)])
                        /\ Handed(g, u, i - 1, n, entry)
                        /\ b.cont = m.cont
  BY <1>1, CallPrepared
<1>3. PICK q, u, ids : /\ Sound(b, q, i - 1 - n, at.slots)
                       /\ Chain(b, q, b.reg1, "args", NIL, at.slots)
                       /\ Shows(b, q, i - 1 - n, u)
                       /\ at.slots = 0 => b.reg1 = u.rest
                       /\ Handing(g, i - 1, n, entry, m.car[TopOf(m)], o, u, ids)
                       /\ b.cont = m.cont
  BY <1>2 DEF Handing
<1>4. PICK a, j, k : a = at.slots /\ j = i - 1 - n /\ k = m.cont
  OBVIOUS
<1>5. /\ Sound(b, q, j, a) /\ Chain(b, q, b.reg1, "args", NIL, a) /\ Shows(b, q, j, u)
      /\ (a = 0 => b.reg1 = u.rest) /\ k = b.cont
  BY <1>3, <1>4
<1>6. JumpedWith(u, Enter(b), at, k)
  BY <1>2, <1>4, <1>5, JumpIsPictured
<1> QED  BY <1>1, <1>3, <1>4, <1>6

\* JumpClosure
LEMMA ClosureIsJumpedTo ==
  ASSUME NEW g, Pictured(vm, pc, vm.cont, g), NEW n \in Nat, pc.temps > n, IsA(TopOf(vm), CLOSURE_TYPE),
         NEW entry, entry = vm.cdr[TopOf(vm)], NEW s, s = Enter(Prepared(vm, n))
  PROVE  \E o, u, ids : /\ Sound(vm, o, pc.slots, 0)
                        /\ Handing(g, pc.slots - 1, n, entry, vm.car[TopOf(vm)], o, u, ids)
                        /\ JumpedWith(u, s, FrameOf(entry, n), vm.cont)
<1>1. PICK o : Sound(vm, o, pc.slots, 0) /\ Shows(vm, o, pc.slots, g)
  BY DEF Pictured
<1>2. PICK i : i = pc.slots
  OBVIOUS
<1>3. n < i /\ Sound(vm, o, i, 0) /\ Shows(vm, o, i, g)
  BY <1>1, <1>2 DEF Pictured, Address
<1>4. TopOf(vm) \in Cell /\ vm.type[TopOf(vm)] = CLOSURE_TYPE
  BY DEF IsA
<1>5. \E u, ids : /\ Handing(g, i - 1, n, entry, vm.car[TopOf(vm)], o, u, ids)
                  /\ JumpedWith(u, s, FrameOf(entry, n), vm.cont)
  BY <1>3, <1>4, ClosureIsEntered
<1> QED  BY <1>2, <1>3, <1>5

\* The arguments of a procedure called by its entry point.
LEMMA ArgumentsTaken ==
  ASSUME NEW m, NEW o, NEW i, Sound(m, o, i, 0), NEW g, Shows(m, o, i, g), NEW n \in Nat, n <= i,
         NEW entry, entry = [params |-> n, rest |-> FALSE],
         NEW b, b = build_environment([m EXCEPT !.reg1 = NIL], n)
  PROVE  \E q, u, ids : /\ Sound(b, q, i - n, n) /\ Chain(b, q, b.reg1, "args", NIL, n)
                        /\ Shows(b, q, i - n, u) /\ (n = 0 => b.reg1 = u.rest)
                        /\ Handing(g, i, n, entry, NIL, o, u, ids) /\ b.cont = m.cont
<1> DEFINE t == [m EXCEPT !.reg1 = NIL]
<1>1. m \in Machines /\ NIL \in Value /\ Ref(o, m.cont) /\ i \in Nat
  BY DEF Sound, Value
<1>2. /\ t \in Machines /\ t.type = m.type /\ t.car = m.car /\ t.cdr = m.cdr /\ t.spent = m.spent
      /\ t.free_cells = m.free_cells /\ t.cont = m.cont /\ t.env = m.env /\ t.reg1 = NIL
  BY <1>1 DEF Machines
<1>3. b = build_environment(t, n)
  OBVIOUS
<1> HIDE DEF t
<1>4. Sound(t, o, i, 0) /\ Chain(t, o, t.reg1, "args", NIL, 0)
  BY <1>1, <1>2, RegistersSet DEF Chain, ListRef
<1>5. Shows(t, o, i, g)
  BY <1>2 DEF Shows, CellShows, KindOf
<1>6. PICK w : w = WithList(g, NIL, NIL)
  OBVIOUS
<1>7. /\ Shows(t, o, i, w) /\ w.rest = NIL
      /\ w.kind = g.kind /\ w.car = g.car /\ w.cdr = g.cdr
      /\ w.slot = g.slot /\ w.bottom = g.bottom /\ w.saved = g.saved
  <2>1. PICK x, end : x = NIL /\ end = NIL
    OBVIOUS
  <2>2. x \in Value /\ end \in Value /\ w = WithList(g, x, end)
    BY <1>1, <1>6, <2>1
  <2>3. /\ Shows(t, o, i, w) /\ w.rest = end
        /\ w.kind = g.kind /\ w.car = g.car /\ w.cdr = g.cdr
        /\ w.slot = g.slot /\ w.bottom = g.bottom /\ w.saved = g.saved
    BY <1>4, <1>5, <2>2, ListShown
  <2> QED  BY <2>1, <2>3
<1>8. PICK a, u : a = 0 /\ u = WithArgs(w, i, a, n)
  OBVIOUS
<1>9. /\ \E q : /\ Sound(b, q, i - n, a + n) /\ Chain(b, q, b.reg1, "args", NIL, a + n)
                /\ Kept(t, o, b, q) /\ Shows(b, q, i - n, WithArgs(w, i, a, n))
      /\ (a + n = 0 => b.reg1 = w.rest) /\ b.cont = t.cont
  <2>1. Sound(t, o, i, a) /\ Chain(t, o, t.reg1, "args", NIL, a) /\ (a = 0 => t.reg1 = w.rest)
    BY <1>2, <1>4, <1>7, <1>8
  <2> QED  BY <1>3, <1>7, <2>1, EnvironmentBuilt
<1>10. PICK q : /\ Sound(b, q, i - n, n) /\ Chain(b, q, b.reg1, "args", NIL, n)
                /\ Shows(b, q, i - n, u)
  BY <1>8, <1>9
<1>11. w \in Views /\ a \in Nat
  BY <1>7, <1>8 DEF Shows
<1>12. OnlyArgs(w, u, i, a, n)
  BY <1>1, <1>8, <1>11, WithArgsIs
<1>13. Fixed(entry, n) = n /\ ~entry.rest /\ Rests(entry) = 0
  BY DEF Fixed, Rests
<1>14. Handed(g, u, i, n, entry)
  <2>1. ASSUME NEW j \in 1 .. n PROVE u.arg[0 + j] = g.slot[NIL][i - (n - n) - j + 1]
    <3>1. 0 + j \in Nat /\ 0 + j \in a + 1 .. a + n /\ i - (j - a) + 1 = i - j + 1 /\ n - n = 0
      BY <1>8
    <3>2. u.arg[0 + j] = w.slot[NIL][i - (j - a) + 1] /\ (0 + j) - a = j - a
      BY <1>8, <1>12, <3>1 DEF OnlyArgs
    <3>3. u.arg[0 + j] = g.slot[NIL][i - (j - a) + 1]
      BY <1>7, <3>2
    <3> QED  BY <1>1, <1>8, <3>1, <3>3
  <2> QED  BY <1>13, <2>1 DEF Handed
<1>15. \E ids : Readied(g, u, o, ids, i, n, entry, NIL)
  <2>1. PICK ids : ids = [j \in 1 .. 0 |-> NIL]
    OBVIOUS
  <2>2. ids \in [1 .. 0 -> Cell] /\ n - Fixed(entry, n) = 0
    BY <1>13, <2>1
  <2>3. /\ u.kind = g.kind /\ u.car = g.car /\ u.cdr = g.cdr /\ u.slot = g.slot
        /\ u.bottom = g.bottom /\ u.saved = g.saved /\ u.rest = NIL
    BY <1>7, <1>12 DEF OnlyArgs
  <2>4. Readied(g, u, o, ids, i, n, entry, NIL)
    <3>1. \A j \in 1 .. n - Fixed(entry, n) : FALSE
      BY <2>2
    <3>2. ids \in [1 .. n - Fixed(entry, n) -> Cell]
      BY <2>2
    <3>3. ~entry.rest
      OBVIOUS
    <3> QED  BY <2>3, <3>1, <3>2, <3>3 DEF Readied, Paired
  <2> QED  BY <2>4
<1>16. n = 0 => b.reg1 = u.rest
  BY <1>8, <1>9, <1>12 DEF OnlyArgs
<1> QED  BY <1>2, <1>9, <1>10, <1>14, <1>15, <1>16 DEF Handing

\* CallToplevel
LEMMA ToplevelIsCalled ==
  ASSUME NEW g, Pictured(vm, pc, vm.cont, g), NEW n \in Nat, pc.temps >= n,
         NEW entry, entry = [params |-> n, rest |-> FALSE],
         NEW b, b = build_environment([vm EXCEPT !.reg1 = NIL], n), NEW back, back = Moved(n, 0),
         NEW at, at = [slots |-> n, temps |-> 0],
         NEW s, s = Enter(save_cont(b, back)), ~s.exhausted
  PROVE  \E o, u, ids : /\ Sound(vm, o, pc.slots, 0) /\ Handing(g, pc.slots, n, entry, NIL, o, u, ids)
                        /\ CalledWith(u, back, s, at, vm.cont)
<1>1. PICK o : Sound(vm, o, pc.slots, 0) /\ Shows(vm, o, pc.slots, g)
  BY DEF Pictured
<1>2. pc.slots \in Nat /\ n <= pc.slots /\ n <= pc.temps /\ pc.slots - n + 0 = pc.slots - n
  BY DEF Pictured, Address
<1>3. back \in Address /\ back.temps <= back.slots /\ back.slots = pc.slots - n
  BY <1>2, MovedIs DEF Pictured
<1>4. PICK q, u, ids : /\ Sound(b, q, pc.slots - n, n) /\ Chain(b, q, b.reg1, "args", NIL, n)
                       /\ Shows(b, q, pc.slots - n, u) /\ (n = 0 => b.reg1 = u.rest)
                       /\ Handing(g, pc.slots, n, entry, NIL, o, u, ids) /\ b.cont = vm.cont
  BY <1>1, <1>2, ArgumentsTaken
<1>5. at \in Address /\ at.temps = 0 /\ n = at.slots
  BY DEF Address
<1>6. PICK i, k : i = back.slots /\ k = b.cont
  OBVIOUS
<1>7. Sound(b, q, i, n) /\ Shows(b, q, i, u)
  BY <1>3, <1>4, <1>6
<1>8. CalledWith(u, back, s, at, k)
  BY <1>3, <1>4, <1>5, <1>6, <1>7, CallIsPictured
<1> QED  BY <1>1, <1>4, <1>6, <1>8

\* JumpToplevel
LEMMA ToplevelIsJumpedTo ==
  ASSUME NEW g, Pictured(vm, pc, vm.cont, g), NEW n \in Nat, pc.temps >= n,
         NEW entry, entry = [params |-> n, rest |-> FALSE],
         NEW b, b = build_environment([vm EXCEPT !.reg1 = NIL], n),
         NEW at, at = [slots |-> n, temps |-> 0], NEW s, s = Enter(b)
  PROVE  \E o, u, ids : /\ Sound(vm, o, pc.slots, 0) /\ Handing(g, pc.slots, n, entry, NIL, o, u, ids)
                        /\ JumpedWith(u, s, at, vm.cont)
<1>1. PICK o : Sound(vm, o, pc.slots, 0) /\ Shows(vm, o, pc.slots, g)
  BY DEF Pictured
<1>2. pc.slots \in Nat /\ n <= pc.slots
  BY DEF Pictured, Address
<1>3. PICK q, u, ids : /\ Sound(b, q, pc.slots - n, n) /\ Chain(b, q, b.reg1, "args", NIL, n)
                       /\ Shows(b, q, pc.slots - n, u) /\ (n = 0 => b.reg1 = u.rest)
                       /\ Handing(g, pc.slots, n, entry, NIL, o, u, ids) /\ b.cont = vm.cont
  BY <1>1, <1>2, ArgumentsTaken
<1>4. at \in Address /\ at.temps = 0 /\ n = at.slots
  BY DEF Address
<1>5. PICK i, k : i = pc.slots - n /\ k = b.cont
  OBVIOUS
<1>6. Sound(b, q, i, n) /\ Shows(b, q, i, u)
  BY <1>3, <1>5
<1>7. JumpedWith(u, Enter(b), at, k)
  BY <1>3, <1>4, <1>5, <1>6, JumpIsPictured
<1> QED  BY <1>1, <1>3, <1>5, <1>7

\* Continuation k has been given v: its frame is the running one, with v on top.
Resumed(g, k, v, s, at) ==
  /\ at = [slots |-> g.saved[k].slots + 1, temps |-> g.saved[k].temps + 1]
  /\ \E u, h : /\ OnlyResumed(g, u, k) /\ h.slot[NIL][at.slots] = v /\ OnlySlot(u, h, at.slots)
               /\ Pictured(s, at, g.car[k], h)

\* A continuation is resumed with the value in reg1.
LEMMA ContinuationResumed ==
  ASSUME NEW m, NEW o, NEW n, Sound(m, o, n, 0), NEW g, Shows(m, o, n, g), NEW v, v = m.reg1, Ref(o, v),
         NEW k, IsObject(o, k), m.type[k] = CONTINUATION_TYPE, k \notin m.spent,
         NEW s, s = PushResult(Resume(m, k)), ~s.exhausted,
         NEW back, back = m.cdr[m.cdr[k]],
         NEW at, at = [slots |-> back.slots + 1, temps |-> back.temps + 1]
  PROVE  /\ m.cdr[k] \in Cell /\ o.role[m.cdr[k]] = "saved"
         /\ Resumed(g, k, v, s, at)
<1> DEFINE d == [m EXCEPT !.env = NIL]
           b == Resume(m, k)
           slots == m.cdr[m.cdr[k]].slots
<1>0. m \in Machines /\ k \in Cell /\ NIL \in Value /\ g \in Views /\ k # NIL
  BY NilAssumption DEF Sound, IsObject, Value, Shows
<1>1. PICK q1 : Sound(d, q1, 0, 0) /\ Kept(m, o, d, q1) /\ Stays(m, o, d, q1, NIL)
  BY FrameDropped
<1>2. IsObject(q1, k) /\ Ref(q1, m.reg1)
  BY <1>1 DEF Kept, IsObject, Ref, SameLabel
<1>3. /\ d.type = m.type /\ d.car = m.car /\ d.cdr = m.cdr /\ d.spent = m.spent
      /\ d.free_cells = m.free_cells /\ d.env = NIL
  BY <1>0 DEF Machines
<1>4. CellSound(m, o, n, 0, k)
  BY <1>0 DEF Sound
<1>5. m.cdr[k] \in Cell /\ o.role[m.cdr[k]] = "saved" /\ Ref(o, m.car[k])
  BY <1>4 DEF CellSound, ObjectSound, In, IsObject, CONS_TYPE, CLOSURE_TYPE, CONTINUATION_TYPE, STRING_TYPE
<1>6. CellSound(m, o, n, 0, m.cdr[k])
  BY <1>5 DEF Sound
<1>7. back \in Address /\ back.temps <= back.slots /\ slots = back.slots
  BY <1>5, <1>6 DEF CellSound, SavedSound
<1>8. m.car[m.cdr[k]] \in Value /\ m.car[k] \in Value
  BY <1>0, <1>5 DEF Machines
<1>9. /\ b \in Machines /\ b.type = m.type /\ b.car = m.car /\ b.cdr = m.cdr
      /\ b.spent = m.spent \cup {k} /\ b.free_cells = m.free_cells
      /\ b.cont = m.car[k] /\ b.env = m.car[m.cdr[k]] /\ b.reg1 = m.reg1
  BY <1>0, <1>8 DEF Machines, Resume
<1>10. s = PushResult(b)
  OBVIOUS
<1>a. PICK w : w = WithFrame(g, NIL, g.slot[NIL], NIL)
  OBVIOUS
<1>b. Shows(d, q1, 0, w)
  <2>1. d.env = NIL /\ d = [m EXCEPT !.env = NIL]
    BY <1>3
  <2> HIDE DEF d
  <2> QED  BY <1>1, <1>a, <2>1, DropShown
<1> HIDE DEF d, b
<1>11. PICK q : /\ Sound(b, q, d.cdr[d.cdr[k]].slots, 0) /\ Restores(q1, q, k, d.cdr[k], d.cdr[d.cdr[k]].slots)
  BY <1>1, <1>2, <1>3, <1>9, FrameResumed
<1>12. Ref(o, m.reg1) /\ Ref(q, b.reg1)
  <2>1. m.reg1 # NIL => q1.role[m.reg1] = "object"
    BY <1>2 DEF Ref, IsObject
  <2>2. d.cdr[k] \in Cell /\ q1.role[d.cdr[k]] = "saved"
    BY <1>1, <1>3, <1>5 DEF Kept, SameLabel
  <2>3. m.reg1 # NIL => m.reg1 \in Cell /\ q.role[m.reg1] = "object"
    BY <1>2, <1>11, <2>1, <2>2 DEF Restores, Ref, IsObject, SameLabel
  <2> QED  BY <1>9, <2>3 DEF Ref, IsObject
<1>13. PICK u : u = WithResumed(w, k)
  OBVIOUS
<1>14. Shows(b, q, slots, u) /\ back = g.saved[k] /\ m.car[k] = g.car[k] /\ OnlyResumed(g, u, k) /\ u \in Views
  <2>1. PICK i : i = d.cdr[d.cdr[k]].slots
    OBVIOUS
  <2>2. /\ Shows(b, q, i, WithResumed(w, k))
        /\ d.cdr[d.cdr[k]] = w.saved[k] /\ d.car[k] = w.car[k]
    <3>1. /\ b.type = d.type /\ b.car = d.car /\ b.cdr = d.cdr /\ b.spent = d.spent \cup {k}
          /\ b.env = d.car[d.cdr[k]]
      BY <1>3, <1>9
    <3>2. d.type[k] = CONTINUATION_TYPE /\ k \notin d.spent
      BY <1>3
    <3>3. Restores(q1, q, k, d.cdr[k], i)
      BY <1>11, <2>1
    <3> QED  BY <1>1, <1>2, <1>b, <2>1, <3>1, <3>2, <3>3, ResumeShown
  <2>3. w \in Views /\ OnlyFrame(g, w, NIL)
    <3>1. PICK slots1, end, x : slots1 = g.slot[NIL] /\ end = NIL /\ x = NIL
      OBVIOUS
    <3>2. slots1 \in FrameSlots /\ end \in Value /\ x \in Value /\ w = WithFrame(g, x, slots1, end)
      BY <1>0, <1>a, <3>1 DEF Views, FrameSlots
    <3>3. w \in Views /\ OnlyFrame(g, w, x)
      BY <1>0, <3>2, WithFrameIs
    <3> QED  BY <3>1, <3>3
  <2>4. u \in Views /\ OnlyResumed(w, u, k)
    BY <1>0, <1>13, <2>3, WithResumedIs
  <2>5. OnlyResumed(g, u, k)
    <3>1. k \in Value
      BY <1>0 DEF Value
    <3> QED  BY <1>0, <2>3, <2>4, <3>1 DEF OnlyResumed, OnlyFrame
  <2>6. w.saved = g.saved /\ w.car = g.car
    BY <2>3 DEF OnlyFrame
  <2> QED  BY <1>3, <1>13, <2>1, <2>2, <2>4, <2>5, <2>6
<1>15. Sound(b, q, slots, 0)
  BY <1>3, <1>11
<1> HIDE DEF slots
<1>16. s.cont = b.cont /\ \E r : Sound(s, r, slots + 1, 0) /\ ShowsSlot(b, q, slots, s, r, slots + 1, b.reg1)
  BY <1>10, <1>12, <1>15, ResultPushed
<1>17. PICK r : Sound(s, r, slots + 1, 0) /\ ShowsSlot(b, q, slots, s, r, slots + 1, b.reg1)
  BY <1>16
<1>18. PICK h, i : i = slots + 1 /\ h = WithSlot(u, i, v)
  OBVIOUS
<1>19. Shows(s, r, i, h)
  BY <1>9, <1>14, <1>17, <1>18 DEF ShowsSlot
<1>20. h.slot[NIL][i] = v /\ OnlySlot(u, h, i)
  <2>1. i \in Nat /\ v \in Value
    BY <1>0, <1>7, <1>18 DEF Address, Machines
  <2> QED  BY <1>14, <1>18, <2>1, WithSlotIs
<1>21. /\ at \in Address /\ at.temps <= at.slots /\ at.slots = i
       /\ at = [slots |-> g.saved[k].slots + 1, temps |-> g.saved[k].temps + 1]
  <2>1. /\ back.slots \in Nat /\ back.temps \in Nat /\ back.temps <= back.slots
        /\ i = back.slots + 1 /\ back = g.saved[k]
    BY <1>7, <1>14, <1>18 DEF Address
  <2>2. at.slots = back.slots + 1 /\ at.temps = back.temps + 1 /\ at \in Address
    BY <2>1 DEF Address
  <2> QED  BY <2>1, <2>2
<1>22. Pictured(s, at, g.car[k], h)
  BY <1>9, <1>14, <1>16, <1>17, <1>18, <1>19, <1>21 DEF Pictured
<1>23. Resumed(g, k, v, s, at)
  BY <1>14, <1>20, <1>21, <1>22 DEF Resumed
<1> QED  BY <1>5, <1>23

\* The popped cells are not those of the continuation: it still has its return address.
LEMMA BackIs ==
  ASSUME NEW k, NEW m, NEW o, NEW q, Kept(vm, o, m, q), IsObject(o, k),
         m.cdr[k] \in Cell, q.role[m.cdr[k]] = "saved",
         NEW n, NEW a, Sound(vm, o, n, a), vm.type[k] = CONTINUATION_TYPE, k \notin vm.spent
  PROVE  vm.cdr[vm.cdr[k]] = m.cdr[m.cdr[k]]
<1>1. CellSound(vm, o, n, a, k)
  BY DEF Sound, IsObject
<1>2. vm.cdr[k] \in Cell /\ o.role[vm.cdr[k]] = "saved"
  BY <1>1 DEF CellSound, ObjectSound, In, IsObject, CONS_TYPE, CLOSURE_TYPE, CONTINUATION_TYPE, STRING_TYPE
<1>3. m.cdr[k] = vm.cdr[k]
  BY DEF Kept, IsObject
<1> QED  BY <1>2, <1>3 DEF Kept

\* A usable continuation is resumed, after the pops.
LEMMA IsReturnedTo ==
  ASSUME OneShot, NEW o, NEW n, NEW a, Sound(vm, o, n, a), NEW k, Ref(o, k), IsUsable(k),
         NEW b, NEW q, NEW i, Sound(b, q, i, 0), Kept(vm, o, b, q), b.spent = vm.spent,
         NEW g, Shows(b, q, i, g), NEW v, v = b.reg1, Ref(q, v),
         NEW s, s = PushResult(Resume(b, k)), ~s.exhausted
  PROVE  Resumed(g, k, v, s, Back(k))
<1>1. IsObject(o, k) /\ vm.type[k] = CONTINUATION_TYPE /\ k \notin vm.spent
  BY AnObject DEF IsUsable
<1>2. IsObject(q, k) /\ b.type[k] = CONTINUATION_TYPE /\ k \notin b.spent
  BY <1>1 DEF Kept, IsObject, SameLabel
<1>3. PICK back, at : back = b.cdr[b.cdr[k]] /\ at = [slots |-> back.slots + 1, temps |-> back.temps + 1]
  OBVIOUS
<1>4. b.cdr[k] \in Cell /\ q.role[b.cdr[k]] = "saved" /\ Resumed(g, k, v, s, at)
  BY <1>2, <1>3, ContinuationResumed
<1>5. vm.cdr[vm.cdr[k]] = b.cdr[b.cdr[k]]
  BY <1>1, <1>4, BackIs
<1>6. Back(k) = at
  BY <1>3, <1>5 DEF Back
<1> QED  BY <1>4, <1>6

\* PrimReturn
LEMMA Returns ==
  ASSUME OneShot, NEW g, Pictured(vm, pc, vm.cont, g), pc.temps > 0, NEW k, k = vm.cont, IsUsable(k),
         NEW v, v = TopOf(vm), NEW s, s = PushResult(Resume(Pop1(vm), k)), ~s.exhausted
  PROVE  Resumed(g, k, v, s, Back(k))
<1> DEFINE b == Pop1(vm)
           i == pc.slots - 1
<1>1. PICK o : Sound(vm, o, pc.slots, 0) /\ Shows(vm, o, pc.slots, g)
  BY DEF Pictured
<1>2. pc.slots # 0 /\ Ref(o, k)
  BY <1>1 DEF Pictured, Address, Sound
<1>3. PICK q : /\ Sound(b, q, pc.slots - 1, 0) /\ Kept(vm, o, b, q)
               /\ ShowsSame(vm, o, pc.slots, b, q, pc.slots - 1)
  BY <1>1, <1>2, OnePopped
<1>4. b.spent = vm.spent /\ b.reg1 = v /\ Ref(o, v)
  BY <1>1, <1>2, OnePopped
<1>5. s = PushResult(Resume(b, k))
  OBVIOUS
<1>6. Sound(b, q, i, 0) /\ Shows(b, q, i, g)
  BY <1>1, <1>3 DEF ShowsSame
<1> HIDE DEF b, i
<1>7. Ref(q, v)
  BY <1>3, <1>4, KeptRef
<1> QED  BY <1>1, <1>2, <1>3, <1>4, <1>5, <1>6, <1>7, IsReturnedTo

\* PrimReturnToCont
LEMMA ReturnsToCont ==
  ASSUME OneShot, NEW g, Pictured(vm, pc, vm.cont, g), pc.temps > 1, NEW b, b = Pop2(vm),
         NEW k, k = Second(vm), IsUsable(k), NEW v, v = TopOf(vm),
         NEW s, s = PushResult(Resume([b EXCEPT !.reg1 = b.reg2], b.reg1)), ~s.exhausted
  PROVE  Resumed(g, k, v, s, Back(k))
<1> DEFINE t == [b EXCEPT !.reg1 = b.reg2]
           i == pc.slots - 2
<1>1. PICK o : Sound(vm, o, pc.slots, 0) /\ Shows(vm, o, pc.slots, g)
  BY DEF Pictured
<1>2. pc.slots > 1
  BY DEF Pictured, Address
<1>3. PICK q : /\ Sound(b, q, pc.slots - 2, 0) /\ Kept(vm, o, b, q)
               /\ ShowsSame(vm, o, pc.slots, b, q, pc.slots - 2)
  BY <1>1, <1>2, TwoPopped
<1>4. b.spent = vm.spent /\ Ref(o, b.reg2) /\ b.reg2 = v /\ Ref(o, b.reg1) /\ b.reg1 = k
  BY <1>1, <1>2, TwoPopped
<1>5. b \in Machines /\ Ref(q, b.cont) /\ Ref(q, v) /\ b.reg2 \in Value
  <2>1. Ref(q, b.reg2)
    BY <1>3, <1>4, KeptRef
  <2> QED  BY <1>3, <1>4, <2>1 DEF Sound, Ref, IsObject, Value
<1>6. /\ t \in Machines /\ t.type = b.type /\ t.car = b.car /\ t.cdr = b.cdr /\ t.spent = b.spent
      /\ t.free_cells = b.free_cells /\ t.cont = b.cont /\ t.env = b.env /\ t.reg1 = b.reg2
  BY <1>5 DEF Machines
<1>7. s = PushResult(Resume(t, k))
  BY <1>4
<1>8. Sound(b, q, i, 0) /\ Shows(b, q, i, g)
  BY <1>1, <1>3 DEF ShowsSame
<1> HIDE DEF t, i
<1>9. Sound(t, q, i, 0) /\ Kept(vm, o, t, q)
  BY <1>3, <1>5, <1>6, <1>8, RegistersSet DEF Kept
<1>10. Shows(t, q, i, g)
  BY <1>6, <1>8 DEF Shows, CellShows, KindOf
<1>11. t.spent = vm.spent /\ v = t.reg1 /\ Ref(o, k)
  BY <1>4, <1>6
<1> QED  BY <1>1, <1>5, <1>7, <1>9, <1>10, <1>11, IsReturnedTo

\* PrimGraftToCont
LEMMA ThunkIsGrafted ==
  ASSUME NEW g, Pictured(vm, pc, vm.cont, g), pc.temps > 1, NEW b, b = Pop2(vm),
         NEW t, t = Push([b EXCEPT !.cont = b.reg1, !.reg1 = b.reg2], b.reg2),
         IsA(TopOf(vm), CLOSURE_TYPE), NEW entry, entry = vm.cdr[TopOf(vm)],
         NEW s, s = Enter(Prepared(t, 0)), ~s.exhausted
  PROVE  \E o, w, u, ids : /\ OnlySlot(g, w, pc.slots - 1)
                           /\ Handing(w, pc.slots - 2, 0, entry, vm.car[TopOf(vm)], o, u, ids)
                           /\ JumpedWith(u, s, FrameOf(entry, 0), Second(vm))
<1> DEFINE u == [b EXCEPT !.cont = b.reg1, !.reg1 = b.reg2]
           v == TopOf(vm)
           i == pc.slots - 2
<1>1. PICK o : Sound(vm, o, pc.slots, 0) /\ Shows(vm, o, pc.slots, g)
  BY DEF Pictured
<1>2. pc.slots > 1 /\ pc.slots \in Nat /\ i \in Nat /\ i + 1 = pc.slots - 1
  BY DEF Pictured, Address
<1>3. PICK q : /\ Sound(b, q, i, 0) /\ Kept(vm, o, b, q)
               /\ ShowsSame(vm, o, pc.slots, b, q, i)
  BY <1>1, <1>2, TwoPopped
<1>4. Ref(o, v) /\ Ref(o, b.reg1) /\ b.reg2 = v /\ b.free_cells # NIL /\ b.reg1 = Second(vm)
  BY <1>1, <1>2, TwoPopped
<1>5. IsObject(o, v) /\ vm.type[v] = CLOSURE_TYPE
  BY <1>4, AnObject
<1>6. /\ IsObject(q, v) /\ b.type[v] = CLOSURE_TYPE /\ b.cdr[v] = vm.cdr[v] /\ b.car[v] = vm.car[v]
      /\ Ref(q, b.reg1)
  <2>1. Ref(q, b.reg1)
    BY <1>3, <1>4, KeptRef
  <2> QED  BY <1>3, <1>5, <2>1 DEF Kept, IsObject, SameLabel
<1>7. b \in Machines /\ b.reg1 \in Value /\ b.reg2 \in Value
  BY <1>3, <1>4, <1>6 DEF Sound, Ref, IsObject, Value
<1>8. t = Push(u, v)
  BY <1>4
<1> HIDE DEF v
<1>9. /\ u \in Machines /\ u.type = b.type /\ u.car = b.car /\ u.cdr = b.cdr /\ u.spent = b.spent
      /\ u.free_cells = b.free_cells /\ u.cont = b.reg1 /\ u.env = b.env /\ u.reg1 = v
  BY <1>4, <1>7 DEF Machines
<1>a. Shows(b, q, i, g)
  BY <1>1, <1>3 DEF ShowsSame
<1> HIDE DEF u, i
<1>10. Sound(u, q, i, 0) /\ Ref(q, v) /\ u.free_cells # NIL
  BY <1>3, <1>4, <1>6, <1>9, RegistersSet DEF Ref
<1>b. Shows(u, q, i, g)
  BY <1>9, <1>a DEF Shows, CellShows, KindOf
<1>11. v \in Cell => v \in Live(u)
  BY <1>9, RegistersLive DEF Registers
<1>12. /\ t.cont = u.cont /\ t.env \in Cell /\ t.car[t.env] = v /\ t.cdr[t.env] = u.env
       /\ \E r : /\ Sound(t, r, i + 1, 0) /\ HeldKept(u, q, t, r)
                 /\ In(r, t.env, "frame", NIL, i + 1) /\ Stays(u, q, t, r, t.env)
  BY <1>8, <1>10, <1>11, Pushed
<1>13. PICK r : /\ Sound(t, r, i + 1, 0) /\ HeldKept(u, q, t, r)
                /\ In(r, t.env, "frame", NIL, i + 1) /\ Stays(u, q, t, r, t.env)
  BY <1>12
<1>14. /\ TopOf(t) = v /\ v \in Cell /\ t.type[v] = CLOSURE_TYPE /\ t.cdr[v] = vm.cdr[v]
       /\ t.car[v] = vm.car[v]
  BY <1>6, <1>9, <1>11, <1>12, <1>13, HeldRef, SMTT(30) DEF TopOf, IsObject
<1>15. PICK w : w = WithSlot(g, i + 1, v)
  OBVIOUS
<1>16. Shows(t, r, i + 1, w)
  <2>1. PICK p : p = t.env
    OBVIOUS
  <2>2. /\ Stays(u, q, t, r, p) /\ In(r, p, "frame", NIL, i + 1) /\ t.car[p] = v /\ t.cdr[p] = u.env
    BY <1>12, <1>13, <2>1
  <2>3. v \in Value
    BY <1>4, <1>7
  <2> QED  BY <1>10, <1>15, <1>b, <2>2, <2>3, PushShown
<1>17. OnlySlot(g, w, i + 1)
  <2>1. PICK x : x = i + 1
    OBVIOUS
  <2>2. x \in Nat /\ v \in Value /\ g \in Views /\ w = WithSlot(g, x, v)
    BY <1>1, <1>2, <1>4, <1>7, <1>15, <2>1 DEF Shows
  <2>3. OnlySlot(g, w, x)
    BY <2>2, WithSlotIs
  <2> QED  BY <2>1, <2>3
<1>18. PICK n, j : n = 0 /\ j = i + 1
  OBVIOUS
<1>19. entry = t.cdr[TopOf(t)] /\ n \in Nat /\ n < j /\ s = Enter(Prepared(t, n))
       /\ TopOf(t) \in Cell /\ t.type[TopOf(t)] = CLOSURE_TYPE
  BY <1>2, <1>14, <1>18 DEF v
<1>20. Sound(t, r, j, 0) /\ Shows(t, r, j, w)
  BY <1>13, <1>16, <1>18
<1>21. \E y, ids : /\ Handing(w, j - 1, n, entry, t.car[TopOf(t)], r, y, ids)
                   /\ JumpedWith(y, s, FrameOf(entry, n), t.cont)
  BY <1>19, <1>20, ClosureIsEntered
<1>22. j - 1 = pc.slots - 2 /\ i + 1 = pc.slots - 1 /\ t.cont = Second(vm) /\ t.car[TopOf(t)] = vm.car[TopOf(vm)]
  BY <1>2, <1>4, <1>9, <1>12, <1>14, <1>18 DEF i, v
<1> QED  BY <1>17, <1>18, <1>21, <1>22

\* The end of CLOS: the cell on top of the stack is linked in again.
Linked(m, p, v) ==
  [m EXCEPT !.cdr[p] = m.env, !.car[p] = v, !.env = p, !.reg1 = NIL, !.reg2 = NIL, !.reg3 = NIL]

\* The cell becomes a slot again.
LEMMA CellLinked ==
  ASSUME NEW m, NEW o, NEW n, NEW a, Sound(m, o, n, a), NEW p \in Cell, o.role[p] = "none",
         m.type[p] = CONS_TYPE, NEW v, Ref(o, v), NEW s, s = Linked(m, p, v)
  PROVE  s.cont = m.cont /\ \E q : Sound(s, q, n + 1, a) /\ ShowsSlot(m, o, n, s, q, n + 1, v)
<1> DEFINE f == [m.car EXCEPT ![p] = v]
           g == [m.cdr EXCEPT ![p] = m.env]
           t == [m EXCEPT !.cdr = g, !.car = f, !.env = p]
<1>1. m \in Machines /\ v \in Value /\ p \in Value
  BY DEF Sound, Ref, IsObject, Value
<1>2. /\ f \in [Cell -> Value] /\ g \in [Cell -> Word] /\ f[p] = v /\ g[p] = m.env
      /\ \A c \in Cell : c # p => f[c] = m.car[c] /\ g[c] = m.cdr[c]
  BY <1>1 DEF Machines, Word, Value
<1>3. s = [t EXCEPT !.reg1 = NIL, !.reg2 = NIL, !.reg3 = NIL]
  BY <1>1 DEF Linked, Machines
<1> HIDE DEF f, g
<1>4. /\ t \in Machines /\ t.type = m.type /\ t.car = f /\ t.cdr = g /\ t.spent = m.spent
      /\ t.free_cells = m.free_cells /\ t.cont = m.cont /\ t.env = p
  BY <1>1, <1>2 DEF Machines
<1> HIDE DEF t
<1>5. /\ s \in Machines /\ s.type = m.type /\ s.car = f /\ s.cdr = g /\ s.spent = m.spent
      /\ s.free_cells = m.free_cells /\ s.cont = m.cont /\ s.env = p
  <2>1. NIL \in Value
    BY DEF Value
  <2> QED  BY <1>3, <1>4, <2>1 DEF Machines
<1>6. PICK q : /\ Sound(s, q, n + 1, a) /\ In(q, p, "frame", NIL, n + 1)
               /\ \A c \in Cell : c # p => SameLabel(o, q, c)
  BY <1>2, <1>5, SlotMade
<1>7. Stays(m, o, s, q, p)
  BY <1>2, <1>5, <1>6 DEF Stays
<1>8. ShowsSlot(m, o, n, s, q, n + 1, v)
  <2>1. s.car[p] = v /\ s.cdr[p] = m.env
    BY <1>2, <1>5
  <2> QED  BY <1>1, <1>6, <1>7, <2>1, PushShown DEF ShowsSlot
<1> QED  BY <1>5, <1>6, <1>8

Holding(m) == [m EXCEPT !.env = m.cdr[m.env], !.reg2 = m.env, !.reg3 = m.car[m.env]]

\* MakeClosure: the cell on top is held by reg2 alone while the closure is allocated.
LEMMA ClosureIsMade ==
  ASSUME NEW g, Pictured(vm, pc, vm.cont, g), pc.temps > 0, NEW entry \in Entries,
         NEW cell, cell = vm.env, NEW env, env = vm.car[cell], env = NIL \/ IsA(env, CONS_TYPE),
         NEW held, held = Holding(vm),
         NEW made, made = new_closure(held, env, entry),
         NEW s, s = Linked(made, cell, Allocated(held)), ~s.exhausted
  PROVE  \E p \in Cell : /\ Unheld(g, pc.slots - 1, vm.cont, {env}, p)
                         /\ Made(g, pc.slots, p, CLOSURE_TYPE, env, entry, s, Moved(0, 0), vm.cont)
<1> DEFINE p == Allocated(held)
           n == pc.slots - 1
           b == [vm EXCEPT !.env = vm.cdr[cell]]
<1>1. PICK o : Sound(vm, o, pc.slots, 0) /\ Shows(vm, o, pc.slots, g)
  BY DEF Pictured
<1>2. /\ pc.slots \in Nat /\ pc.slots # 0 /\ n \in Nat /\ n + 1 = pc.slots /\ pc.slots - 0 + 0 = pc.slots
      /\ 0 <= pc.temps /\ NIL \in Value
  BY DEF Pictured, Address, Value
<1> DEFINE q0 == Label(o, cell, "none", NIL, 0)
<1>3. /\ cell \in Cell /\ vm.type[cell] = CONS_TYPE /\ Ref(o, env) /\ Sound(b, q0, n, 0)
      /\ cell \notin vm.spent /\ o.role[cell] = "frame" /\ Stays(vm, o, b, q0, NIL)
  BY <1>1, <1>2, TopTaken
<1>4. q0.role[cell] = "none" /\ \A c \in Cell : c # cell => SameLabel(o, q0, c)
  <2>1. o \in Labels /\ "none" \in Role /\ 0 \in Nat
    BY <1>1 DEF Sound, Role
  <2> QED  BY <1>2, <1>3, <2>1, Labelled
<1> HIDE DEF q0
<1>5. vm \in Machines /\ b \in Machines /\ env \in Value /\ Ref(q0, b.cont)
  BY <1>1, <1>3 DEF Sound, Ref, IsObject, Value
<1>6. /\ b.type = vm.type /\ b.car = vm.car /\ b.cdr = vm.cdr /\ b.spent = vm.spent
      /\ held = [b EXCEPT !.reg2 = cell, !.reg3 = env]
  BY <1>5 DEF Machines, Holding
<1> HIDE DEF b
<1>a. Shows(b, q0, n, g)
  <2>1. b.env = vm.cdr[vm.env]
    BY <1>5 DEF b
  <2> QED  BY <1>1, <1>2, <1>3, <2>1, PopShown
<1>7. /\ held \in Machines /\ held.type = b.type /\ held.car = b.car /\ held.cdr = b.cdr
      /\ held.spent = b.spent /\ held.free_cells = b.free_cells /\ held.cont = b.cont
      /\ held.env = b.env /\ held.reg2 = cell /\ held.reg3 = env
  BY <1>3, <1>5, <1>6 DEF Machines, Value
<1>8. Sound(held, q0, n, 0)
  BY <1>3, <1>5, <1>7, RegistersSet
<1>b. Shows(held, q0, n, g)
  BY <1>7, <1>a DEF Shows, CellShows, KindOf
<1>9. ListRef(held, q0, env)
  <2>1. env # NIL => IsObject(o, env) /\ vm.type[env] = CONS_TYPE /\ env # cell
    <3>1. env # NIL => IsObject(o, env) /\ vm.type[env] = CONS_TYPE
      BY <1>3, AnObject
    <3> QED  BY <1>3, <3>1 DEF IsObject
  <2> QED  BY <1>4, <1>6, <1>7, <2>1 DEF ListRef, IsObject, SameLabel
<1>10. p = Allocated(held) /\ entry \in Word
  BY DEF Word
<1> HIDE DEF n, p
<1>11. /\ SameRegisters(held, made)
       /\ ~made.exhausted => p # NIL
       /\ p # NIL => p \in Cell /\ made.type[p] = CLOSURE_TYPE /\ made.car[p] = env /\ made.cdr[p] = entry
       /\ \E q : Sound(made, q, n, 0) /\ Fresh(held, q0, made, q, p)
  BY <1>5, <1>8, <1>10, ClosureAllocated
<1>12. PICK q1 : Sound(made, q1, n, 0) /\ Fresh(held, q0, made, q1, p)
  BY <1>11
<1>13. made \in Machines
  BY <1>12 DEF Sound
<1>14. p # NIL /\ p \in Cell
  <2>1. s.exhausted = made.exhausted
    BY <1>13 DEF Machines, Linked
  <2> QED  BY <1>11, <2>1
<1>15. Held(held, q0, cell)
  <2>1. cell \in Live(held)
    BY <1>3, <1>7, RegistersLive DEF Registers
  <2> QED  BY <1>4, <2>1 DEF Held
<1>16. /\ q1.role[cell] = "none" /\ made.type[cell] = CONS_TYPE /\ cell # p /\ q1.role[p] = "none"
  <2>1. q1.role[p] = "none" /\ ~Held(held, q0, p)
    BY <1>12, <1>14 DEF Fresh
  <2>2. SameLabel(q0, q1, cell) /\ made.type[cell] = held.type[cell]
    BY <1>3, <1>12, <1>15 DEF Fresh, HeldKept
  <2> QED  BY <1>3, <1>4, <1>6, <1>7, <1>15, <2>1, <2>2 DEF SameLabel
<1>17. ListRef(made, q1, env)
  <2>1. env \in Cell => env \in Live(held)
    BY <1>7, RegistersLive DEF Registers
  <2>2. HeldKept(held, q0, made, q1)
    BY <1>12 DEF Fresh
  <2> QED  BY <1>9, <2>1, <2>2, HeldRef
<1>18. PICK q2 : /\ Sound(made, q2, n, 0) /\ IsObject(q2, p)
                 /\ (\A c \in Cell : c # p => SameLabel(q1, q2, c)) /\ ShowsObject(made, q1, n, q2, p)
  BY <1>11, <1>12, <1>14, <1>16, <1>17, ObjectMade
<1>19. q2.role[cell] = "none" /\ Ref(q2, p)
  BY <1>3, <1>16, <1>18 DEF SameLabel, Ref
<1>20. made.type[cell] = CONS_TYPE
  BY <1>16
<1>21. s = Linked(made, cell, p)
  BY <1>10
<1>22. PICK a : a = 0
  OBVIOUS
<1>23. s.cont = made.cont /\ \E q : Sound(s, q, n + 1, a) /\ ShowsSlot(made, q2, n, s, q, n + 1, p)
  <2>1. Sound(made, q2, n, a)
    BY <1>18, <1>22
  <2> QED  BY <1>3, <1>19, <1>20, <1>21, <2>1, CellLinked
<1>24. PICK q : Sound(s, q, n + 1, a) /\ ShowsSlot(made, q2, n, s, q, n + 1, p)
  BY <1>23
<1>25. ShowsMade(made, q1, n, s, q, p)
  BY <1>18, <1>24 DEF ShowsMade, ShowsObject, ShowsSlot
<1>26. Shows(made, q1, n, g)
  <2>1. n = 0 => made.env = g.bottom[NIL]
    BY <1>11, <1>b DEF Shows, SameRegisters
  <2>2. Stays(held, q0, made, q1, NIL)
    BY <1>12 DEF Fresh
  <2> QED  BY <1>b, <2>1, <2>2, ShowsKept
<1>27. s.cont = vm.cont /\ held.cont = vm.cont
  BY <1>5, <1>7, <1>11, <1>23 DEF SameRegisters, b
<1>28. Unheld(g, n, vm.cont, {env}, p)
  <2>1. LiveRef(held, q0, env)
    BY <1>7, <1>9, RegistersLive DEF Registers, ListRef, LiveRef, IsObject
  <2>2. ~Held(held, q0, p)
    BY <1>12, <1>14 DEF Fresh
  <2>3. \A v \in {env} : LiveRef(held, q0, v)
    BY <2>1
  <2> QED  BY <1>8, <1>b, <1>27, <2>2, <2>3 DEF Unheld
<1>29. Made(g, pc.slots, p, CLOSURE_TYPE, env, entry, s, Moved(0, 0), vm.cont)
  <2>1. PICK i, at, k, kind : /\ i = pc.slots /\ at = Moved(0, 0) /\ k = vm.cont /\ kind = CLOSURE_TYPE
    OBVIOUS
  <2>2. n \in Nat /\ i = n + 1
    BY <1>2, <2>1 DEF n
  <2>3. at \in Address /\ at.temps <= at.slots /\ i = at.slots
    BY <1>2, <2>1, MovedIs DEF Pictured
  <2>4. Sound(s, q, i, 0)
    BY <1>22, <1>24, <2>2
  <2>5. s.cont = k
    BY <1>27, <2>1
  <2>6. kind \in Kinds /\ kind = made.type[p] /\ env = made.car[p] /\ entry = made.cdr[p]
    BY <1>11, <1>14, <2>1 DEF Kinds
  <2>7. Made(g, i, p, kind, env, entry, s, at, k)
    BY <1>13, <1>14, <1>25, <1>26, <2>2, <2>3, <2>4, <2>5, <2>6, MadeIsPictured
  <2> QED  BY <2>1, <2>7
<1>30. n = pc.slots - 1
  BY DEF n
<1> QED  BY <1>14, <1>28, <1>29, <1>30

-----------------------------------------------------------------------------
(* Walks along a list of cells. *)

Follow(m, c) == IF c \in Cell THEN m.cdr[c] ELSE NIL
Walk(m, e, n) == CHOOSE g : g = [i \in 0 .. n |-> IF i = 0 THEN e ELSE Follow(m, g[i - 1])]

\* A walk starts at its first cell and follows the links.
LEMMA WalkIs ==
  ASSUME NEW m, m \in Machines, NEW e \in Word, NEW n \in Nat
  PROVE  /\ Walk(m, e, n)[0] = e
         /\ \A i \in 1 .. n : Walk(m, e, n)[i] = Follow(m, Walk(m, e, n)[i - 1])
         /\ \A i \in 0 .. n : Walk(m, e, n)[i] \in Word
<1> DEFINE Loop(g) == [i \in 0 .. n |-> IF i = 0 THEN e ELSE Follow(m, g[i - 1])]
           step == [w \in Word |-> Follow(m, w)]
           f == Walk(m, e, n)
<1>1. \A w : Follow(m, w) \in Word
  BY DEF Follow, Machines, Word, Value
<1>2. step \in [Word -> Word]
  BY <1>1
<1>3. PICK g \in [0 .. n -> Word] : IsLoop(g, e, step, n)
  <2> HIDE DEF step
  <2> QED  BY <1>2, Rounds
<1>4. g[0] = e /\ \A i \in 1 .. n : g[i] = Follow(m, g[i - 1])
  <2>1. ASSUME NEW i \in 1 .. n PROVE g[i] = Follow(m, g[i - 1])
    <3>1. g[i - 1] \in Word
      OBVIOUS
    <3> QED  BY <1>3, <3>1 DEF IsLoop
  <2> QED  BY <1>3, <2>1 DEF IsLoop
<1>5. g = Loop(g)
  BY <1>4
<1>6. f = CHOOSE h : h = Loop(h)
  BY DEF Walk
<1>7. f = Loop(f)
  BY <1>5, <1>6
<1>8. f[0] = e /\ \A i \in 1 .. n : f[i] = Follow(m, f[i - 1])
  <2>1. \A i \in 0 .. n : Loop(f)[i] = IF i = 0 THEN e ELSE Follow(m, f[i - 1])
    OBVIOUS
  <2> HIDE DEF f, Loop
  <2> QED  BY <1>7, <2>1
<1> HIDE DEF f
<1>9. \A i \in 0 .. n : f[i] \in Word
  BY <1>1, <1>8
<1> QED  BY <1>8, <1>9 DEF f

\* A longer walk starts with a shorter one.
LEMMA WalkPrefix ==
  ASSUME NEW m, m \in Machines, NEW e \in Word, NEW n \in Nat, NEW k \in Nat, k <= n
  PROVE  \A i \in 0 .. k : Walk(m, e, k)[i] = Walk(m, e, n)[i]
<1> DEFINE f == Walk(m, e, k)
           g == Walk(m, e, n)
           T == {i \in 0 .. k : f[i] = g[i]}
<1>1. f[0] = e /\ g[0] = e
  BY WalkIs
<1>2. \A i \in 1 .. k : f[i] = Follow(m, f[i - 1])
  BY WalkIs
<1>3. \A i \in 1 .. n : g[i] = Follow(m, g[i - 1])
  BY WalkIs
<1> HIDE DEF f, g
<1>4. 0 \in T
  BY <1>1
<1>5. ASSUME NEW i \in 0 .. k - 1, i \in T PROVE i + 1 \in T
  <2>1. i + 1 \in 1 .. k /\ i + 1 \in 1 .. n /\ (i + 1) - 1 = i
    OBVIOUS
  <2>2. f[i + 1] = Follow(m, f[i]) /\ g[i + 1] = Follow(m, g[i])
    BY <1>2, <1>3, <2>1
  <2> QED  BY <1>5, <2>1, <2>2
<1>6. \A i \in 0 .. k : i \in T
  <2> HIDE DEF T
  <2> QED  BY <1>4, <1>5, EveryRoundTo
<1> QED  BY <1>6 DEF f, g

\* The n-th cell of the environment ends a walk.
LEMMA NthCellIs ==
  ASSUME NEW m, NEW n
  PROVE  NthCell(m, n) = Walk(m, m.env, n)[n]
BY DEF NthCell, Walk, Follow

\* The slots of a frame, and the list behind them.
LEMMA SlotsWalked ==
  ASSUME NEW m, NEW o, NEW i, NEW a, Sound(m, o, i, a), NEW e \in Word,
         NEW role \in {"frame", "args"}, NEW k, NEW n \in Nat, Chain(m, o, e, role, k, n),
         NEW last \in Nat, n <= last
  PROVE  /\ \A j \in 0 .. n - 1 : In(o, Walk(m, e, last)[j], role, k, n - j)
         /\ ListRef(m, o, Walk(m, e, last)[n])
<1> DEFINE f == Walk(m, e, last)
           T == {j \in 0 .. n : Chain(m, o, f[j], role, k, n - j)}
<1>0. m \in Machines
  BY DEF Sound
<1>1. f[0] = e /\ \A j \in 1 .. last : f[j] = Follow(m, f[j - 1])
  BY <1>0, WalkIs
<1> HIDE DEF f
<1>2. 0 \in T
  BY <1>1
<1>3. ASSUME NEW j \in 0 .. n - 1, j \in T PROVE j + 1 \in T
  <2>1. In(o, f[j], role, k, n - j)
    BY <1>3 DEF Chain
  <2>2. CellSound(m, o, i, a, f[j])
    BY <2>1 DEF Sound, In
  <2>3. Chain(m, o, m.cdr[f[j]], role, k, n - j - 1)
    BY <2>1, <2>2 DEF CellSound, SlotSound, In
  <2>4. f[j + 1] = m.cdr[f[j]]
    <3>1. j + 1 \in 1 .. last /\ (j + 1) - 1 = j
      OBVIOUS
    <3> QED  BY <1>1, <2>1, <3>1 DEF Follow, In
  <2>5. n - j - 1 = n - (j + 1) /\ j + 1 \in 0 .. n
    OBVIOUS
  <2> QED  BY <2>3, <2>4, <2>5
<1>4. \A j \in 0 .. n : j \in T
  <2> HIDE DEF T
  <2> QED  BY <1>2, <1>3, EveryRoundTo
<1>5. \A j \in 0 .. n - 1 : n - j # 0 /\ j \in 0 .. n
  OBVIOUS
<1>6. n - n = 0 /\ n \in 0 .. n
  OBVIOUS
<1> QED  BY <1>4, <1>5, <1>6 DEF Chain, f

\* A slot, or a variable of the list that the compiler has closed over.
LEMMA SlotIs ==
  ASSUME NEW o, Sound(vm, o, pc.slots, 0), NEW n \in Nat, IsBound(n)
  PROVE  /\ NthCell(vm, n) \in Cell /\ vm.type[NthCell(vm, n)] = CONS_TYPE
         /\ Ref(o, vm.car[NthCell(vm, n)])
<1> DEFINE f == Walk(vm, vm.env, n)
           k == pc.slots
<1>0. vm \in Machines /\ vm.env \in Word /\ k \in Nat /\ Chain(vm, o, vm.env, "frame", NIL, k)
  BY DEF Sound, Machines, Word
<1>1. NthCell(vm, n) = f[n]
  BY NthCellIs
<1>2. CASE n < k
  <2>1. In(o, Walk(vm, vm.env, k)[n], "frame", NIL, k - n)
    <3> DEFINE role == "frame"
               e == vm.env
               a == 0
    <3>1. role \in {"frame", "args"} /\ e \in Word /\ Chain(vm, o, e, role, NIL, k) /\ Sound(vm, o, pc.slots, a)
      BY <1>0
    <3> HIDE DEF role, e, a
    <3>2. \A j \in 0 .. k - 1 : In(o, Walk(vm, e, k)[j], role, NIL, k - j)
      BY <1>0, <3>1, SlotsWalked
    <3> QED  BY <1>0, <1>2, <3>2 DEF role, e
  <2>2. f[n] = Walk(vm, vm.env, k)[n]
    BY <1>0, <1>2, WalkPrefix
  <2>3. CellSound(vm, o, k, 0, f[n]) /\ o.role[f[n]] = "frame" /\ f[n] \in Cell
    BY <2>1, <2>2 DEF Sound, In
  <2> QED  BY <1>1, <2>3 DEF CellSound, SlotSound
<1>3. CASE n >= k
  <2>0. \A j \in k .. n : f[j] \in Cell /\ vm.type[f[j]] = CONS_TYPE
    <3> SUFFICES ASSUME NEW j \in k .. n PROVE f[j] \in Cell /\ vm.type[f[j]] = CONS_TYPE
      OBVIOUS
    <3>1. IsA(NthCell(vm, j), CONS_TYPE)
      BY <1>0, <1>3 DEF IsBound
    <3>2. NthCell(vm, j) = Walk(vm, vm.env, j)[j] /\ j \in Nat
      BY <1>0, NthCellIs
    <3>3. Walk(vm, vm.env, j)[j] = f[j]
      BY <1>0, <3>2, WalkPrefix
    <3> QED  BY <3>1, <3>2, <3>3 DEF IsA
  <2>1. ListRef(vm, o, f[k])
    <3> DEFINE role == "frame"
               e == vm.env
               a == 0
    <3>1. role \in {"frame", "args"} /\ e \in Word /\ Chain(vm, o, e, role, NIL, k) /\ Sound(vm, o, pc.slots, a)
      BY <1>0
    <3> HIDE DEF role, a
    <3>2. ListRef(vm, o, Walk(vm, e, n)[k])
      BY <1>0, <1>3, <3>1, SlotsWalked
    <3> QED  BY <3>2
  <2>2. \A j \in 1 .. n : f[j] = Follow(vm, f[j - 1])
    BY <1>0, WalkIs
  <2> HIDE DEF f
  <2> DEFINE T == {j \in 0 .. n - k : Ref(o, f[k + j])}
  <2>3. 0 \in T
    BY <1>0, <1>3, <2>1 DEF ListRef, Ref
  <2>4. ASSUME NEW j \in 0 .. (n - k) - 1, j \in T PROVE j + 1 \in T
    <3>1. k + j \in k .. n /\ k + j + 1 \in 1 .. n /\ k + j + 1 - 1 = k + j /\ k + (j + 1) = k + j + 1
      BY <1>0, <1>3
    <3>2. IsObject(o, f[k + j]) /\ vm.type[f[k + j]] = CONS_TYPE
      BY <2>0, <2>4, <3>1, NilAssumption DEF Ref
    <3>3. CellSound(vm, o, k, 0, f[k + j])
      BY <3>2 DEF Sound, IsObject
    <3>4. Ref(o, vm.cdr[f[k + j]])
      BY <3>2, <3>3 DEF CellSound, ObjectSound, IsObject
    <3>5. f[k + j + 1] = vm.cdr[f[k + j]]
      BY <2>2, <3>1, <3>2 DEF Follow, IsObject
    <3> QED  BY <1>0, <1>3, <3>1, <3>4, <3>5
  <2>5. \A j \in 0 .. n - k : j \in T
    <3>1. n - k \in Nat
      BY <1>0, <1>3
    <3> HIDE DEF T
    <3> QED  BY <2>3, <2>4, <3>1, EveryRoundTo
  <2>6. Ref(o, f[n]) /\ f[n] \in Cell /\ vm.type[f[n]] = CONS_TYPE
    <3>1. n - k \in 0 .. n - k /\ k + (n - k) = n /\ n \in k .. n
      BY <1>0, <1>3
    <3> QED  BY <2>0, <2>5, <3>1
  <2>7. IsObject(o, f[n])
    BY <2>6, NilAssumption DEF Ref
  <2>8. CellSound(vm, o, k, 0, f[n])
    BY <2>6 DEF Sound
  <2> QED  BY <1>1, <2>6, <2>7, <2>8 DEF CellSound, ObjectSound, IsObject
<1> QED  BY <1>0, <1>2, <1>3

\* PushStack
LEMMA SlotIsPushed ==
  ASSUME NEW g, Pictured(vm, pc, vm.cont, g), NEW n \in Nat, IsBound(n),
         NEW s, s = [Push([vm EXCEPT !.reg1 = NthCell(vm, n)], Nth(vm, n)) EXCEPT !.reg1 = NIL],
         ~s.exhausted
  PROVE  SlotSet(g, pc.slots + 1, Nth(vm, n), s, Moved(0, 1), vm.cont)
<1> DEFINE r == NthCell(vm, n)
           v == Nth(vm, n)
<1>1. PICK o : Sound(vm, o, pc.slots, 0) /\ Shows(vm, o, pc.slots, g)
  BY DEF Pictured
<1>2. r \in Cell /\ vm.type[r] = CONS_TYPE /\ Ref(o, vm.car[r])
  BY <1>1, SlotIs
<1>3. v = vm.car[r] /\ r \in Value /\ v \in Value
  <2>1. v = vm.car[r] /\ r \in Value
    BY <1>2 DEF Nth, Value
  <2>2. vm.car[r] \in Value
    BY <1>2 DEF Ref, IsObject, Value
  <2> QED  BY <2>1, <2>2
<1>4. s = [Push([vm EXCEPT !.reg1 = r], v) EXCEPT !.reg1 = NIL]
  OBVIOUS
<1> HIDE DEF r, v
<1>5. s.cont = vm.cont /\ \E q : Sound(s, q, pc.slots + 1, 0) /\ ShowsSlot(vm, o, pc.slots, s, q, pc.slots + 1, v)
  <2>1. PICK m, n1, a : m = vm /\ n1 = pc.slots /\ a = 0
    OBVIOUS
  <2>2. Sound(m, o, n1, a)
    BY <1>1, <2>1
  <2>3. Ref(o, v)
    BY <1>2, <1>3
  <2>4. r \in Value
    BY <1>3
  <2>5. v = NIL \/ r = v \/ (r \in Cell /\ m.type[r] = CONS_TYPE /\ v = m.car[r])
    BY <1>2, <1>3, <2>1
  <2>6. s = [Push([m EXCEPT !.reg1 = r], v) EXCEPT !.reg1 = NIL]
    BY <1>4, <2>1
  <2>7. s.cont = m.cont /\ \E q : Sound(s, q, n1 + 1, a) /\ ShowsSlot(m, o, n1, s, q, n1 + 1, v)
    BY <2>2, <2>3, <2>4, <2>5, <2>6, ValuePushed
  <2> QED  BY <2>1, <2>7
<1>6. PICK q : Sound(s, q, pc.slots + 1, 0) /\ ShowsSlot(vm, o, pc.slots, s, q, pc.slots + 1, v)
  BY <1>5
<1>7. pc.slots \in Nat /\ 0 <= pc.temps /\ pc.slots - 0 + 1 = pc.slots + 1
  BY DEF Pictured, Address
<1>8. PICK n1, i, at, k : n1 = pc.slots /\ i = pc.slots + 1 /\ at = Moved(0, 1) /\ k = vm.cont
  OBVIOUS
<1>9. at \in Address /\ at.temps <= at.slots /\ i = at.slots /\ i \in Nat
  BY <1>7, <1>8, MovedIs DEF Pictured
<1>10. Shows(vm, o, n1, g) /\ Sound(s, q, i, 0) /\ ShowsSlot(vm, o, n1, s, q, i, v) /\ s.cont = k
  BY <1>1, <1>5, <1>6, <1>8
<1>11. SlotSet(g, i, v, s, at, k)
  BY <1>3, <1>9, <1>10, SlotIsPictured
<1> QED  BY <1>8, <1>11 DEF v

-----------------------------------------------------------------------------
(* The invariant of every run. *)

\* The cells can be labelled, at the address the machine is at.
IInv == Sane(vm, pc) /\ pc.slots <= MaxSlots /\ halted \in BOOLEAN

\* An instruction keeps the invariant if its machine is sane where it ends.
LEMMA DoKept ==
  ASSUME IInv, NEW s, NEW at, Do(s, at), ~s.exhausted => Sane(s, at)
  PROVE  IInv'
<1>1. CASE s.exhausted
  <2>1. vm' = vm /\ pc' = pc /\ halted' \in BOOLEAN
    BY <1>1 DEF Do
  <2> QED  BY <2>1 DEF IInv, Sane
<1>2. CASE ~s.exhausted
  <2>1. vm' = s /\ pc' = at /\ halted' \in BOOLEAN /\ at.slots <= MaxSlots
    BY <1>2 DEF Do, IInv
  <2>2. Sane(s, at)
    BY <1>2
  <2> QED  BY <2>1, <2>2 DEF IInv, Sane
<1> QED  BY <1>1, <1>2

\* mm_init() leaves the globals and one free list.
LEMMA StartSane == Init => IInv
<1> SUFFICES ASSUME Init PROVE IInv
  OBVIOUS
<1> DEFINE G == Cell \ ReservedCell
           o == [role |-> [c \in Cell |-> IF c \in ReservedCell THEN "global" ELSE "free"],
                 of |-> [c \in Cell |-> NIL],
                 at |-> [c \in Cell |-> IF c \in ReservedCell THEN 0 ELSE Rank(G, c)]]
<1>1. /\ vm.type = [c \in Cell |-> CONS_TYPE]
      /\ vm.car = [c \in Cell |-> IF c \in ReservedCell THEN NIL ELSE 0]
      /\ vm.cdr = [c \in Cell |-> IF c \in ReservedCell THEN NIL ELSE NextIn(G, c + 1)]
      /\ vm.free_cells = NextIn(G, 0) /\ vm.env = NIL /\ vm.cont = NIL
      /\ vm.reg1 = NIL /\ vm.reg2 = NIL /\ vm.reg3 = NIL /\ vm.reg4 = NIL
      /\ vm.exhausted = FALSE /\ vm.spent = {}
      /\ pc = [slots |-> 0, temps |-> 0] /\ halted = FALSE
  BY DEF Init
<1>2. /\ G \subseteq Cell /\ 0 \in Value /\ NIL \in Value /\ Cell \subseteq Value
  BY HeapEndAssumption DEF Value, Cell
<1>3. \A c \in G : NextIn(G, c + 1) \in Value
  BY <1>2, GarbageList DEF Value
<1>4. NextIn(G, 0) \in Value
  BY <1>2, GarbageList DEF Value
<1>5. vm \in Machines
  <2>1. vm.cdr \in [Cell -> Word]
    BY <1>1, <1>2, <1>3 DEF Word
  <2>2. vm.car \in [Cell -> Value] /\ vm.type \in [Cell -> {CONS_TYPE, CLOSURE_TYPE, CONTINUATION_TYPE, STRING_TYPE}]
    BY <1>1, <1>2
  <2>3. vm = [type |-> vm.type, car |-> vm.car, cdr |-> vm.cdr, free_cells |-> vm.free_cells,
              env |-> vm.env, cont |-> vm.cont, reg1 |-> vm.reg1, reg2 |-> vm.reg2,
              reg3 |-> vm.reg3, reg4 |-> vm.reg4, exhausted |-> vm.exhausted, spent |-> vm.spent]
    BY DEF Init
  <2>4. vm.free_cells \in Value /\ vm.env \in Value /\ vm.cont \in Value /\ vm.spent \in SUBSET Cell
        /\ vm.reg1 \in Value /\ vm.reg2 \in Value /\ vm.reg3 \in Value /\ vm.reg4 \in Value
        /\ vm.exhausted \in BOOLEAN
    BY <1>1, <1>2, <1>4
  <2> HIDE DEF G
  <2> QED  BY <2>1, <2>2, <2>3, <2>4 DEF Machines
<1>6. \A c \in G : Rank(G, c) \in Nat \ {0}
  BY <1>2, RankPositive
<1>7. o \in Labels
  <2>1. o.role \in [Cell -> Role] /\ o.of \in [Cell -> Value] /\ o.at \in [Cell -> Nat]
    BY <1>2, <1>6 DEF Role
  <2> QED  BY <2>1 DEF Labels
<1>8. /\ \A c \in ReservedCell : c \in Cell /\ o.role[c] = "global" /\ vm.type[c] = CONS_TYPE /\ vm.car[c] = NIL /\ vm.cdr[c] = NIL
      /\ \A c \in G : /\ o.role[c] = "free" /\ o.of[c] = NIL /\ o.at[c] = Rank(G, c) /\ vm.cdr[c] = NextIn(G, c + 1)
      /\ \A c \in Cell : c \in G \/ c \in ReservedCell
      /\ \A c \in G : c \in Cell /\ c \notin ReservedCell
  BY <1>1 DEF ReservedCell
<1> HIDE DEF o, G
<1>9. /\ \A c \in G : \/ NextIn(G, c + 1) = NIL /\ Rank(G, c) = 1
                      \/ NextIn(G, c + 1) \in G /\ Rank(G, NextIn(G, c + 1)) = Rank(G, c) - 1
      /\ \A c, d \in G : Rank(G, c) = Rank(G, d) => c = d
      /\ \/ NextIn(G, 0) = NIL /\ G = {}
         \/ NextIn(G, 0) \in G /\ \A c \in G : Rank(G, c) <= Rank(G, NextIn(G, 0))
  BY <1>2, GarbageList
<1>10. Apart(o)
  <2> SUFFICES ASSUME NEW c \in Cell, NEW d \in Cell, o.role[c] = o.role[d], o.at[c] = o.at[d],
                      o.role[c] \in {"frame", "args", "saved", "free"}
               PROVE  c = d
    BY DEF Apart
  <2>1. c \in G /\ d \in G
    BY <1>8
  <2> QED  BY <1>8, <1>9, <2>1
<1>11. ASSUME NEW c \in Cell PROVE CellSound(vm, o, 0, 0, c)
  <2>1. CASE c \in ReservedCell
    BY <1>1, <1>8, <2>1 DEF CellSound, GlobalSound, ObjectSound, SlotSound, SavedSound, FreeSound, Ref
  <2>2. CASE c \in G
    <3>1. o.at[c] # 0
      BY <1>6, <1>8, <2>2
    <3>2. IF o.at[c] = 1 THEN vm.cdr[c] = NIL ELSE In(o, vm.cdr[c], "free", NIL, o.at[c] - 1)
      BY <1>2, <1>6, <1>8, <1>9, <2>2 DEF In
    <3>3. vm.free_cells # NIL /\ o.at[c] <= o.at[vm.free_cells]
      <4>1. NextIn(G, 0) \in G /\ Rank(G, c) <= Rank(G, NextIn(G, 0))
        BY <1>9, <2>2
      <4>2. NextIn(G, 0) # NIL
        BY <1>2, <4>1, NilAssumption
      <4> QED  BY <1>1, <1>8, <2>2, <4>1, <4>2
    <3> QED  BY <1>1, <1>8, <2>2, <3>1, <3>2, <3>3
             DEF CellSound, GlobalSound, ObjectSound, SlotSound, SavedSound, FreeSound
  <2> QED  BY <1>8, <2>1, <2>2
<1>12. Sound(vm, o, 0, 0)
  <2>1. Chain(vm, o, vm.env, "frame", NIL, 0) /\ Ref(o, vm.cont)
    BY <1>1 DEF Chain, ListRef, Ref
  <2>2. vm.free_cells # NIL => o.role[vm.free_cells] = "free"
    BY <1>1, <1>8, <1>9
  <2> QED  BY <1>5, <1>7, <1>10, <1>11, <2>1, <2>2 DEF Sound
<1>13. pc \in Address /\ pc.slots = 0 /\ pc.temps = 0 /\ MaxSlots \in Nat
  BY <1>1, VmAssumption DEF Address
<1>14. Sound(vm, o, pc.slots, 0)
  BY <1>12, <1>13
<1>15. pc.temps <= pc.slots /\ pc.slots <= MaxSlots /\ halted \in BOOLEAN
  <2>1. halted \in BOOLEAN
    BY <1>1
  <2> QED  BY <1>13, <2>1
<1> QED  BY <1>13, <1>14, <1>15 DEF IInv, Sane

\* A machine that shows something is sane.
LEMMA SaneThen ==
  ASSUME NEW s, NEW at
  PROVE  /\ \A g, k : Pictured(s, at, k, g) => Sane(s, at)
         /\ \A g, i, v, k : SlotSet(g, i, v, s, at, k) => Sane(s, at)
         /\ \A g, c, kind, x, y, k : ObjectSet(g, c, kind, x, y, s, at, k) => Sane(s, at)
         /\ \A g, i, p, kind, x, y, k : Made(g, i, p, kind, x, y, s, at, k) => Sane(s, at)
         /\ \A u, k : JumpedWith(u, s, at, k) => Sane(s, at)
         /\ \A u, back, k : CalledWith(u, back, s, at, k) => Sane(s, at)
         /\ \A g, k, v : Resumed(g, k, v, s, at) => Sane(s, at)
<1>1. \A g, k : Pictured(s, at, k, g) => Sane(s, at)
  BY DEF Pictured, Sane
<1> QED  BY <1>1 DEF SlotSet, ObjectSet, Made, JumpedWith, CalledWith, Resumed

\* One lemma above for each instruction.
LEMMA NextKept ==
  ASSUME OneShot, IInv, Next
  PROVE  IInv'
<1>0. /\ Sane(vm, pc) /\ MaxArgs \in Nat /\ MaxIndex \in Nat /\ pc.temps \in Nat
  BY VmAssumption DEF IInv, Sane, Address
<1>g. PICK g : Pictured(vm, pc, vm.cont, g)
  BY <1>0, SaneIsPictured
<1>1. CASE PushConstant
  <2> DEFINE s == Push(vm, NIL)
             at == Moved(0, 1)
  <2>1. Do(s, at)
    BY <1>1 DEF PushConstant
  <2>2. ~s.exhausted => Sane(s, at)
    BY <1>0, <1>g, <2>1, ConstantIsPushed, SaneThen
  <2> HIDE DEF s, at
  <2> QED  BY <2>1, <2>2, DoKept
<1>2. CASE PrimPop
  <2> DEFINE s == pop(vm)
             at == Moved(1, 0)
  <2>1. pc.temps > 0 /\ Do(s, at)
    BY <1>2 DEF PrimPop
  <2>2. ~s.exhausted => Sane(s, at)
    BY <1>0, <1>g, <2>1, TopIsDropped, SaneThen
  <2> HIDE DEF s, at
  <2> QED  BY <2>1, <2>2, DoKept
<1>3. CASE PrimReturn
  <2> DEFINE s == PushResult(Resume(Pop1(vm), vm.cont))
             at == Back(vm.cont)
  <2>1. pc.temps > 0 /\ IsUsable(vm.cont) /\ Do(s, at)
    BY <1>3 DEF PrimReturn
  <2>2. ~s.exhausted => Sane(s, at)
    BY <1>0, <1>g, <2>1, Returns, SaneThen
  <2> HIDE DEF s, at
  <2> QED  BY <2>1, <2>2, DoKept
<1>4. CASE PrimGetCont
  <2> DEFINE s == PushResult([vm EXCEPT !.reg1 = vm.cont])
             at == Moved(0, 1)
  <2>1. IsUsable(vm.cont) /\ Do(s, at)
    BY <1>4 DEF PrimGetCont
  <2>2. ~s.exhausted => Sane(s, at)
    BY <1>0, <1>g, <2>1, ContinuationIsPushed, SaneThen
  <2> HIDE DEF s, at
  <2> QED  BY <2>1, <2>2, DoKept
<1>5. CASE PrimReturnToCont
  <2> DEFINE s == PushResult(Resume([Pop2(vm) EXCEPT !.reg1 = Pop2(vm).reg2], Pop2(vm).reg1))
             at == Back(Second(vm))
  <2>1. pc.temps > 1 /\ IsUsable(Second(vm)) /\ Do(s, at)
    BY <1>5 DEF PrimReturnToCont
  <2>2. ~s.exhausted => Sane(s, at)
    BY <1>0, <1>g, <2>1, ReturnsToCont, SaneThen
  <2> HIDE DEF s, at
  <2> QED  BY <2>1, <2>2, DoKept
<1>6. CASE PrimGraftToCont
  <2> DEFINE b == Pop2(vm)
             t == Push([b EXCEPT !.cont = b.reg1, !.reg1 = b.reg2], b.reg2)
             s == Enter(Prepared(t, 0))
             at == FrameOf(vm.cdr[TopOf(vm)], 0)
  <2>1. pc.temps > 1 /\ IsA(TopOf(vm), CLOSURE_TYPE) /\ Do(s, at)
    BY <1>6 DEF PrimGraftToCont
  <2>2. ~s.exhausted => Sane(s, at)
    BY <1>0, <1>g, <2>1, ThunkIsGrafted, SaneThen
  <2> HIDE DEF s, at
  <2> QED  BY <2>1, <2>2, DoKept
<1>7. CASE PrimCons
  <2> DEFINE b == Pop2(vm)
             s == PushResult([new_pair(b, b.reg1, b.reg2) EXCEPT !.reg1 = Allocated(b), !.reg2 = NIL])
             at == Moved(2, 1)
  <2>1. pc.temps > 1 /\ Do(s, at)
    BY <1>7 DEF PrimCons
  <2>2. ~s.exhausted => Sane(s, at)
    BY <1>0, <1>g, <2>1, PairIsMade, SaneThen
  <2> HIDE DEF s, at
  <2> QED  BY <2>1, <2>2, DoKept
<1>8. CASE PrimCar
  <2> DEFINE v == vm.car[TopOf(vm)]
             s == PushResult([Pop1(vm) EXCEPT !.reg1 = v])
             at == Moved(1, 1)
  <2>1. pc.temps > 0 /\ IsA(TopOf(vm), CONS_TYPE) /\ Do(s, at)
    BY <1>8 DEF PrimCar
  <2>2. ~s.exhausted => Sane(s, at)
    BY <1>0, <1>g, <2>1, TopIsReplaced, SaneThen
  <2> HIDE DEF s, at
  <2> QED  BY <2>1, <2>2, DoKept
<1>9. CASE PrimCdr
  <2> DEFINE v == vm.cdr[TopOf(vm)]
             s == PushResult([Pop1(vm) EXCEPT !.reg1 = v])
             at == Moved(1, 1)
  <2>1. pc.temps > 0 /\ IsA(TopOf(vm), CONS_TYPE) /\ Do(s, at)
    BY <1>9 DEF PrimCdr
  <2>2. ~s.exhausted => Sane(s, at)
    BY <1>0, <1>g, <2>1, TopIsReplaced, SaneThen
  <2> HIDE DEF s, at
  <2> QED  BY <2>1, <2>2, DoKept
<1>10. CASE PrimSetCar
  <2> DEFINE b == Pop2(vm)
             p == b.reg1
             s == CarSet(b)
             at == Moved(2, 0)
  <2>1. pc.temps > 1 /\ IsA(b.reg1, CONS_TYPE) /\ Do(s, at)
    BY <1>10 DEF PrimSetCar, CarSet
  <2>2. ObjectSet(g, p, g.kind[p], s.car[p], s.cdr[p], s, at, vm.cont)
    BY <1>0, <1>g, <2>1, PairIsSet
  <2> HIDE DEF s, at
  <2>3. Sane(s, at)
    BY <2>2, SaneThen
  <2> QED  BY <2>1, <2>3, DoKept
<1>11. CASE PrimSetCdr
  <2> DEFINE b == Pop2(vm)
             p == b.reg1
             s == CdrSet(b)
             at == Moved(2, 0)
  <2>1. pc.temps > 1 /\ IsA(b.reg1, CONS_TYPE) /\ Do(s, at)
    BY <1>11 DEF PrimSetCdr, CdrSet
  <2>2. ObjectSet(g, p, g.kind[p], s.car[p], s.cdr[p], s, at, vm.cont)
    BY <1>0, <1>g, <2>1, PairIsSet
  <2> HIDE DEF s, at
  <2>3. Sane(s, at)
    BY <2>2, SaneThen
  <2> QED  BY <2>1, <2>3, DoKept
<1>12. CASE PrimTest
  <2> DEFINE v == NIL
             s == PushResult([Pop1(vm) EXCEPT !.reg1 = v])
             at == Moved(1, 1)
  <2>1. pc.temps > 0 /\ Do(s, at)
    BY <1>12 DEF PrimTest
  <2>2. ~s.exhausted => Sane(s, at)
    BY <1>0, <1>g, <2>1, TopIsReplaced, SaneThen
  <2> HIDE DEF s, at
  <2> QED  BY <2>1, <2>2, DoKept
<1>13. CASE PrimHalt
  BY <1>13 DEF PrimHalt, IInv, Sane
<1>14. CASE PrimListToString
  <2> DEFINE b == Pop1(vm)
             s == PushResult([new_string(b, b.reg1) EXCEPT !.reg1 = Allocated(b)])
             at == Moved(1, 1)
  <2>1. pc.temps > 0 /\ Do(s, at)
    BY <1>14 DEF PrimListToString
  <2>2. ~s.exhausted => Sane(s, at)
    BY <1>0, <1>g, <2>1, StringIsMade, SaneThen
  <2> HIDE DEF s, at
  <2> QED  BY <2>1, <2>2, DoKept
<1>15. CASE PrimStringToList
  <2> DEFINE v == vm.car[TopOf(vm)]
             s == PushResult([Pop1(vm) EXCEPT !.reg1 = v])
             at == Moved(1, 1)
  <2>1. pc.temps > 0 /\ IsA(TopOf(vm), STRING_TYPE) /\ Do(s, at)
    BY <1>15 DEF PrimStringToList
  <2>2. ~s.exhausted => Sane(s, at)
    BY <1>0, <1>g, <2>1, TopIsReplaced, SaneThen
  <2> HIDE DEF s, at
  <2> QED  BY <2>1, <2>2, DoKept
<1>16. ASSUME NEW n \in 0 .. MaxIndex, PushStack(n) PROVE IInv'
  <2> DEFINE s == [Push([vm EXCEPT !.reg1 = NthCell(vm, n)], Nth(vm, n)) EXCEPT !.reg1 = NIL]
             at == Moved(0, 1)
  <2>1. IsBound(n) /\ Do(s, at) /\ n \in Nat
    BY <1>0, <1>16 DEF PushStack
  <2>2. ~s.exhausted => Sane(s, at)
    BY <1>0, <1>g, <2>1, SlotIsPushed, SaneThen
  <2> HIDE DEF s, at
  <2> QED  BY <2>1, <2>2, DoKept
<1>17. ASSUME NEW i \in GlobalVars, PushGlobal(i) PROVE IInv'
  <2> DEFINE s == [Push([vm EXCEPT !.reg1 = Global(vm, i)], Global(vm, i)) EXCEPT !.reg1 = NIL]
             at == Moved(0, 1)
  <2>1. Do(s, at)
    BY <1>17 DEF PushGlobal
  <2>2. ~s.exhausted => Sane(s, at)
    BY <1>0, <1>g, GlobalIsPushed, SaneThen
  <2> HIDE DEF s, at
  <2> QED  BY <2>1, <2>2, DoKept
<1>18. ASSUME NEW i \in GlobalVars, SetGlobal(i) PROVE IInv'
  <2> DEFINE s == GLOBAL_SET(pop(vm), i, TopOf(vm))
             at == Moved(1, 0)
  <2>1. pc.temps > 0 /\ Do(s, at)
    BY <1>18 DEF SetGlobal
  <2>2. ~s.exhausted => Sane(s, at)
    BY <1>0, <1>g, <2>1, GlobalIsSet, SaneThen
  <2> HIDE DEF s, at
  <2> QED  BY <2>1, <2>2, DoKept
<1>19. ASSUME NEW n \in 0 .. MaxArgs, CallClosure(n) PROVE IInv'
  <2> DEFINE s == Enter(save_cont(Prepared(vm, n), Moved(n + 1, 0)))
             at == FrameOf(vm.cdr[TopOf(vm)], n)
  <2>1. pc.temps > n /\ IsA(TopOf(vm), CLOSURE_TYPE) /\ Do(s, at) /\ n \in Nat
    BY <1>0, <1>19 DEF CallClosure
  <2>2. ~s.exhausted => Sane(s, at)
    BY <1>0, <1>g, <2>1, ClosureIsCalled, SaneThen
  <2> HIDE DEF s, at
  <2> QED  BY <2>1, <2>2, DoKept
<1>20. ASSUME NEW n \in 0 .. MaxArgs, JumpClosure(n) PROVE IInv'
  <2> DEFINE s == Enter(Prepared(vm, n))
             at == FrameOf(vm.cdr[TopOf(vm)], n)
  <2>1. pc.temps > n /\ IsA(TopOf(vm), CLOSURE_TYPE) /\ Do(s, at) /\ n \in Nat
    BY <1>0, <1>20 DEF JumpClosure
  <2>2. Sane(s, at)
    BY <1>0, <1>g, <2>1, ClosureIsJumpedTo, SaneThen
  <2> HIDE DEF s, at
  <2> QED  BY <2>1, <2>2, DoKept
<1>21. ASSUME NEW n \in 0 .. MaxArgs, CallToplevel(n) PROVE IInv'
  <2> DEFINE b == build_environment([vm EXCEPT !.reg1 = NIL], n)
             s == Enter(save_cont(b, Moved(n, 0)))
             at == [slots |-> n, temps |-> 0]
  <2>1. pc.temps >= n /\ Do(s, at) /\ n \in Nat
    BY <1>0, <1>21 DEF CallToplevel
  <2>2. ~s.exhausted => Sane(s, at)
    BY <1>0, <1>g, <2>1, ToplevelIsCalled, SaneThen
  <2> HIDE DEF s, at
  <2> QED  BY <2>1, <2>2, DoKept
<1>22. ASSUME NEW n \in 0 .. MaxArgs, JumpToplevel(n) PROVE IInv'
  <2> DEFINE b == build_environment([vm EXCEPT !.reg1 = NIL], n)
             s == Enter(b)
             at == [slots |-> n, temps |-> 0]
  <2>1. pc.temps >= n /\ Do(s, at) /\ n \in Nat
    BY <1>0, <1>22 DEF JumpToplevel
  <2>2. Sane(s, at)
    BY <1>0, <1>g, <2>1, ToplevelIsJumpedTo, SaneThen
  <2> HIDE DEF s, at
  <2> QED  BY <2>1, <2>2, DoKept
<1>23. ASSUME NEW entry \in Entries, MakeClosure(entry) PROVE IInv'
  <2> DEFINE cell == vm.env
             env == vm.car[cell]
             held == Holding(vm)
             made == new_closure(held, env, entry)
             s == Linked(made, cell, Allocated(held))
             at == Moved(0, 0)
  <2>1. pc.temps > 0 /\ (env = NIL \/ IsA(env, CONS_TYPE)) /\ Do(s, at)
    BY <1>23 DEF MakeClosure, Holding, Linked
  <2>2. ~s.exhausted => Sane(s, at)
    BY <1>0, <1>g, <2>1, ClosureIsMade, SaneThen
  <2> HIDE DEF s, at
  <2> QED  BY <2>1, <2>2, DoKept
<1> QED
  BY <1>1, <1>2, <1>3, <1>4, <1>5, <1>6, <1>7, <1>8, <1>9, <1>10, <1>11, <1>12, <1>13, <1>14, <1>15,
     <1>16, <1>17, <1>18, <1>19, <1>20, <1>21, <1>22, <1>23 DEF Next

-----------------------------------------------------------------------------
(* What the invariant means for the program. *)

\* A labelled machine has its types.
LEMMA TypesFromLabels ==
  ASSUME IInv
  PROVE  TypeOK
<1>1. PICK o : Sound(vm, o, pc.slots, 0)
  BY DEF IInv, Sane
<1>2. vm \in Machines
  BY <1>1 DEF Sound
<1>3. \A c \in vm.spent : c \in Cell /\ vm.type[c] = CONTINUATION_TYPE
  <2> SUFFICES ASSUME NEW c \in vm.spent PROVE c \in Cell /\ vm.type[c] = CONTINUATION_TYPE
    OBVIOUS
  <2>1. c \in Cell
    BY <1>2 DEF Machines
  <2> QED  BY <1>1, <2>1 DEF Sound, CellSound, FreeSound
<1>4. /\ vm.type \in [Cell -> {CONS_TYPE, CLOSURE_TYPE, CONTINUATION_TYPE, STRING_TYPE}]
      /\ vm.car \in [Cell -> Value]
      /\ vm.env \in Value /\ vm.cont \in Value /\ vm.free_cells \in Value
      /\ vm.reg1 \in Value /\ vm.reg2 \in Value /\ vm.reg3 \in Value /\ vm.reg4 \in Value
  BY <1>2 DEF Machines
<1>5. \A c \in Cell : vm.car[c] \in Value
  BY <1>4
<1>6. pc.slots \in 0 .. MaxSlots /\ pc.temps \in 0 .. pc.slots /\ halted \in BOOLEAN
  BY VmAssumption DEF IInv, Sane, Address
<1> QED  BY <1>3, <1>4, <1>5, <1>6 DEF TypeOK

\* The head of a chain of slots, or of the list behind them, is a pair.
LEMMA PairsFromLabels ==
  ASSUME IInv
  PROVE  StackIsPairs
<1>1. PICK o : Sound(vm, o, pc.slots, 0)
  BY DEF IInv, Sane
<1> SUFFICES ASSUME vm.env # NIL PROVE IsA(vm.env, CONS_TYPE)
  BY DEF StackIsPairs
<1>2. \/ IsObject(o, vm.env) /\ vm.type[vm.env] = CONS_TYPE
      \/ vm.env \in Cell /\ o.role[vm.env] = "frame"
  BY <1>1 DEF Sound, Chain, ListRef, In
<1>3. vm.env \in Cell /\ CellSound(vm, o, pc.slots, 0, vm.env)
  BY <1>1, <1>2 DEF Sound, IsObject
<1>4. vm.type[vm.env] = CONS_TYPE
  BY <1>2, <1>3 DEF CellSound, SlotSound
<1>5. vm.env \notin ReservedCell
  BY <1>2, <1>3 DEF CellSound, GlobalSound, IsObject
<1> QED  BY <1>3, <1>4, <1>5 DEF IsA

(***************************************************************************)
(* The cells of every state a program with one-shot continuations reaches  *)
(* can be labelled: the instructions of src/main/interpreter.c, the pops   *)
(* that free cells at once, the calls that reuse the cells of their        *)
(* arguments, and the collector in the middle of an allocation keep every  *)
(* cell in one role.                                                       *)
(***************************************************************************)
THEOREM CellsHaveRoles ==
  ASSUME OneShot
  PROVE  Spec => []IInv
<1>1. IInv /\ [Next]_vars => IInv'
  <2>1. IInv /\ Next => IInv'
    BY NextKept
  <2>2. IInv /\ UNCHANGED vars => IInv'
    BY DEF IInv, Sane, vars
  <2> QED  BY <2>1, <2>2
<1> QED  BY <1>1, StartSane, PTL DEF Spec

\* The heap, the registers and the address always hold what their types say, and only
\* continuations are used up (src/main/interpreter.c, vm-arch.c).
THEOREM VmTypes ==
  ASSUME OneShot
  PROVE  Spec => []TypeOK
<1>1. IInv => TypeOK
  BY TypesFromLabels
<1> QED  BY <1>1, CellsHaveRoles, PTL

\* The assertion of pop(), "HEAP BROKEN!!!" (vm-arch.c 15-20), never fails: the stack is
\* made of pairs that are no globals.
THEOREM PopFindsPairs ==
  ASSUME OneShot
  PROVE  Spec => []StackIsPairs
<1>1. IInv => StackIsPairs
  BY PairsFromLabels
<1> QED  BY <1>1, CellsHaveRoles, PTL

-----------------------------------------------------------------------------
(* Frames and the free list are walks. *)

\* The first n cells of a walk.
Passed(f, n) == {f[i] : i \in 0 .. n - 1}

\* As many cells as there are places on a walk that passes none twice.
LEMMA AllDifferent ==
  ASSUME NEW f, NEW n \in Nat, \A i, j \in 0 .. n - 1 : f[i] = f[j] => i = j
  PROVE  IsFiniteSet(Passed(f, n)) /\ Cardinality(Passed(f, n)) = n
<1> DEFINE S == 0 .. n - 1
           T == {f[i] : i \in S}
           g == [i \in S |-> f[i]]
<1>1. IsFiniteSet(S) /\ Cardinality(S) = n
  BY FS_Interval
<1>2. g \in Surjection(S, T)
  BY DEF Surjection
<1>3. g \in Injection(S, T)
  BY DEF Injection, IsInjective
<1> HIDE DEF S, T, g
<1>4. g \in Bijection(S, T)
  BY <1>2, <1>3 DEF Bijection
<1>5. ExistsBijection(S, T)
  BY <1>4 DEF ExistsBijection
<1>6. IsFiniteSet(T) /\ Cardinality(T) = Cardinality(S)
  BY <1>1, <1>5, FS_Bijection
<1> QED  BY <1>1, <1>6 DEF S, T, Passed

\* The lists of the refinement are walks.
LEMMA SpineIsWalk ==
  ASSUME NEW e, NEW n
  PROVE  Spine(e, n) = Walk(vm, e, n)
BY DEF Spine, Walk, Follow

\* The cells of the frame of procedure k, n slots from e on.
LEMMA FrameWalked ==
  ASSUME NEW o, NEW i, Sound(vm, o, i, 0), NEW e \in Word, NEW k, NEW n \in Nat,
         Chain(vm, o, e, "frame", k, n)
  PROVE  /\ \A j \in 0 .. n - 1 : In(o, Spine(e, n)[j], "frame", k, n - j)
         /\ ListRef(vm, o, Spine(e, n)[n])
         /\ \A j \in 1 .. n : Ref(o, Slots(Spine(e, n), n)[j])
         /\ IsFiniteSet(Passed(Spine(e, n), n)) /\ Cardinality(Passed(Spine(e, n), n)) = n
<1> DEFINE f == Spine(e, n)
           role == "frame"
           a == 0
<1>1. role \in {"frame", "args"} /\ Chain(vm, o, e, role, k, n) /\ Sound(vm, o, i, a)
  OBVIOUS
<1> HIDE DEF role, a
<1>2. /\ \A j \in 0 .. n - 1 : In(o, f[j], role, k, n - j)
      /\ ListRef(vm, o, f[n])
  BY <1>1, SlotsWalked, SpineIsWalk
<1> HIDE DEF f
<1>3. ASSUME NEW j \in 1 .. n PROVE Ref(o, Slots(f, n)[j])
  <2>1. j - 1 \in 0 .. n - 1
    OBVIOUS
  <2>2. f[j - 1] \in Cell /\ o.role[f[j - 1]] = "frame" /\ CellSound(vm, o, i, a, f[j - 1])
    BY <1>1, <1>2, <2>1 DEF In, role, Sound
  <2>3. Ref(o, vm.car[f[j - 1]])
    BY <2>2 DEF CellSound, SlotSound
  <2> QED  BY <2>2, <2>3 DEF Slots
<1>4. \A x, y \in 0 .. n - 1 : f[x] = f[y] => x = y
  <2> SUFFICES ASSUME NEW x \in 0 .. n - 1, NEW y \in 0 .. n - 1, f[x] = f[y] PROVE x = y
    OBVIOUS
  <2>1. o.at[f[x]] = n - x /\ o.at[f[y]] = n - y
    BY <1>2 DEF In
  <2> QED  BY <2>1
<1>5. IsFiniteSet(Passed(f, n)) /\ Cardinality(Passed(f, n)) = n
  BY <1>4, AllDifferent
<1> QED  BY <1>2, <1>3, <1>5 DEF f, role

\* What a continuation that can still be used holds.
LEMMA SavedWalked ==
  ASSUME NEW o, NEW i, Sound(vm, o, i, 0), NEW k, IsObject(o, k),
         vm.type[k] = CONTINUATION_TYPE, k \notin vm.spent
  PROVE  /\ In(o, vm.cdr[k], "saved", k, 0) /\ Ref(o, vm.car[k])
         /\ SavedAt(k).slots \in Nat
         /\ \A j \in 0 .. SavedAt(k).slots - 1 : In(o, SavedSpine(k)[j], "frame", k, SavedAt(k).slots - j)
         /\ ListRef(vm, o, SavedSpine(k)[SavedAt(k).slots])
         /\ \A j \in 1 .. SavedAt(k).slots : Ref(o, Slots(SavedSpine(k), SavedAt(k).slots)[j])
         /\ IsFiniteSet(Passed(SavedSpine(k), SavedAt(k).slots)) /\ Cardinality(Passed(SavedSpine(k), SavedAt(k).slots)) = SavedAt(k).slots
<1> DEFINE p == vm.cdr[k]
           e == vm.car[p]
           n == SavedAt(k).slots
<1>1. k \in Cell /\ CellSound(vm, o, i, 0, k)
  BY DEF IsObject, Sound
<1>2. In(o, p, "saved", k, 0) /\ Ref(o, vm.car[k])
  BY <1>1 DEF CellSound, ObjectSound, IsObject
<1>3. p \in Cell /\ CellSound(vm, o, i, 0, p)
  BY <1>2 DEF In, Sound
<1>4. vm.cdr[p] \in Address /\ Chain(vm, o, e, "frame", k, vm.cdr[p].slots)
  BY <1>2, <1>3 DEF CellSound, SavedSound, In
<1>5. n \in Nat /\ Chain(vm, o, e, "frame", k, n) /\ n = vm.cdr[p].slots
  BY <1>4 DEF SavedAt, Address
<1>6. e \in Word
  BY <1>3 DEF Sound, Machines, Word
<1>7. SavedSpine(k) = Spine(e, n)
  BY DEF SavedSpine
<1> HIDE DEF e, n, p
<1>8. /\ \A j \in 0 .. n - 1 : In(o, Spine(e, n)[j], "frame", k, n - j)
      /\ ListRef(vm, o, Spine(e, n)[n])
      /\ \A j \in 1 .. n : Ref(o, Slots(Spine(e, n), n)[j])
      /\ IsFiniteSet(Passed(Spine(e, n), n)) /\ Cardinality(Passed(Spine(e, n), n)) = n
  BY <1>5, <1>6, FrameWalked
<1> QED  BY <1>2, <1>5, <1>7, <1>8 DEF n, p

\* The free list ends before it has passed all cells.
LEMMA FreeWalked ==
  ASSUME NEW o, NEW i, Sound(vm, o, i, 0)
  PROVE  /\ FreeList[HeapEnd] = NIL
         /\ \A j \in 0 .. HeapEnd : FreeList[j] = NIL \/ (FreeList[j] \in Cell /\ o.role[FreeList[j]] = "free")
<1> DEFINE f == FreeList
           p == vm.free_cells
           n == IF p = NIL THEN 0 ELSE o.at[p]
           T == {j \in 0 .. HeapEnd : IF j < n THEN In(o, f[j], "free", NIL, n - j) ELSE f[j] = NIL}
<1>0. vm \in Machines /\ p \in Word /\ HeapEnd \in Nat /\ p \in Value
  BY HeapEndAssumption DEF Sound, Machines, Word
<1>1. f[0] = p /\ \A j \in 1 .. HeapEnd : f[j] = Follow(vm, f[j - 1])
  BY <1>0, SpineIsWalk, WalkIs DEF FreeList
<1>2. p # NIL => p \in Cell /\ o.role[p] = "free" /\ o.of[p] = NIL /\ o.at[p] \in Nat \ {0}
  <2> SUFFICES ASSUME p # NIL PROVE p \in Cell /\ o.role[p] = "free" /\ o.of[p] = NIL /\ o.at[p] \in Nat \ {0}
    OBVIOUS
  <2>1. p \in Cell /\ o.role[p] = "free"
    BY <1>0 DEF Sound, Value
  <2>2. CellSound(vm, o, i, 0, p) /\ o.at[p] \in Nat
    BY <2>1 DEF Sound, Labels
  <2> QED  BY <2>1, <2>2 DEF CellSound, FreeSound
<1>3. n \in Nat
  BY <1>2
<1>4. 0 \in T
  BY <1>0, <1>1, <1>2, <1>3 DEF In
<1> HIDE DEF n, f, p
<1>5. ASSUME NEW j \in 0 .. HeapEnd - 1, j \in T PROVE j + 1 \in T
  <2>0. j + 1 \in 1 .. HeapEnd /\ (j + 1) - 1 = j /\ f[j + 1] = Follow(vm, f[j])
    BY <1>0, <1>1
  <2>1. CASE j < n
    <3>1. In(o, f[j], "free", NIL, n - j)
      BY <1>5, <2>1
    <3>2. f[j] \in Cell /\ CellSound(vm, o, i, 0, f[j]) /\ o.at[f[j]] = n - j /\ o.role[f[j]] = "free"
      BY <3>1 DEF In, Sound
    <3>3. f[j + 1] = vm.cdr[f[j]]
      BY <2>0, <3>2 DEF Follow
    <3>4. IF n - j = 1 THEN f[j + 1] = NIL ELSE In(o, f[j + 1], "free", NIL, n - j - 1)
      BY <3>2, <3>3 DEF CellSound, FreeSound
    <3>5. n - j = 1 <=> ~(j + 1 < n)
      BY <1>3, <2>1
    <3>6. n - j - 1 = n - (j + 1)
      BY <1>3
    <3> QED  BY <2>0, <3>4, <3>5, <3>6
  <2>2. CASE ~(j < n)
    <3>1. f[j + 1] = NIL
      BY <1>5, <2>0, <2>2, NilAssumption DEF Follow
    <3>2. ~(j + 1 < n)
      BY <1>3, <2>2
    <3> QED  BY <2>0, <3>1, <3>2
  <2> QED  BY <2>1, <2>2
<1>6. \A j \in 0 .. HeapEnd : j \in T
  <2> HIDE DEF T
  <2> QED  BY <1>0, <1>4, <1>5, EveryRoundTo
<1>7. n <= HeapEnd
  <2> SUFFICES ASSUME n > HeapEnd PROVE FALSE
    BY <1>0, <1>3
  <2> DEFINE k == HeapEnd + 1
  <2>1. ASSUME NEW j \in 0 .. k - 1 PROVE f[j] \in Cell /\ o.at[f[j]] = n - j
    <3>1. j \in T /\ j < n
      BY <1>0, <1>3, <1>6
    <3> QED  BY <3>1 DEF In
  <2>2. \A x, y \in 0 .. k - 1 : f[x] = f[y] => x = y
    <3> SUFFICES ASSUME NEW x \in 0 .. k - 1, NEW y \in 0 .. k - 1, f[x] = f[y] PROVE x = y
      OBVIOUS
    <3>1. n - x = n - y
      BY <2>1
    <3> QED  BY <1>0, <1>3, <3>1
  <2>3. k \in Nat
    BY <1>0
  <2> DEFINE C == Passed(f, k)
  <2>4. Cardinality(C) = k
    <3> HIDE DEF k
    <3> QED  BY <2>2, <2>3, AllDifferent
  <2>5. C \in SUBSET Cell
    BY <2>1 DEF Passed
  <2> HIDE DEF C, k
  <2>6. Cardinality(C) <= HeapEnd
    BY <2>5, FiniteCells, FS_Subset
  <2> QED  BY <1>0, <2>4, <2>6 DEF k
<1>8. f[HeapEnd] = NIL
  <2>1. HeapEnd \in T /\ ~(HeapEnd < n)
    BY <1>0, <1>3, <1>6, <1>7
  <2> QED  BY <2>1
<1>9. \A j \in 0 .. HeapEnd : f[j] = NIL \/ (f[j] \in Cell /\ o.role[f[j]] = "free")
  BY <1>6 DEF In
<1> QED  BY <1>8, <1>9 DEF f

-----------------------------------------------------------------------------
(* The program finds nothing but objects. *)

\* One round of the loop that follows the references.
Around(s, X) == UNION {{c} \cup (Refs(s[c]) \cap DOMAIN s) : c \in X}

\* What is found is what the last round of a loop has found.
LEMMA ReferredIsLoop ==
  ASSUME NEW s, NEW from
  PROVE  \E g \in [0 .. HeapEnd -> SUBSET DOMAIN s] :
           /\ g[0] = from \cap DOMAIN s
           /\ \A n \in 1 .. HeapEnd : g[n] = Around(s, g[n - 1])
           /\ Referred(s, from) = g[HeapEnd]
<1> DEFINE D == DOMAIN s
           x == from \cap D
           Loop(g) == [n \in 0 .. HeapEnd |-> IF n = 0 THEN x ELSE Around(s, g[n - 1])]
           step == [X \in SUBSET D |-> Around(s, X)]
<1>0. HeapEnd \in Nat
  BY HeapEndAssumption
<1>1. step \in [SUBSET D -> SUBSET D]
  BY DEF Around
<1>2. x \in SUBSET D
  OBVIOUS
<1>3. PICK g \in [0 .. HeapEnd -> SUBSET D] : IsLoop(g, x, step, HeapEnd)
  <2> HIDE DEF step, x
  <2> QED  BY <1>0, <1>1, <1>2, Rounds
<1>4. g[0] = x /\ \A n \in 1 .. HeapEnd : g[n] = Around(s, g[n - 1])
  <2>1. ASSUME NEW n \in 1 .. HeapEnd PROVE g[n] = Around(s, g[n - 1])
    <3>1. g[n - 1] \in SUBSET D
      BY <1>0
    <3> QED  BY <1>3, <3>1 DEF IsLoop
  <2> QED  BY <1>3, <2>1 DEF IsLoop
<1>5. g = Loop(g)
  BY <1>0, <1>4
<1> DEFINE f == CHOOSE h : h = Loop(h)
<1>6. f = Loop(f)
  BY <1>5
<1>7. Referred(s, from) = f[HeapEnd]
  BY DEF Referred, Around
<1>8. f[0] = x /\ \A n \in 1 .. HeapEnd : f[n] = Around(s, f[n - 1])
  <2>1. \A n \in 0 .. HeapEnd : Loop(f)[n] = IF n = 0 THEN x ELSE Around(s, f[n - 1])
    OBVIOUS
  <2> HIDE DEF f, Loop
  <2> QED  BY <1>0, <1>6, <2>1
<1>9. DOMAIN f = 0 .. HeapEnd /\ f = [n \in 0 .. HeapEnd |-> f[n]]
  BY <1>6 DEF Loop
<1> HIDE DEF f, Loop, step
<1> DEFINE T == {n \in 0 .. HeapEnd : f[n] \in SUBSET D}
<1>10. 0 \in T
  BY <1>0, <1>8
<1>11. ASSUME NEW n \in 0 .. HeapEnd - 1, n \in T PROVE n + 1 \in T
  <2>1. n + 1 \in 1 .. HeapEnd /\ (n + 1) - 1 = n
    BY <1>0
  <2>2. f[n + 1] = Around(s, f[n])
    BY <1>8, <2>1
  <2>3. Around(s, f[n]) \in SUBSET D
    BY <1>11 DEF Around
  <2> QED  BY <2>1, <2>2, <2>3
<1>12. \A n \in 0 .. HeapEnd : n \in T
  <2> HIDE DEF T
  <2> QED  BY <1>0, <1>10, <1>11, EveryRoundTo
<1>13. f \in [0 .. HeapEnd -> SUBSET D]
  BY <1>9, <1>12
<1> QED  BY <1>7, <1>8, <1>13

\* A set that is closed under the references of its objects holds all that is found.
LEMMA ReferredInside ==
  ASSUME NEW s, NEW from, NEW S, from \cap DOMAIN s \subseteq S,
         \A c \in S \cap DOMAIN s : Refs(s[c]) \cap DOMAIN s \subseteq S
  PROVE  Referred(s, from) \subseteq S
<1>0. HeapEnd \in Nat
  BY HeapEndAssumption
<1>1. PICK g \in [0 .. HeapEnd -> SUBSET DOMAIN s] :
        /\ g[0] = from \cap DOMAIN s
        /\ \A n \in 1 .. HeapEnd : g[n] = Around(s, g[n - 1])
        /\ Referred(s, from) = g[HeapEnd]
  BY ReferredIsLoop, SMTT(30)
<1> DEFINE T == {n \in 0 .. HeapEnd : g[n] \subseteq S}
<1>2. 0 \in T
  BY <1>0, <1>1
<1>3. ASSUME NEW n \in 0 .. HeapEnd - 1, n \in T PROVE n + 1 \in T
  <2>1. n + 1 \in 1 .. HeapEnd /\ (n + 1) - 1 = n
    BY <1>0
  <2>2. g[n + 1] = Around(s, g[n])
    BY <1>1, <2>1
  <2>3. g[n] \subseteq S \cap DOMAIN s
    BY <1>0, <1>3
  <2>4. Around(s, g[n]) \subseteq S
    BY <2>3 DEF Around
  <2> QED  BY <2>1, <2>2, <2>4
<1>4. \A n \in 0 .. HeapEnd : n \in T
  <2> HIDE DEF T
  <2> QED  BY <1>0, <1>2, <1>3, EveryRoundTo
<1> QED  BY <1>0, <1>1, <1>4

\* What the program can follow in the whole heap, and the values it starts from.
Followable == [c \in Live(vm) \ ReservedCell |-> Object(c)]
Starts == {stack[i] : i \in DOMAIN stack} \cup {globals[i] : i \in GlobalVars} \cup {frame[pc.slots], vm.cont}
Seen(objects, values) == [c \in Referred(objects, values) |-> objects[c]]

\* The store is what is found in the heap from the slots, the globals and the continuation.
LEMMA StoreIs == store = Seen(Followable, Starts)
BY DEF store, Seen, Followable, Starts

\* The values the program starts from refer to objects.
LEMMA RootsAreRefs ==
  ASSUME NEW o, Sound(vm, o, pc.slots, 0), NEW v \in Starts
  PROVE  Ref(o, v)
<1>1. /\ pc.slots \in Nat /\ vm.env \in Word /\ Chain(vm, o, vm.env, "frame", NIL, pc.slots)
      /\ Ref(o, vm.cont)
  BY DEF Sound, Machines, Word
<1>2. /\ ListRef(vm, o, frame[pc.slots])
      /\ \A j \in 1 .. pc.slots : Ref(o, stack[j])
  BY <1>1, FrameWalked DEF frame, stack
<1>3. DOMAIN stack = 1 .. pc.slots
  BY DEF stack, Slots
<1>4. \A i \in GlobalVars : Ref(o, globals[i])
  BY GlobalIs DEF globals
<1>5. Ref(o, frame[pc.slots])
  BY <1>2 DEF ListRef, Ref
<1> QED  BY <1>1, <1>2, <1>3, <1>4, <1>5 DEF Starts

\* So do the values in an object.
LEMMA ObjectRefs ==
  ASSUME NEW o, NEW i, Sound(vm, o, i, 0), NEW c, IsObject(o, c), NEW v \in Refs(Object(c))
  PROVE  Ref(o, v)
<1>1. c \in Cell /\ CellSound(vm, o, i, 0, c) /\ o.role[c] = "object"
      /\ vm.type[c] \in {CONS_TYPE, CLOSURE_TYPE, CONTINUATION_TYPE, STRING_TYPE}
  BY DEF IsObject, Sound, Machines
<1>2. CASE vm.type[c] = CONS_TYPE
  <2>1. Object(c) = Pair(vm.car[c], vm.cdr[c])
    BY <1>2 DEF Object, CONS_TYPE, STRING_TYPE, CLOSURE_TYPE, CONTINUATION_TYPE
  <2>2. Refs(Object(c)) = {vm.car[c], vm.cdr[c]}
    BY <2>1 DEF Refs, Pair
  <2> QED  BY <1>1, <1>2, <2>2 DEF CellSound, ObjectSound
<1>3. CASE vm.type[c] = STRING_TYPE
  <2>1. Object(c) = Str(vm.car[c])
    BY <1>3 DEF Object, CONS_TYPE, STRING_TYPE, CLOSURE_TYPE, CONTINUATION_TYPE
  <2>2. Refs(Object(c)) = {vm.car[c]}
    BY <2>1 DEF Refs, Str
  <2> QED  BY <1>1, <1>3, <2>2 DEF CellSound, ObjectSound
<1>4. CASE vm.type[c] = CLOSURE_TYPE
  <2>1. Object(c) = Closure(vm.car[c], vm.cdr[c])
    BY <1>4 DEF Object, CONS_TYPE, STRING_TYPE, CLOSURE_TYPE, CONTINUATION_TYPE
  <2>2. Refs(Object(c)) = {vm.car[c]}
    BY <2>1 DEF Refs, Closure
  <2>3. ListRef(vm, o, vm.car[c])
    BY <1>1, <1>4 DEF CellSound, ObjectSound
  <2> QED  BY <2>2, <2>3 DEF ListRef, Ref
<1>5. CASE vm.type[c] = CONTINUATION_TYPE
  <2>1. Object(c) = IF Holds(c) THEN SavedFrame(c) ELSE Spent
    BY <1>5 DEF Object, CONS_TYPE, STRING_TYPE, CLOSURE_TYPE, CONTINUATION_TYPE
  <2>2. Refs(Spent) = {}
    BY DEF Refs, Spent
  <2>3. Holds(c) /\ v \in Refs(SavedFrame(c))
    BY <2>1, <2>2
  <2>4. c \notin vm.spent
    BY <2>3 DEF Holds
  <2> DEFINE n == SavedAt(c).slots
             w == Slots(SavedSpine(c), n)
             e == SavedSpine(c)[n]
             t == SavedAt(c).temps
  <2>5. /\ Ref(o, vm.car[c]) /\ ListRef(vm, o, e)
        /\ \A j \in 1 .. n : Ref(o, w[j])
    BY <1>5, <2>4, SavedWalked
  <2>6. SavedFrame(c) = Frame(w, e, t, vm.car[c])
    BY DEF SavedFrame
  <2>7. DOMAIN w = 1 .. n
    BY DEF Slots
  <2>8. Ref(o, e)
    BY <2>5 DEF ListRef, Ref
  <2> HIDE DEF w, e, n, t
  <2>9. Refs(SavedFrame(c)) = {w[j] : j \in DOMAIN w} \cup {e, vm.car[c]}
    BY <2>6 DEF Refs, Frame
  <2> QED  BY <2>3, <2>5, <2>7, <2>8, <2>9
<1> QED  BY <1>1, <1>2, <1>3, <1>4, <1>5

\* The store holds objects only, and no continuation that can still be used is missing
\* what it saved.
LEMMA StoreHolds ==
  ASSUME NEW o, Sound(vm, o, pc.slots, 0)
  PROVE  /\ \A c \in DOMAIN store : IsObject(o, c) /\ store[c] = Object(c)
         /\ \A k \in Suspended(store) : /\ k \in Cell /\ IsObject(o, k)
                                        /\ vm.type[k] = CONTINUATION_TYPE /\ k \notin vm.spent
<1> DEFINE D == DOMAIN Followable
           S == {c \in D : IsObject(o, c)}
<1>1. D = Live(vm) \ ReservedCell /\ \A c \in D : Followable[c] = Object(c) /\ c \in Cell
  BY LiveIs DEF Followable
<1>2. S \subseteq D /\ Starts \cap D \subseteq S
  <2>1. \A v \in Starts : v \in D => IsObject(o, v)
    BY <1>1, RootsAreRefs, NilAssumption DEF Ref
  <2> QED  BY <2>1
<1>3. ASSUME NEW c \in S PROVE Refs(Followable[c]) \cap D \subseteq S
  <2>1. \A v \in Refs(Object(c)) : Ref(o, v)
    BY ObjectRefs
  <2>2. Followable[c] = Object(c)
    BY <1>1
  <2> QED  BY <1>1, <2>1, <2>2, NilAssumption DEF Ref
<1>4. Referred(Followable, Starts) \subseteq S
  <2> HIDE DEF S
  <2> QED  BY <1>2, <1>3, ReferredInside
<1>5. /\ DOMAIN store \subseteq S
      /\ \A c \in DOMAIN store : store[c] = Object(c)
  BY <1>1, <1>4, StoreIs DEF Seen
<1>6. ASSUME NEW k \in Suspended(store) PROVE k \in Cell /\ vm.type[k] = CONTINUATION_TYPE /\ k \notin vm.spent
  <2>1. k \in Cell /\ Object(k).kind = "cont"
    BY <1>1, <1>5, <1>6 DEF Suspended
  <2>2. vm.type[k] \in {CONS_TYPE, CLOSURE_TYPE, CONTINUATION_TYPE, STRING_TYPE}
    BY <2>1 DEF Sound, Machines
  <2>3. vm.type[k] = CONTINUATION_TYPE
    BY <2>1, <2>2 DEF Object, Pair, Str, Closure, CONS_TYPE, CLOSURE_TYPE, STRING_TYPE
  <2>4. Holds(k)
    BY <2>1, <2>3 DEF Object, Spent, CONS_TYPE, CLOSURE_TYPE, STRING_TYPE, CONTINUATION_TYPE
  <2> QED  BY <2>1, <2>3, <2>4 DEF Holds
<1> QED  BY <1>5, <1>6 DEF Suspended

\* The frames of two procedures differ in the label of their cells, the cells of one in their places.
LEMMA ApartFromLabels ==
  ASSUME IInv
  PROVE  FramesApart
<1>1. PICK o : Sound(vm, o, pc.slots, 0)
  BY DEF IInv, Sane
<1> DEFINE frames == Suspended(store) \cup {NIL}
<1>2. /\ \A c \in DOMAIN store : IsObject(o, c)
      /\ \A k \in Suspended(store) : /\ k \in Cell /\ IsObject(o, k)
                                     /\ vm.type[k] = CONTINUATION_TYPE /\ k \notin vm.spent
  BY <1>1, StoreHolds
<1>3. /\ pc.slots \in Nat /\ vm.env \in Word /\ Chain(vm, o, vm.env, "frame", NIL, pc.slots)
  BY <1>1 DEF Sound, Machines, Word
<1>4. ASSUME NEW k \in frames
      PROVE  /\ \A c \in FrameCells(k) : /\ c \in Cell /\ o.role[c] \in {"frame", "saved"} /\ o.of[c] = k
             /\ Cardinality(FrameCells(k)) = Size(k)
  <2>1. CASE k = NIL
    <3>1. /\ \A j \in 0 .. pc.slots - 1 : In(o, frame[j], "frame", NIL, pc.slots - j)
          /\ Cardinality(Passed(frame, pc.slots)) = pc.slots
      BY <1>1, <1>3, FrameWalked DEF frame
    <3>2. FrameCells(k) = Passed(frame, pc.slots) /\ Size(k) = pc.slots
      BY <2>1 DEF FrameCells, Passed, Size
    <3> QED  BY <2>1, <3>1, <3>2 DEF Passed, In
  <2>2. CASE k # NIL
    <3> DEFINE n == SavedAt(k).slots
               spine == SavedSpine(k)
    <3>1. /\ In(o, vm.cdr[k], "saved", k, 0) /\ n \in Nat
          /\ \A j \in 0 .. n - 1 : In(o, spine[j], "frame", k, n - j)
          /\ IsFiniteSet(Passed(spine, n)) /\ Cardinality(Passed(spine, n)) = n
      BY <1>1, <1>2, <2>2, SavedWalked
    <3>2. FrameCells(k) = Passed(spine, n) \cup {vm.cdr[k]} /\ Size(k) = n + 1
      BY <2>2 DEF FrameCells, Passed, Size
    <3> HIDE DEF n, spine
    <3>3. \A c \in Passed(spine, n) : c \in Cell /\ o.role[c] = "frame" /\ o.of[c] = k
      BY <3>1 DEF Passed, In
    <3>4. vm.cdr[k] \in Cell /\ o.role[vm.cdr[k]] = "saved" /\ o.of[vm.cdr[k]] = k
      BY <3>1 DEF In
    <3>5. vm.cdr[k] \notin Passed(spine, n)
      BY <3>3, <3>4
    <3>6. Cardinality(Passed(spine, n) \cup {vm.cdr[k]}) = n + 1
      BY <3>1, <3>5, FS_AddElement
    <3> QED  BY <3>2, <3>3, <3>4, <3>6
  <2> QED  BY <2>1, <2>2
<1>5. ASSUME NEW k \in frames PROVE FrameCells(k) \subseteq Cell \ (ReservedCell \cup DOMAIN store)
  <2> SUFFICES ASSUME NEW c \in FrameCells(k) PROVE c \in Cell /\ c \notin ReservedCell /\ c \notin DOMAIN store
    OBVIOUS
  <2>1. c \in Cell /\ o.role[c] \in {"frame", "saved"}
    BY <1>4
  <2>2. c \notin ReservedCell
    BY <1>1, <2>1 DEF Sound, CellSound, GlobalSound
  <2>3. c \notin DOMAIN store
    BY <1>2, <2>1 DEF IsObject
  <2> QED  BY <2>1, <2>2, <2>3
<1>6. ASSUME NEW j \in frames, NEW k \in frames, j # k PROVE FrameCells(j) \cap FrameCells(k) = {}
  BY <1>4, <1>6
<1> DEFINE cells == [k \in frames |-> FrameCells(k)]
<1>7. \A k \in frames : cells[k] = FrameCells(k)
  OBVIOUS
<1> HIDE DEF cells, frames
<1>8. /\ \A k \in frames : /\ cells[k] \subseteq Cell \ (ReservedCell \cup DOMAIN store)
                           /\ Cardinality(cells[k]) = Size(k)
      /\ \A j, k \in frames : j # k => cells[j] \cap cells[k] = {}
  BY <1>4, <1>5, <1>6, <1>7
<1> QED  BY <1>8 DEF FramesApart, cells, frames

\* No cell of the free list has the label of anything else.
LEMMA FreeFromLabels ==
  ASSUME IInv
  PROVE  FreeListSound
<1>1. PICK o : Sound(vm, o, pc.slots, 0)
  BY DEF IInv, Sane
<1>2. /\ \A c \in DOMAIN store : IsObject(o, c)
      /\ \A k \in Suspended(store) : /\ k \in Cell /\ IsObject(o, k)
                                     /\ vm.type[k] = CONTINUATION_TYPE /\ k \notin vm.spent
  BY <1>1, StoreHolds
<1>3. /\ pc.slots \in Nat /\ vm.env \in Word /\ Chain(vm, o, vm.env, "frame", NIL, pc.slots)
  BY <1>1 DEF Sound, Machines, Word
<1>4. FreeList[HeapEnd] = NIL /\ \A c \in Free : c \in Cell /\ o.role[c] = "free"
  BY <1>1, FreeWalked DEF Free
<1>5. Free \cap (ReservedCell \cup DOMAIN store) = {}
  <2> SUFFICES ASSUME NEW c \in Free PROVE c \notin ReservedCell /\ c \notin DOMAIN store
    OBVIOUS
  <2>1. c \in Cell /\ o.role[c] = "free"
    BY <1>4
  <2>2. c \notin ReservedCell
    BY <1>1, <2>1 DEF Sound, CellSound, GlobalSound
  <2> QED  BY <1>2, <2>1, <2>2 DEF IsObject
<1>6. ASSUME NEW k \in Suspended(store) \cup {NIL} PROVE Free \cap FrameCells(k) = {}
  <2>1. CASE k = NIL
    <3>1. \A j \in 0 .. pc.slots - 1 : In(o, frame[j], "frame", NIL, pc.slots - j)
      BY <1>1, <1>3, FrameWalked DEF frame
    <3>2. FrameCells(k) = Passed(frame, pc.slots)
      BY <2>1 DEF FrameCells, Passed
    <3>3. \A c \in FrameCells(k) : o.role[c] = "frame"
      BY <3>1, <3>2 DEF Passed, In
    <3> QED  BY <1>4, <3>3
  <2>2. CASE k # NIL
    <3> DEFINE n == SavedAt(k).slots
               spine == SavedSpine(k)
    <3>1. /\ In(o, vm.cdr[k], "saved", k, 0)
          /\ \A j \in 0 .. n - 1 : In(o, spine[j], "frame", k, n - j)
      BY <1>1, <1>2, <2>2, SavedWalked
    <3>2. FrameCells(k) = Passed(spine, n) \cup {vm.cdr[k]}
      BY <2>2 DEF FrameCells, Passed
    <3> HIDE DEF n, spine
    <3>3. \A c \in FrameCells(k) : o.role[c] \in {"frame", "saved"}
      BY <3>1, <3>2 DEF Passed, In
    <3> QED  BY <1>4, <3>3
  <2> QED  BY <2>1, <2>2
<1> QED  BY <1>4, <1>5, <1>6 DEF FreeListSound

(***************************************************************************)
(* The golden rules of vm-arch.h 628-646 hold: no frame, running or        *)
(* suspended, shares a cell with another one, with an object the program   *)
(* can refer to or with a global.  This is what the calls of               *)
(* interpreter.c rely on when they link the cells of the arguments into    *)
(* the new environment instead of copying them.                            *)
(***************************************************************************)
THEOREM NoFrameShares ==
  ASSUME OneShot
  PROVE  Spec => []FramesApart
<1>1. IInv => FramesApart
  BY ApartFromLabels
<1> QED  BY <1>1, CellsHaveRoles, PTL

\* The free list of vm-arch.c ends, and pop() (vm-arch.h) and mm_gc() put no cell on it
\* that the program, a frame or a global needs, or that is there already.
THEOREM NothingNeededIsFree ==
  ASSUME OneShot
  PROVE  Spec => []FreeListSound
<1>1. IInv => FreeListSound
  BY FreeFromLabels
<1> QED  BY <1>1, CellsHaveRoles, PTL
=============================================================================
