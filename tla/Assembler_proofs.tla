-------------------------- MODULE Assembler_proofs --------------------------
(***************************************************************************)
(* Proofs about Assembler, for code of any length, any instructions and    *)
(* any place of the code.                                                  *)
(***************************************************************************)
EXTENDS Assembler, WellFoundedInduction, TLAPS

-----------------------------------------------------------------------------
(***************************************************************************)
(* Loops. Assembler writes a loop of the code as a function of the number  *)
(* of its rounds, which refers to itself; that there is such a function,   *)
(* and that what each round preserves holds in the end, follows from the   *)
(* fact that a set of numbers has a least element.                         *)
(***************************************************************************)

\* A set of numbers has a least element.
LEMMA LeastNumber ==
  ASSUME NEW S, S \subseteq Nat, S # {}
  PROVE  \E n \in S : \A m \in S : n <= m
<1>1. IsWellFoundedOn(OpToRel(<, Nat), Nat)
  BY NatLessThanWellFounded
<1>2. PICK n \in S : \A m \in S : ~(<<m, n>> \in OpToRel(<, Nat))
  BY <1>1, WFMin
<1>3. \A m \in S : ~(m < n)
  BY <1>2 DEF OpToRel
<1> QED  BY <1>3

\* What holds at first and is kept by each round of a loop holds in every round.
\* (The set S stands for a property.)
LEMMA EveryRoundTo ==
  ASSUME NEW N \in Nat, NEW S, 0 \in S, \A n \in 0 .. N - 1 : n \in S => n + 1 \in S
  PROVE  \A n \in 0 .. N : n \in S
<1> SUFFICES ASSUME NEW k \in 0 .. N, k \notin S PROVE FALSE
  OBVIOUS
<1> DEFINE T == (0 .. N) \ S
<1>1. T \subseteq Nat /\ T # {}
  OBVIOUS
<1>2. PICK n \in T : \A m \in T : n <= m
  <2> HIDE DEF T
  <2> QED  BY <1>1, LeastNumber
<1>3. n # 0 /\ n - 1 \in 0 .. N - 1 /\ n - 1 \notin T
  BY <1>2
<1>4. (n - 1) + 1 \in S
  BY <1>3
<1> QED  BY <1>2, <1>4

\* g is a loop of N rounds from x on that has a step of its own in each.
IsRun(g, x, step, N) == g[0] = x /\ \A n \in 1 .. N : g[n] = step[n][g[n - 1]]

\* There is one for any steps.
LEMMA NumberedRounds ==
  ASSUME NEW S, NEW x \in S, NEW N \in Nat, NEW step \in [1 .. N -> [S -> S]]
  PROVE  \E g \in [0 .. N -> S] : IsRun(g, x, step, N)
<1> DEFINE Possible == {k \in 0 .. N : \E g \in [0 .. N -> S] : IsRun(g, x, step, k)}
<1>1. 0 \in Possible
  <2> DEFINE g == [n \in 0 .. N |-> x]
  <2>1. g \in [0 .. N -> S] /\ IsRun(g, x, step, 0)
    BY DEF IsRun
  <2> HIDE DEF g
  <2> QED  BY <2>1
<1>2. ASSUME NEW k \in 0 .. N - 1, k \in Possible PROVE k + 1 \in Possible
  <2>1. PICK g \in [0 .. N -> S] : IsRun(g, x, step, k)
    BY <1>2
  <2> DEFINE h == [g EXCEPT ![k + 1] = step[k + 1][g[k]]]
  <2>2. step[k + 1][g[k]] \in S
    <3>1. g[k] \in S /\ step[k + 1] \in [S -> S]
      OBVIOUS
    <3> QED  BY <3>1
  <2>3. h \in [0 .. N -> S] /\ h[0] = x
    BY <2>1, <2>2 DEF IsRun
  <2>4. ASSUME NEW n \in 1 .. k + 1 PROVE h[n] = step[n][h[n - 1]]
    <3>1. h[n - 1] = g[n - 1]
      OBVIOUS
    <3>2. CASE n = k + 1
      BY <3>1, <3>2
    <3>3. CASE n # k + 1
      BY <2>1, <3>1, <3>3 DEF IsRun
    <3> QED  BY <3>2, <3>3
  <2>5. IsRun(h, x, step, k + 1)
    BY <2>3, <2>4 DEF IsRun
  <2> HIDE DEF h
  <2> QED  BY <2>3, <2>5
<1>3. \A k \in 0 .. N : k \in Possible
  <2> HIDE DEF Possible
  <2> QED  BY <1>1, <1>2, EveryRoundTo
<1>4. N \in Possible
  <2> HIDE DEF Possible
  <2> QED  BY <1>3
<1> QED  BY <1>4

-----------------------------------------------------------------------------
(* The items of a code stream, their room and their places. *)

BranchItem(op, l)  == [kind |-> "branch", op |-> op, l |-> l]
OperandItem(op, n) == [kind |-> "operand", op |-> op, n |-> n]
BytesItem(n)       == [kind |-> "bytes", n |-> n]

Item ==
  {LabelItem(l) : l \in Label} \cup {BranchItem(b[1], b[2]) : b \in Branches}
    \cup {OperandItem(o[1], o[2]) : o \in {o \in Operands : OperandInstr(o[1], o[2]) # <<>>}}
    \cup {BytesItem(n) : n \in Fill}

\* What kind of item it is says what it holds.
LEMMA ItemIs ==
  ASSUME NEW x \in Item
  PROVE  \/ x.kind = "label" /\ x.l \in Label /\ x = LabelItem(x.l)
         \/ x.kind = "branch" /\ <<x.op, x.l>> \in Branches /\ x.op \in DOMAIN Opcode
         \/ /\ x.kind = "operand" /\ <<x.op, x.n>> \in Operands /\ x.n \in Nat
            /\ x.op \in {"push_constant", "push_stack", "push_global", "set_global", "call", "jump"}
            /\ OperandInstr(x.op, x.n) # <<>>
         \/ x.kind = "bytes" /\ x.n \in Fill /\ x.n \in Nat \ {0}
<1>1. CASE x \in {LabelItem(l) : l \in Label}
  BY <1>1 DEF LabelItem
<1>2. CASE x \in {BranchItem(b[1], b[2]) : b \in Branches}
  <2>1. PICK b \in Branches : x = BranchItem(b[1], b[2])
    BY <1>2
  <2>2. b = <<b[1], b[2]>> /\ b[1] \in DOMAIN Opcode
    BY AssemblerAssumption
  <2> QED  BY <2>1, <2>2 DEF BranchItem
<1>3. CASE x \in {OperandItem(o[1], o[2]) : o \in {o \in Operands : OperandInstr(o[1], o[2]) # <<>>}}
  <2>1. PICK o \in Operands : x = OperandItem(o[1], o[2]) /\ OperandInstr(o[1], o[2]) # <<>>
    BY <1>3
  <2>2. /\ o = <<o[1], o[2]>> /\ o[2] \in Nat
        /\ o[1] \in {"push_constant", "push_stack", "push_global", "set_global", "call", "jump"}
    BY AssemblerAssumption
  <2>3. x.kind = "operand" /\ x.op = o[1] /\ x.n = o[2]
    BY <2>1 DEF OperandItem
  <2> QED  BY <2>1, <2>2, <2>3
<1>4. CASE x \in {BytesItem(n) : n \in Fill}
  BY <1>4, AssemblerAssumption DEF BytesItem
<1> QED  BY <1>1, <1>2, <1>3, <1>4 DEF Item

\* The room and the places of any code, as functions of it.
RoomOf(c, i, s) ==
  CASE c[i].kind = "label"   -> 0
    [] c[i].kind = "branch"  -> s[i]
    [] c[i].kind = "operand" -> Len(OperandInstr(c[i].op, c[i].n))
    [] c[i].kind = "bytes"   -> c[i].n

PlacesOf(c, s) ==
  CHOOSE f : f = [i \in 1 .. Len(c) |-> IF i = 1 THEN asm_start_pos ELSE f[i - 1] + RoomOf(c, i - 1, s)]

\* Places is this function of the code.
LEMMA PlacesAre ==
  ASSUME NEW s
  PROVE  Places(s) = PlacesOf(code, s)
BY DEF Places, PlacesOf, Room, RoomOf, Items

\* An operand instruction has one byte or two.
LEMMA InstrLength ==
  ASSUME NEW n \in Nat, NEW op \in {"push_constant", "push_stack", "push_global", "set_global", "call", "jump"},
         OperandInstr(op, n) # <<>>
  PROVE  Len(OperandInstr(op, n)) \in 1 .. 2
<1> DEFINE w == OperandInstr(op, n)
<1>1. \/ \E a : w = <<a>>
      \/ \E a, b : w = <<a, b>>
  BY ZenonT(60) DEF OperandInstr, push_constant
<1>2. \A a, b : Len(<<a>>) = 1 /\ Len(<<a, b>>) = 2
  OBVIOUS
<1> HIDE DEF w
<1>3. Len(w) \in 1 .. 2
  BY <1>1, <1>2
<1> QED  BY <1>3 DEF w

\* Only branches may have no room.
LEMMA RoomIs ==
  ASSUME NEW c \in Seq(Item), NEW s \in [1 .. Len(c) -> Nat], NEW i \in 1 .. Len(c)
  PROVE  /\ RoomOf(c, i, s) \in Nat
         /\ c[i].kind = "label" => RoomOf(c, i, s) = 0
         /\ c[i].kind = "branch" => RoomOf(c, i, s) = s[i]
         /\ c[i].kind \notin {"label", "branch"} =>
              /\ RoomOf(c, i, s) # 0 /\ RoomOf(c, i, s) \in Nat
              /\ RoomOf(c, i, s) \in 1 .. 2 \/ RoomOf(c, i, s) \in Fill
              /\ \A t : RoomOf(c, i, t) = RoomOf(c, i, s)
<1> DEFINE x == c[i]
<1>1. x \in Item /\ s[i] \in Nat
  OBVIOUS
<1>2. CASE x.kind = "label"
  BY <1>2 DEF RoomOf
<1>3. CASE x.kind = "branch"
  BY <1>1, <1>3 DEF RoomOf
<1>4. CASE x.kind = "operand"
  <2> DEFINE k == Len(OperandInstr(x.op, x.n))
  <2>1. k \in 1 .. 2
    BY <1>1, <1>4, ItemIs, InstrLength, ZenonT(60)
  <2>2. \A t : RoomOf(c, i, t) = k
    BY <1>4 DEF RoomOf
  <2> HIDE DEF k
  <2> QED  BY <1>4, <2>1, <2>2
<1>5. CASE x.kind = "bytes"
  <2>1. x.n \in Fill /\ x.n \in Nat \ {0}
    BY <1>1, <1>5, ItemIs
  <2>2. \A t : RoomOf(c, i, t) = x.n
    BY <1>5 DEF RoomOf
  <2> QED  BY <1>5, <2>1, <2>2
<1>6. x.kind = "label" \/ x.kind = "branch" \/ x.kind = "operand" \/ x.kind = "bytes"
  BY <1>1, ItemIs
<1> QED  BY <1>2, <1>3, <1>4, <1>5, <1>6, Zenon

\* Every item stands behind the one before it.
LEMMA PlacesIs ==
  ASSUME NEW c \in Seq(Item), NEW s \in [1 .. Len(c) -> Nat]
  PROVE  /\ PlacesOf(c, s) \in [1 .. Len(c) -> Nat]
         /\ Len(c) # 0 => PlacesOf(c, s)[1] = asm_start_pos
         /\ \A i \in 2 .. Len(c) : PlacesOf(c, s)[i] = PlacesOf(c, s)[i - 1] + RoomOf(c, i - 1, s)
<1> DEFINE n == Len(c)
           step == [i \in 1 .. n |-> [x \in Nat |-> x + RoomOf(c, i, s)]]
           Loop(f) == [i \in 1 .. n |-> IF i = 1 THEN asm_start_pos ELSE f[i - 1] + RoomOf(c, i - 1, s)]
<1>0. n \in Nat /\ asm_start_pos \in Nat
  BY AssemblerAssumption
<1>1. \A i \in 1 .. n : RoomOf(c, i, s) \in Nat
  BY RoomIs
<1>2. step \in [1 .. n -> [Nat -> Nat]]
  BY <1>1
<1>3. PICK g \in [0 .. n -> Nat] : g[0] = asm_start_pos /\ \A i \in 1 .. n : g[i] = step[i][g[i - 1]]
  <2> DEFINE S == Nat
             a == asm_start_pos
  <2>1. a \in S /\ step \in [1 .. n -> [S -> S]]
    BY <1>0, <1>2
  <2> HIDE DEF step, n, S, a
  <2>2. \E g \in [0 .. n -> S] : IsRun(g, a, step, n)
    BY <1>0, <2>1, NumberedRounds
  <2> QED  BY <2>2 DEF S, a, IsRun
<1>13. \A i \in 1 .. n, y \in Nat : step[i][y] = y + RoomOf(c, i, s)
  OBVIOUS
<1> HIDE DEF step
<1>4. ASSUME NEW i \in 1 .. n PROVE g[i] = g[i - 1] + RoomOf(c, i, s)
  <2>1. g[i - 1] \in Nat /\ g[i] = step[i][g[i - 1]]
    BY <1>0, <1>3
  <2> QED  BY <1>13, <2>1
<1> DEFINE f == [i \in 1 .. n |-> g[i - 1]]
<1>5. f = Loop(f)
  BY <1>0, <1>3, <1>4
<1> DEFINE h == PlacesOf(c, s)
<1>6. h = CHOOSE k : k = Loop(k)
  BY DEF PlacesOf
<1>7. h = Loop(h)
  BY <1>5, <1>6
<1> HIDE DEF h, f
<1>8. /\ DOMAIN h = 1 .. n /\ (n # 0 => h[1] = asm_start_pos)
      /\ \A i \in 2 .. n : h[i] = h[i - 1] + RoomOf(c, i - 1, s)
  <2>1. /\ DOMAIN Loop(h) = 1 .. n
        /\ \A i \in 1 .. n : Loop(h)[i] = IF i = 1 THEN asm_start_pos ELSE h[i - 1] + RoomOf(c, i - 1, s)
    OBVIOUS
  <2> HIDE DEF Loop
  <2> QED  BY <1>0, <1>7, <2>1
<1> DEFINE T == {i \in 0 .. n : i = 0 \/ h[i] \in Nat}
<1>9. \A i \in 0 .. n - 1 : i \in T => i + 1 \in T
  <2> SUFFICES ASSUME NEW i \in 0 .. n - 1, i \in T PROVE h[i + 1] \in Nat
    BY <1>0
  <2>1. CASE i = 0
    BY <1>0, <1>8, <2>1
  <2>2. CASE i # 0
    <3>1. i + 1 \in 2 .. n /\ (i + 1) - 1 = i /\ i \in 1 .. n
      BY <1>0, <2>2
    <3>2. h[i + 1] = h[i] + RoomOf(c, i, s)
      BY <1>8, <3>1
    <3> QED  BY <1>1, <2>2, <3>1, <3>2
  <2> QED  BY <2>1, <2>2
<1>10. \A i \in 0 .. n : i \in T
  <2> HIDE DEF T
  <2>1. 0 \in T
    BY <1>0 DEF T
  <2> QED  BY <1>0, <1>9, <2>1, EveryRoundTo
<1>11. \A i \in 1 .. n : h[i] \in Nat
  BY <1>10
<1>12. h \in [1 .. n -> Nat]
  <2>1. h = [i \in 1 .. n |-> h[i]]
    BY <1>7
  <2> QED  BY <1>11, <2>1
<1> QED  BY <1>8, <1>12 DEF h

\* What the branches take grows, and nothing else does.
Grown(c, s, t) == \A i \in 1 .. Len(c) : c[i].kind = "branch" => s[i] <= t[i]

\* When the branches grow, no item shrinks.
LEMMA RoomGrows ==
  ASSUME NEW c \in Seq(Item), NEW s \in [1 .. Len(c) -> Nat], NEW t \in [1 .. Len(c) -> Nat],
         Grown(c, s, t), NEW i \in 1 .. Len(c)
  PROVE  RoomOf(c, i, s) <= RoomOf(c, i, t)
<1>1. CASE c[i].kind = "branch"
  BY <1>1, RoomIs DEF Grown
<1>2. CASE c[i].kind = "label"
  BY <1>2 DEF RoomOf
<1>3. CASE c[i].kind \notin {"branch", "label"}
  <2>1. RoomOf(c, i, s) \in Nat /\ RoomOf(c, i, t) = RoomOf(c, i, s)
    BY <1>3, RoomIs
  <2> QED  BY <2>1
<1> QED  BY <1>1, <1>2, <1>3

\* Then so does the distance between any two items.
LEMMA DistanceGrows ==
  ASSUME NEW c \in Seq(Item), NEW s \in [1 .. Len(c) -> Nat], NEW t \in [1 .. Len(c) -> Nat],
         Grown(c, s, t), NEW i \in 1 .. Len(c), NEW j \in 1 .. Len(c), i <= j
  PROVE  /\ PlacesOf(c, s)[i] <= PlacesOf(c, s)[j]
         /\ PlacesOf(c, s)[j] - PlacesOf(c, s)[i] <= PlacesOf(c, t)[j] - PlacesOf(c, t)[i]
<1> DEFINE n == Len(c)
           p == PlacesOf(c, s)
           q == PlacesOf(c, t)
           T == {k \in 0 .. n - i : p[i] <= p[i + k] /\ p[i + k] - p[i] <= q[i + k] - q[i]}
<1>1. n \in Nat /\ i \in Nat /\ j - i \in 0 .. n - i /\ i + (j - i) = j
  OBVIOUS
<1>2. /\ p \in [1 .. n -> Nat] /\ q \in [1 .. n -> Nat]
      /\ \A k \in 2 .. n : p[k] = p[k - 1] + RoomOf(c, k - 1, s)
      /\ \A k \in 2 .. n : q[k] = q[k - 1] + RoomOf(c, k - 1, t)
  BY PlacesIs
<1>3. \A k \in 1 .. n : RoomOf(c, k, s) \in Nat /\ RoomOf(c, k, t) \in Nat /\ RoomOf(c, k, s) <= RoomOf(c, k, t)
  BY RoomIs, RoomGrows
<1> HIDE DEF p, q
<1>4. 0 \in T
  BY <1>1, <1>2
<1>5. ASSUME NEW k \in 0 .. (n - i) - 1, k \in T PROVE k + 1 \in T
  <2>1. i + k + 1 \in 2 .. n /\ (i + k + 1) - 1 = i + k /\ i + k \in 1 .. n /\ i + (k + 1) = i + k + 1
    BY <1>1
  <2>2. p[i + k + 1] = p[i + k] + RoomOf(c, i + k, s) /\ q[i + k + 1] = q[i + k] + RoomOf(c, i + k, t)
    BY <1>2, <2>1
  <2>3. p[i + k] \in Nat /\ q[i + k] \in Nat /\ p[i] \in Nat /\ q[i] \in Nat
    BY <1>2, <2>1
  <2>4. RoomOf(c, i + k, s) \in Nat /\ RoomOf(c, i + k, t) \in Nat /\ RoomOf(c, i + k, s) <= RoomOf(c, i + k, t)
    BY <1>3, <2>1
  <2>5. p[i] <= p[i + k] /\ p[i + k] - p[i] <= q[i + k] - q[i]
    BY <1>5
  <2>6. p[i] <= p[i + k + 1] /\ p[i + k + 1] - p[i] <= q[i + k + 1] - q[i]
    BY <2>2, <2>3, <2>4, <2>5, SMTT(30)
  <2> QED  BY <1>1, <2>1, <2>6
<1>6. \A k \in 0 .. n - i : k \in T
  <2>1. n - i \in Nat
    BY <1>1
  <2> HIDE DEF T
  <2> QED  BY <1>4, <1>5, <2>1, EveryRoundTo
<1>7. j - i \in T
  <2> HIDE DEF T
  <2> QED  BY <1>1, <1>6
<1> QED  BY <1>1, <1>7 DEF p, q

\* An item stands behind the room of every earlier one.
LEMMA PlacesApart ==
  ASSUME NEW c \in Seq(Item), NEW s \in [1 .. Len(c) -> Nat], NEW i \in 1 .. Len(c), NEW j \in 1 .. Len(c), i < j
  PROVE  PlacesOf(c, s)[j] >= PlacesOf(c, s)[i] + RoomOf(c, i, s)
<1>1. Grown(c, s, s)
  <2>1. \A k \in 1 .. Len(c) : s[k] \in Nat
    OBVIOUS
  <2> QED  BY <2>1 DEF Grown
<1>2. i + 1 \in 2 .. Len(c) /\ i + 1 \in 1 .. Len(c) /\ (i + 1) - 1 = i /\ i + 1 <= j
  OBVIOUS
<1>3. PlacesOf(c, s)[i + 1] = PlacesOf(c, s)[i] + RoomOf(c, i, s)
  BY <1>2, PlacesIs
<1>4. PlacesOf(c, s)[i + 1] <= PlacesOf(c, s)[j]
  BY <1>1, <1>2, DistanceGrows
<1>5. PlacesOf(c, s) \in [1 .. Len(c) -> Nat] /\ RoomOf(c, i, s) \in Nat
  BY PlacesIs, RoomIs
<1> QED  BY <1>2, <1>3, <1>4, <1>5

\* What grows starts at the same place, so that no place comes to lie further in front.
LEMMA PlacesGrow ==
  ASSUME NEW c \in Seq(Item), NEW s \in [1 .. Len(c) -> Nat], NEW t \in [1 .. Len(c) -> Nat],
         Grown(c, s, t), NEW i \in 1 .. Len(c)
  PROVE  PlacesOf(c, s)[i] <= PlacesOf(c, t)[i]
<1>1. 1 \in 1 .. Len(c) /\ 1 <= i /\ Len(c) # 0
  OBVIOUS
<1>2. PlacesOf(c, s)[1] = asm_start_pos /\ PlacesOf(c, t)[1] = asm_start_pos
  BY <1>1, PlacesIs
<1>3. PlacesOf(c, s)[i] - PlacesOf(c, s)[1] <= PlacesOf(c, t)[i] - PlacesOf(c, t)[1]
  BY <1>1, DistanceGrows
<1>4. PlacesOf(c, s)[i] \in Nat /\ PlacesOf(c, t)[i] \in Nat
  BY PlacesIs
<1> QED  BY <1>2, <1>3, <1>4, AssemblerAssumption

\* An item behind items of the same room stands at the same place.
LEMMA PlacesSame ==
  ASSUME NEW c \in Seq(Item), NEW s \in [1 .. Len(c) -> Nat], NEW t \in [1 .. Len(c) -> Nat],
         NEW i \in 1 .. Len(c), \A k \in 1 .. i - 1 : RoomOf(c, k, s) = RoomOf(c, k, t)
  PROVE  PlacesOf(c, s)[i] = PlacesOf(c, t)[i]
<1> DEFINE p == PlacesOf(c, s)
           q == PlacesOf(c, t)
           T == {k \in 0 .. i - 1 : p[k + 1] = q[k + 1]}
<1>1. i \in Nat /\ Len(c) \in Nat /\ i - 1 \in 0 .. i - 1 /\ (i - 1) + 1 = i /\ Len(c) # 0
  OBVIOUS
<1>2. /\ p[1] = asm_start_pos /\ q[1] = asm_start_pos
      /\ \A k \in 2 .. Len(c) : p[k] = p[k - 1] + RoomOf(c, k - 1, s)
      /\ \A k \in 2 .. Len(c) : q[k] = q[k - 1] + RoomOf(c, k - 1, t)
  BY <1>1, PlacesIs
<1> HIDE DEF p, q
<1>3. 0 \in T
  BY <1>1, <1>2
<1>4. ASSUME NEW k \in 0 .. (i - 1) - 1, k \in T PROVE k + 1 \in T
  <2>1. /\ k + 1 \in 1 .. i - 1 /\ (k + 1) + 1 \in 2 .. Len(c) /\ ((k + 1) + 1) - 1 = k + 1
        /\ k + 1 \in 0 .. i - 1
    BY <1>1
  <2>2. p[(k + 1) + 1] = p[k + 1] + RoomOf(c, k + 1, s) /\ q[(k + 1) + 1] = q[k + 1] + RoomOf(c, k + 1, t)
    BY <1>2, <2>1
  <2> QED  BY <1>4, <2>1, <2>2
<1>5. \A k \in 0 .. i - 1 : k \in T
  <2>1. i - 1 \in Nat
    BY <1>1
  <2> HIDE DEF T
  <2> QED  BY <1>3, <1>4, <2>1, EveryRoundTo
<1> QED  BY <1>1, <1>5 DEF p, q

\* The code ends at a bounded place when every item has bounded room.
LEMMA PlacesBounded ==
  ASSUME NEW c \in Seq(Item), NEW s \in [1 .. Len(c) -> Nat], NEW most \in Nat,
         \A k \in 1 .. Len(c) : RoomOf(c, k, s) <= most, NEW i \in 1 .. Len(c)
  PROVE  PlacesOf(c, s)[i] <= asm_start_pos + (i - 1) * most
<1> DEFINE p == PlacesOf(c, s)
           T == {k \in 0 .. i - 1 : p[k + 1] <= asm_start_pos + k * most}
<1>1. i \in Nat /\ Len(c) \in Nat /\ i - 1 \in 0 .. i - 1 /\ (i - 1) + 1 = i /\ Len(c) # 0
  OBVIOUS
<1>2. /\ p[1] = asm_start_pos /\ p \in [1 .. Len(c) -> Nat]
      /\ \A k \in 2 .. Len(c) : p[k] = p[k - 1] + RoomOf(c, k - 1, s)
  BY <1>1, PlacesIs
<1>3. \A k \in 1 .. Len(c) : RoomOf(c, k, s) \in Nat
  BY RoomIs
<1> HIDE DEF p
<1>4. 0 \in T
  BY <1>1, <1>2, AssemblerAssumption
<1>5. ASSUME NEW k \in 0 .. (i - 1) - 1, k \in T PROVE k + 1 \in T
  <2>1. /\ k + 1 \in 1 .. Len(c) /\ (k + 1) + 1 \in 2 .. Len(c) /\ ((k + 1) + 1) - 1 = k + 1
        /\ k + 1 \in 0 .. i - 1 /\ k \in Nat
    BY <1>1
  <2>2. p[(k + 1) + 1] = p[k + 1] + RoomOf(c, k + 1, s)
    BY <1>2, <2>1
  <2>3. p[k + 1] \in Nat /\ RoomOf(c, k + 1, s) \in Nat /\ RoomOf(c, k + 1, s) <= most
    BY <1>2, <1>3, <2>1
  <2>4. p[k + 1] <= asm_start_pos + k * most
    BY <1>5
  <2>5. (k + 1) * most = k * most + most /\ k * most \in Nat
    BY <2>1
  <2>6. p[(k + 1) + 1] <= asm_start_pos + (k + 1) * most
    BY <2>2, <2>3, <2>4, <2>5, AssemblerAssumption
  <2> QED  BY <2>1, <2>6
<1>6. \A k \in 0 .. i - 1 : k \in T
  <2>1. i - 1 \in Nat
    BY <1>1
  <2> HIDE DEF T
  <2> QED  BY <1>4, <1>5, <2>1, EveryRoundTo
<1>7. i - 1 \in T
  <2> HIDE DEF T
  <2> QED  BY <1>1, <1>6
<1> QED  BY <1>1, <1>7 DEF p

-----------------------------------------------------------------------------
(* Labels, and the branches that lead to them. *)

Idx(c, l) == CHOOSE i \in 1 .. Len(c) : c[i] = LabelItem(l)
Unique(c) == \A i, j \in 1 .. Len(c) : c[i].kind = "label" /\ c[i] = c[j] => i = j
LabelsOf(c, s) ==
  [l \in {c[i].l : i \in {j \in 1 .. Len(c) : c[j].kind = "label"}} |-> PlacesOf(c, s)[Idx(c, l)]]

\* LabelPositions is this function of the code.
LEMMA LabelsAre ==
  ASSUME NEW s
  PROVE  LabelPositions(s) = LabelsOf(code, s)
BY PlacesAre DEF LabelPositions, LabelsOf, Items, IsLabel, Idx

\* The position of a label is the place of its item.
LEMMA LabelIs ==
  ASSUME NEW c \in Seq(Item), Unique(c), NEW s, NEW j \in 1 .. Len(c), c[j].kind = "label"
  PROVE  Idx(c, c[j].l) = j /\ LabelsOf(c, s)[c[j].l] = PlacesOf(c, s)[j]
<1>1. c[j] = LabelItem(c[j].l)
  <2>1. c[j] \in Item
    OBVIOUS
  <2> QED  BY <2>1, ItemIs
<1>2. Idx(c, c[j].l) = j
  <2> DEFINE k == Idx(c, c[j].l)
  <2>1. k \in 1 .. Len(c) /\ c[k] = LabelItem(c[j].l)
    BY <1>1 DEF Idx
  <2> QED  BY <1>1, <2>1 DEF Unique
<1> QED  BY <1>2 DEF LabelsOf

\* Every branch leads to a label of the code.
Target(c, i) == Idx(c, c[i].l)
Led(c) == \A i \in 1 .. Len(c) : c[i].kind = "branch" => \E j \in 1 .. Len(c) : c[j] = LabelItem(c[i].l)

\* A branch leads to the place of a label, which is another item.
LEMMA TargetIs ==
  ASSUME NEW c \in Seq(Item), Unique(c), Led(c), NEW s, NEW i \in 1 .. Len(c), c[i].kind = "branch"
  PROVE  /\ Target(c, i) \in 1 .. Len(c) /\ Target(c, i) # i
         /\ c[Target(c, i)].kind = "label"
         /\ LabelsOf(c, s)[c[i].l] = PlacesOf(c, s)[Target(c, i)]
<1> DEFINE j == Target(c, i)
<1>1. j \in 1 .. Len(c) /\ c[j] = LabelItem(c[i].l)
  BY DEF Led, Target, Idx
<1>2. c[j].kind = "label" /\ c[j].l = c[i].l /\ j # i
  BY <1>1 DEF LabelItem
<1> QED  BY <1>1, <1>2, LabelIs

\* Why a form is refused for good.  A label behind the branch only moves away from it,
\* and so does one before it.  A branch of four bits is refused besides when nothing but
\* branches and labels lie between: as long as they have no room, the label is too near.
Between(c, i) ==
  i < Target(c, i) /\ \A j \in i + 1 .. Target(c, i) - 1 : c[j].kind \in {"branch", "label"}
Bad(c, i, f, s) ==
  LET d == Distance(f, PlacesOf(c, s)[Target(c, i)], PlacesOf(c, s)[i])
  IN \/ Opcode[c[i].op][f] = 0
     \/ d > Limit[f] /\ i < Target(c, i)
     \/ d < 0 /\ Target(c, i) < i
     \/ f = 1 /\ Between(c, i)

\* An alternative that does not fit is refused for one of these reasons.
LEMMA RefusedIsBad ==
  ASSUME NEW c \in Seq(Item), Unique(c), Led(c), NEW s \in [1 .. Len(c) -> Nat],
         NEW i \in 1 .. Len(c), c[i].kind = "branch", NEW f \in 1 .. 3,
         ~Fits(c[i].op, f, PlacesOf(c, s)[Target(c, i)], PlacesOf(c, s)[i])
  PROVE  Bad(c, i, f, s)
<1> DEFINE t == Target(c, i)
           p == PlacesOf(c, s)
           d == Distance(f, p[t], p[i])
           op == c[i].op
<1>1. /\ t \in 1 .. Len(c) /\ t # i /\ i \in 1 .. Len(c) /\ c[i] \in Item
  BY TargetIs, SMTT(30)
<1>2. p[t] \in Nat /\ p[i] \in Nat
  BY <1>1, PlacesIs
<1>3. op \in DOMAIN Opcode
  BY <1>1, ItemIs
<1>4. f = 3 => Opcode[op][f] = 0
  BY <1>3 DEF Opcode
<1>5. Opcode[op][f] = 0 \/ ~(d \in 0 .. Limit[f])
  BY DEF Fits
<1>6. CASE f = 1 /\ ~(d \in 0 .. Limit[f])
  <2>1. d = p[t] - (p[i] + 1) /\ Limit[f] = 15 /\ d \in Int
    BY <1>2, <1>6 DEF Distance, Limit
  <2>2. CASE i < t
    <3>1. p[t] >= p[i] + RoomOf(c, i, s) /\ RoomOf(c, i, s) \in Nat
      BY <1>1, <2>2, PlacesApart, RoomIs
    <3>2. CASE d > 15
      BY <2>1, <2>2, <3>2 DEF Bad
    <3>3. CASE d < 0
      <4>1. p[t] = p[i]
        BY <1>2, <2>1, <3>1, <3>3
      <4>2. ASSUME NEW j \in i + 1 .. t - 1 PROVE c[j].kind \in {"branch", "label"}
        <5>1. j \in 1 .. Len(c) /\ i < j /\ j < t
          BY <1>1, <2>2
        <5>2. p[j] >= p[i] + RoomOf(c, i, s) /\ p[t] >= p[j] + RoomOf(c, j, s) /\ RoomOf(c, j, s) \in Nat /\ p[j] \in Nat
          BY <1>1, <5>1, PlacesApart, RoomIs, PlacesIs
        <5>3. RoomOf(c, j, s) = 0
          BY <1>2, <3>1, <4>1, <5>2, SMTT(30)
        <5> QED  BY <5>1, <5>3, RoomIs
      <4> QED  BY <1>6, <2>2, <4>2 DEF Bad, Between
    <3> QED  BY <1>6, <2>1, <3>2, <3>3, SMTT(30)
  <2>3. CASE t < i
    <3>1. p[i] >= p[t] + RoomOf(c, t, s) /\ RoomOf(c, t, s) \in Nat
      BY <1>1, <2>3, PlacesApart, RoomIs
    <3>2. d < 0
      BY <1>2, <2>1, <3>1
    <3> QED  BY <2>3, <3>2 DEF Bad
  <2> QED  BY <1>1, <2>2, <2>3
<1>7. CASE f = 2 /\ ~(d \in 0 .. Limit[f])
  <2>1. d = 128 + p[t] - (p[i] + 2) /\ Limit[f] = 255 /\ d \in Int
    BY <1>2, <1>7 DEF Distance, Limit
  <2>2. CASE i < t
    <3>1. p[t] >= p[i] + RoomOf(c, i, s) /\ RoomOf(c, i, s) \in Nat
      BY <1>1, <2>2, PlacesApart, RoomIs
    <3>2. d > 255
      <4> HIDE DEF p, t
      <4>1. d >= 126
        BY <1>2, <2>1, <3>1, SMTT(30)
      <4>2. d \in Int /\ ~(d \in 0 .. 255)
        BY <1>7, <2>1
      <4> HIDE DEF d
      <4> QED  BY <4>1, <4>2
    <3> QED  BY <2>1, <2>2, <3>2 DEF Bad
  <2>3. CASE t < i
    <3>1. p[i] >= p[t] + RoomOf(c, t, s) /\ RoomOf(c, t, s) \in Nat
      BY <1>1, <2>3, PlacesApart, RoomIs
    <3>2. d < 0
      <4> HIDE DEF p, t
      <4>1. d <= 126
        BY <1>2, <2>1, <3>1, SMTT(30)
      <4>2. d \in Int /\ ~(d \in 0 .. 255)
        BY <1>7, <2>1
      <4> HIDE DEF d
      <4> QED  BY <4>1, <4>2
    <3> QED  BY <2>3, <3>2 DEF Bad
  <2> QED  BY <1>1, <2>2, <2>3
<1>8. CASE Opcode[op][f] = 0
  BY <1>8 DEF Bad
<1> QED  BY <1>4, <1>5, <1>6, <1>7, <1>8

\* The operand of a relative form is the distance and a constant.
LEMMA DistanceIs ==
  ASSUME NEW f \in 1 .. 3
  PROVE  \E k \in Int : \A a, b \in Nat : Distance(f, a, b) = k + (a - b)
<1>1. \A a, b \in Nat : /\ f = 1 => Distance(f, a, b) = (0 - 1) + (a - b)
                        /\ f = 2 => Distance(f, a, b) = 126 + (a - b)
                        /\ f = 3 => Distance(f, a, b) = 2046 + (a - b)
  BY DEF Distance
<1>2. CASE f = 1
  <2> DEFINE k == 0 - 1
  <2>1. k \in Int /\ \A a, b \in Nat : Distance(f, a, b) = k + (a - b)
    BY <1>1, <1>2
  <2> HIDE DEF k
  <2> QED  BY <2>1
<1>3. CASE f = 2
  <2> DEFINE k == 126
  <2>1. k \in Int /\ \A a, b \in Nat : Distance(f, a, b) = k + (a - b)
    BY <1>1, <1>3
  <2> HIDE DEF k
  <2> QED  BY <2>1
<1>4. CASE f = 3
  <2> DEFINE k == 2046
  <2>1. k \in Int /\ \A a, b \in Nat : Distance(f, a, b) = k + (a - b)
    BY <1>1, <1>4
  <2> HIDE DEF k
  <2> QED  BY <2>1
<1> QED  BY <1>2, <1>3, <1>4

\* What was refused once is refused when the branches have grown.
LEMMA BadKept ==
  ASSUME NEW c \in Seq(Item), Unique(c), Led(c),
         NEW s \in [1 .. Len(c) -> Nat], NEW t \in [1 .. Len(c) -> Nat], Grown(c, s, t),
         NEW i \in 1 .. Len(c), c[i].kind = "branch", NEW f \in 1 .. 3, Bad(c, i, f, s)
  PROVE  Bad(c, i, f, t)
<1> DEFINE j == Target(c, i)
           p == PlacesOf(c, s)
           q == PlacesOf(c, t)
           d == Distance(f, p[j], p[i])
           e == Distance(f, q[j], q[i])
<1>1. j \in 1 .. Len(c) /\ j # i
  BY TargetIs
<1>2. p[j] \in Nat /\ p[i] \in Nat /\ q[j] \in Nat /\ q[i] \in Nat
  BY <1>1, PlacesIs
<1>3. Limit[f] \in Nat
  BY DEF Limit
<1>7. \E k \in Int : \A a, b \in Nat : Distance(f, a, b) = k + (a - b)
  BY DistanceIs
<1>4. CASE d > Limit[f] /\ i < j
  <2>1. p[j] - p[i] <= q[j] - q[i]
    <3>1. i <= j
      BY <1>1, <1>4
    <3> HIDE DEF j
    <3> QED  BY <1>1, <3>1, DistanceGrows
  <2>2. e >= d /\ e \in Int /\ d \in Int
    <3>1. PICK k \in Int : \A a, b \in Nat : Distance(f, a, b) = k + (a - b)
      BY <1>7
    <3>2. d = k + (p[j] - p[i]) /\ e = k + (q[j] - q[i])
      BY <1>2, <3>1
    <3> HIDE DEF p, q, j, d, e
    <3> QED  BY <1>2, <2>1, <3>2, SMTT(30)
  <2>3. e > Limit[f]
    <3> HIDE DEF d, e
    <3> QED  BY <1>3, <1>4, <2>2
  <2> QED  BY <1>4, <2>3 DEF Bad
<1>5. CASE d < 0 /\ j < i
  <2>1. p[i] - p[j] <= q[i] - q[j]
    <3>1. j <= i
      BY <1>1, <1>5
    <3> HIDE DEF j
    <3> QED  BY <1>1, <3>1, DistanceGrows
  <2>2. e <= d /\ e \in Int /\ d \in Int
    <3>3. q[j] - q[i] <= p[j] - p[i]
      <4> HIDE DEF p, q, j
      <4> QED  BY <1>2, <2>1, SMTT(30)
    <3>1. PICK k \in Int : \A a, b \in Nat : Distance(f, a, b) = k + (a - b)
      BY <1>7
    <3>2. d = k + (p[j] - p[i]) /\ e = k + (q[j] - q[i])
      BY <1>2, <3>1
    <3> HIDE DEF p, q, j, d, e
    <3> QED  BY <1>2, <3>2, <3>3, SMTT(30)
  <2>3. e < 0
    <3> HIDE DEF d, e
    <3> QED  BY <1>5, <2>2
  <2> QED  BY <1>5, <2>3 DEF Bad
<1>6. CASE Opcode[c[i].op][f] = 0 \/ (f = 1 /\ Between(c, i))
  BY <1>6 DEF Bad
<1> QED  BY <1>4, <1>5, <1>6 DEF Bad

-----------------------------------------------------------------------------
(* What the interpreter makes of the bytes. *)

\* Sixteen bits and their halves.
Address == {n \in Nat : n <= 65535}

\* A number of sixteen bits is what its two bytes make.
LEMMA Halves ==
  ASSUME NEW n \in Address
  PROVE  /\ \A op : Instr(op, n) = [op |-> op, n |-> n]
         /\ n % 256 \in 0 .. 255 /\ n \div 256 \in 0 .. 255
         /\ (n \div 256) % 256 = n \div 256
         /\ (n % 256) + 256 * (n \div 256) = n
<1>0. n \in Int /\ 0 <= n /\ n <= 65535
  BY DEF Address
<1>1. \A op : Instr(op, n) = [op |-> op, n |-> n]
  <2>1. n % 65536 = n
    BY <1>0
  <2> QED  BY <2>1 DEF Instr
<1>2. n % 256 \in 0 .. 255 /\ n \div 256 \in 0 .. 255
  BY <1>0
<1>3. (n % 256) + 256 * (n \div 256) = n
  BY <1>0
<1> DEFINE h == n \div 256
<1>4. h % 256 = h
  <2>1. h \in 0 .. 255
    BY <1>2
  <2> HIDE DEF h
  <2> QED  BY <2>1
<1> QED  BY <1>1, <1>2, <1>3, <1>4

\* What a small number added to the bits of an opcode leaves in its low bits.
LEMMA LowBits ==
  ASSUME NEW n \in 0 .. 15
  PROVE  \A b \in {64, 80, 96, 112, 128, 144, 160} : Low(b + n) = n
<1>1. (64 + n) % 16 = n /\ (80 + n) % 16 = n /\ (96 + n) % 16 = n /\ (112 + n) % 16 = n
  OBVIOUS
<1>2. (128 + n) % 16 = n /\ (144 + n) % 16 = n /\ (160 + n) % 16 = n
  OBVIOUS
<1> QED  BY <1>1, <1>2 DEF Low

\* A byte is written as it is.
LEMMA LowByte ==
  ASSUME NEW m \in Nat, m <= 255
  PROVE  asm_8(m) = m
BY DEF asm_8

\* The last alternative, an opcode before the address.
Long(b, n) == <<b>> \o asm_16(n)

\* The last alternative is the opcode before the address.
LEMMA LongForm ==
  ASSUME NEW op, NEW f, f = 4, NEW target, NEW self
  PROVE  LabelInstr(op, f, target, self) = Long(Opcode[op][4], target)
<1>1. LabelInstr(op, f, target, self) = <<Opcode[op][f]>> \o asm_16(Distance(f, target, self))
  BY DEF LabelInstr
<1>2. Distance(f, target, self) = target
  BY DEF Distance
<1> QED  BY <1>1, <1>2, Zenon DEF Long

\* The bytes of an opcode and an address, one by one.
LEMMA ThreeBytes ==
  ASSUME NEW x \in Nat, NEW y \in Nat, NEW z \in Nat
  PROVE  (<<x>> \o <<y, z>>)[1] = x /\ (<<x>> \o <<y, z>>)[2] = y /\ (<<x>> \o <<y, z>>)[3] = z
OBVIOUS

\* What the interpreter reads of the last alternative.
LEMMA LongBytes ==
  ASSUME NEW b \in Nat, NEW n \in Address
  PROVE  Long(b, n)[1] = b /\ Long(b, n)[2] = n % 256 /\ Long(b, n)[3] = n \div 256
<1> DEFINE l == n % 256
           h == n \div 256
<1>1. l \in Nat /\ h \in Nat /\ asm_16(n) = <<l, h>>
  <2>1. l \in 0 .. 255 /\ h \in 0 .. 255 /\ h % 256 = h
    BY Halves
  <2>2. asm_16(n) = <<l, h % 256>>
    BY DEF asm_16
  <2> HIDE DEF l, h
  <2> QED  BY <2>1, <2>2
<1> HIDE DEF l, h
<1>2. Long(b, n) = <<b>> \o <<l, h>>
  BY <1>1, Zenon DEF Long
<1>3. Long(b, n)[1] = b /\ Long(b, n)[2] = l /\ Long(b, n)[3] = h
  BY <1>1, <1>2, ThreeBytes
<1> QED  BY <1>3 DEF l, h

\* The first byte says which instruction it is.
LEMMA DecodedPushConstant ==
  ASSUME NEW w, NEW self, NEW b \in 0 .. 31, w[1] = b
  PROVE  Decoded(w, self) = Instr("push_constant", ShortConstant(Small(b)))
BY DEF Decoded

\* A number on the stack.
LEMMA DecodedPushStack ==
  ASSUME NEW w, NEW self, NEW b \in 32 .. 63, w[1] = b
  PROVE  Decoded(w, self) = Instr("push_stack", Small(b))
BY DEF Decoded

\* A global that is read.
LEMMA DecodedPushGlobal ==
  ASSUME NEW w, NEW self, NEW b \in 64 .. 79, w[1] = b
  PROVE  Decoded(w, self) = Instr("push_global", Low(b))
BY DEF Decoded

\* A global that is set.
LEMMA DecodedSetGlobal ==
  ASSUME NEW w, NEW self, NEW b \in 80 .. 95, w[1] = b
  PROVE  Decoded(w, self) = Instr("set_global", Low(b))
BY DEF Decoded

\* A call.
LEMMA DecodedCall ==
  ASSUME NEW w, NEW self, NEW b \in 96 .. 111, w[1] = b
  PROVE  Decoded(w, self) = Instr("call", Low(b))
BY DEF Decoded

\* A jump.
LEMMA DecodedJump ==
  ASSUME NEW w, NEW self, NEW b \in 112 .. 127, w[1] = b
  PROVE  Decoded(w, self) = Instr("jump", Low(b))
BY DEF Decoded

\* A jump of four bits to a procedure.
LEMMA DecodedJumpToplevel ==
  ASSUME NEW w, NEW self, NEW b \in 128 .. 143, w[1] = b
  PROVE  Decoded(w, self) = Instr("jump_toplevel", self + 1 + Low(b))
BY DEF Decoded

\* A conditional branch of four bits.
LEMMA DecodedGotoIfFalse ==
  ASSUME NEW w, NEW self, NEW b \in 144 .. 159, w[1] = b
  PROVE  Decoded(w, self) = Instr("goto_if_false", self + 1 + Low(b))
BY DEF Decoded

\* A constant of twelve bits.
LEMMA DecodedPushLong ==
  ASSUME NEW w, NEW self, NEW b \in 160 .. 175, w[1] = b
  PROVE  Decoded(w, self) = Instr("push_constant", LongConstant(Low(b) * 256 + w[2]))
BY DEF Decoded

\* A branch to an address.
LEMMA DecodedAbsolute ==
  ASSUME NEW w, NEW self, NEW b \in 176 .. 180, w[1] = b
  PROVE  Decoded(w, self) = Instr(AbsoluteOp[b - 175], w[2] + 256 * w[3])
BY DEF Decoded

\* A branch of eight bits.
LEMMA DecodedRelative ==
  ASSUME NEW w, NEW self, NEW b \in 181 .. 185, w[1] = b
  PROVE  Decoded(w, self) = Instr(AbsoluteOp[b - 180], self + 2 + w[2] - 128)
BY DEF Decoded

\* The form that fits is decoded to the instruction and its label.
LEMMA BranchDecodes ==
  ASSUME NEW op \in DOMAIN Opcode, NEW f \in 1 .. 4, NEW target \in Address, NEW self \in Nat,
         Fits(op, f, target, self)
  PROVE  Decoded(LabelInstr(op, f, target, self), self) = [op |-> op, n |-> target]
<1> DEFINE d == Distance(f, target, self)
           w == LabelInstr(op, f, target, self)
<1>1. \A o : Instr(o, target) = [op |-> o, n |-> target]
  BY Halves
<1>0. target \in Nat
  BY DEF Address
<1>2. op \in {"call_toplevel", "jump_toplevel", "goto", "goto_if_false", "closure"}
  BY DEF Opcode
<1>3. CASE f = 1
  <2>1. Opcode[op][1] # 0
    BY <1>3 DEF Fits
  <2>2. \/ op = "jump_toplevel" /\ Opcode[op][1] = 128
        \/ op = "goto_if_false" /\ Opcode[op][1] = 144
    BY <1>2, <2>1 DEF Opcode
  <2>3. d = target - (self + 1)
    BY <1>3 DEF Distance
  <2>4. d \in 0 .. 15
    BY <1>3 DEF Fits, Limit
  <2>5. w = <<asm_8(Opcode[op][1] + d)>>
    BY <1>3 DEF LabelInstr
  <2> HIDE DEF d
  <2>6. CASE op = "jump_toplevel"
    <3> DEFINE b == 128 + d
    <3>1. b \in Nat /\ b <= 255 /\ b \in 128 .. 143
      BY <2>4
    <3>2. Low(b) = d /\ self + 1 + d = target
      BY <1>0, <2>3, <2>4, LowBits
    <3>3. w = <<asm_8(b)>>
      BY <2>2, <2>5, <2>6
    <3> HIDE DEF b, w
    <3>4. w[1] = b
      BY <3>1, <3>3, LowByte
    <3>5. Decoded(w, self) = Instr("jump_toplevel", self + 1 + Low(b))
      BY <3>1, <3>4, DecodedJumpToplevel, Zenon
    <3> QED  BY <1>1, <2>6, <3>2, <3>5 DEF w
  <2>7. CASE op = "goto_if_false"
    <3> DEFINE b == 144 + d
    <3>1. b \in Nat /\ b <= 255 /\ b \in 144 .. 159
      BY <2>4
    <3>2. Low(b) = d /\ self + 1 + d = target
      BY <1>0, <2>3, <2>4, LowBits
    <3>3. w = <<asm_8(b)>>
      BY <2>2, <2>5, <2>7
    <3> HIDE DEF b, w
    <3>4. w[1] = b
      BY <3>1, <3>3, LowByte
    <3>5. Decoded(w, self) = Instr("goto_if_false", self + 1 + Low(b))
      BY <3>1, <3>4, DecodedGotoIfFalse, Zenon
    <3> QED  BY <1>1, <2>7, <3>2, <3>5 DEF w
  <2> QED  BY <2>2, <2>6, <2>7
<1>4. CASE f = 2
  <2>1. d = 128 + target - (self + 2)
    BY <1>4 DEF Distance
  <2>2. d \in 0 .. 255
    <3>1. d \in 0 .. Limit[f] /\ Limit[f] = 255
      BY <1>4 DEF Fits, Limit
    <3> HIDE DEF d
    <3> QED  BY <3>1
  <2>3. w = <<Opcode[op][2], asm_8(d)>>
    BY <1>4 DEF LabelInstr
  <2> DEFINE b == Opcode[op][2]
  <2>4. b \in 181 .. 185 /\ b \in Nat /\ AbsoluteOp[b - 180] = op
    BY <1>2 DEF Opcode, AbsoluteOp
  <2> HIDE DEF d, b
  <2>5. asm_8(d) = d /\ self + 2 + d - 128 = target
    BY <1>0, <2>1, <2>2, LowByte
  <2>6. w[1] = b /\ w[2] = d
    <3>1. w = <<b, d>>
      BY <2>3, <2>5 DEF b
    <3> HIDE DEF w
    <3> QED  BY <3>1
  <2> HIDE DEF w
  <2>7. Decoded(w, self) = Instr(AbsoluteOp[b - 180], self + 2 + w[2] - 128)
    BY <2>4, <2>6, DecodedRelative, ZenonT(30)
  <2> QED  BY <1>1, <2>4, <2>5, <2>6, <2>7 DEF w
<1>5. CASE f = 3
  <2>1. Opcode[op][3] = 0
    BY <1>2 DEF Opcode
  <2> QED  BY <1>5, <2>1 DEF Fits
<1>6. CASE f = 4
  <2> DEFINE b == Opcode[op][4]
  <2>1. w = Long(b, target)
    BY <1>6, LongForm, Zenon
  <2>2. b \in 176 .. 180 /\ b \in Nat /\ AbsoluteOp[b - 175] = op
    BY <1>2 DEF Opcode, AbsoluteOp
  <2> HIDE DEF d, b, w
  <2>3. w[1] = b /\ w[2] = target % 256 /\ w[3] = target \div 256
    <3>1. b \in Nat
      BY <2>2
    <3>2. Long(b, target)[1] = b /\ Long(b, target)[2] = target % 256 /\ Long(b, target)[3] = target \div 256
      BY <3>1, LongBytes
    <3> QED  BY <2>1, <3>2, Zenon
  <2>4. (target % 256) + 256 * (target \div 256) = target
    BY Halves
  <2>5. Decoded(w, self) = Instr(AbsoluteOp[b - 175], w[2] + 256 * w[3])
    BY <2>2, <2>3, DecodedAbsolute, ZenonT(60)
  <2>6. w[2] + 256 * w[3] = target
    BY <2>3, <2>4, Zenon
  <2> QED  BY <1>1, <2>2, <2>5, <2>6, ZenonT(60) DEF w
<1> QED  BY <1>3, <1>4, <1>5, <1>6

\* So is an operand.  (Globals beyond the fifteenth have a form the interpreter takes for
\* another instruction; no constant has a number of more than twelve bits.)
TwelveBits == {n \in Nat : n <= 4095}

\* A constant has the same pointer in its long form, its short form and the cells of the ROM.
LEMMA ConstantIs ==
  ASSUME NEW n \in TwelveBits
  PROVE  /\ n \in Nat /\ n \div 256 \in 0 .. 15 /\ (n \div 256) % 16 = n \div 256
         /\ n % 256 \in 0 .. 255
         /\ (n \div 256) * 256 + (n % 256) = n
         /\ Instr("push_constant", LongConstant(n)) = [op |-> "push_constant", n |-> to_rom_index(n)]
         /\ n \in 0 .. 31 => Instr("push_constant", ShortConstant(n)) = [op |-> "push_constant", n |-> to_rom_index(n)]
<1>1. n \in Int /\ 0 <= n /\ n <= 4095
  BY DEF TwelveBits
<1>2. n \div 256 \in 0 .. 15 /\ n % 256 \in 0 .. 255
  BY <1>1
<1>3. (n \div 256) * 256 + (n % 256) = n
  BY <1>1
<1>4. (n \div 256) % 16 = n \div 256
  <2> DEFINE h == n \div 256
  <2>1. h \in 0 .. 15
    BY <1>2
  <2> HIDE DEF h
  <2>2. h % 16 = h
    BY <2>1
  <2> QED  BY <2>2 DEF h
<1>5. to_rom_index(n) \in Address /\ LongConstant(n) = to_rom_index(n)
  <2>0. \A k \in Int : 0 <= k /\ k <= 65535 => k \in Address
    BY DEF Address
  <2>1. CASE n < 3
    <3>1. to_rom_index(n) = n + 65533
      BY <1>1, <2>1 DEF to_rom_index
    <3>2. LongConstant(n) = n + 65533
      BY <1>1, <2>1 DEF LongConstant
    <3>3. n + 65533 \in Int /\ 0 <= n + 65533 /\ n + 65533 <= 65535
      BY <1>1, <2>1
    <3> QED  BY <2>0, <3>1, <3>2, <3>3
  <2>2. CASE n \in 3 .. 259
    <3>1. to_rom_index(n) = (n - 3) + 65024
      BY <2>2 DEF to_rom_index
    <3>2. LongConstant(n) = (n - 3) + 65024
      BY <2>2 DEF LongConstant
    <3>3. (n - 3) + 65024 \in Int /\ 0 <= (n - 3) + 65024 /\ (n - 3) + 65024 <= 65535
      BY <1>1, <2>2
    <3> QED  BY <2>0, <3>1, <3>2, <3>3
  <2>3. CASE n > 259
    <3>0. n \in Int
      BY <1>1
    <3>1. to_rom_index(n) = (n - 260) + 57344
      BY <2>3, <3>0 DEF to_rom_index
    <3>2. LongConstant(n) = (n - 260) + 57344
      BY <2>3, <3>0 DEF LongConstant
    <3>3. (n - 260) + 57344 \in Int /\ 0 <= (n - 260) + 57344 /\ (n - 260) + 57344 <= 65535
      BY <1>1, <2>3
    <3> QED  BY <2>0, <3>1, <3>2, <3>3
  <2> QED  BY <1>1, <2>1, <2>2, <2>3
<1>6. n \in 0 .. 31 => ShortConstant(n) = to_rom_index(n)
  <2>1. CASE n < 3
    BY <1>1, <2>1 DEF to_rom_index, ShortConstant
  <2>2. CASE n \in 3 .. 259
    BY <1>1, <2>2 DEF to_rom_index, ShortConstant
  <2> QED  BY <1>1, <2>1, <2>2
<1>7. Instr("push_constant", to_rom_index(n)) = [op |-> "push_constant", n |-> to_rom_index(n)]
  BY <1>5, Halves
<1>8. n \in Nat
  BY <1>1
<1> QED  BY <1>2, <1>3, <1>4, <1>5, <1>6, <1>7, <1>8, Zenon

\* The operand of an instruction is decoded to what it was.
LEMMA OperandDecodes ==
  ASSUME NEW op \in {"push_constant", "push_stack", "push_global", "set_global", "call", "jump"},
         NEW n \in Nat, OperandInstr(op, n) # <<>>,
         op = "push_constant" => n \in TwelveBits,
         op \in {"push_global", "set_global"} => n <= 15,
         NEW self \in Nat
  PROVE  Decoded(OperandInstr(op, n), self) =
           [op |-> op, n |-> IF op = "push_constant" THEN to_rom_index(n) ELSE n]
<1> DEFINE w == OperandInstr(op, n)
<1>1. CASE op = "push_constant" /\ n <= 31
  <2>1. w = <<n>>
    BY <1>1 DEF OperandInstr, push_constant
  <2>2. w[1] = n /\ n \in 0 .. 31
    BY <1>1, <2>1
  <2> HIDE DEF w
  <2>3. Decoded(w, self) = Instr("push_constant", ShortConstant(Small(n)))
    BY <2>2, DecodedPushConstant, Zenon
  <2>4. Small(n) = n
    BY <2>2 DEF Small
  <2>5. Instr("push_constant", ShortConstant(n)) = [op |-> "push_constant", n |-> to_rom_index(n)]
    BY <1>1, <2>2, ConstantIs
  <2> QED  BY <1>1, <2>3, <2>4, <2>5, Zenon DEF w
<1>2. CASE op = "push_constant" /\ ~(n <= 31)
  <2> DEFINE h == n \div 256
             l == n % 256
  <2>1. w = <<160 + (h % 16), l>>
    BY <1>2 DEF OperandInstr, push_constant
  <2>2. h \in 0 .. 15 /\ h % 16 = h /\ l \in 0 .. 255 /\ h * 256 + l = n
    BY <1>2, ConstantIs, SMTT(30)
  <2> HIDE DEF w, h, l
  <2> DEFINE b == 160 + h
  <2>3. w[1] = b /\ w[2] = l
    BY <2>1, <2>2
  <2>4. b \in 160 .. 175 /\ b \in Nat /\ Low(b) = h
    <3>1. Low(b) = h
      BY <2>2, LowBits
    <3> QED  BY <2>2, <3>1
  <2> HIDE DEF b
  <2>5. Decoded(w, self) = Instr("push_constant", LongConstant(Low(b) * 256 + l))
    <3>1. Decoded(w, self) = Instr("push_constant", LongConstant(Low(b) * 256 + w[2]))
      BY <2>3, <2>4, DecodedPushLong, ZenonT(60)
    <3> QED  BY <2>3, <3>1, Zenon
  <2>6. Instr("push_constant", LongConstant(n)) = [op |-> "push_constant", n |-> to_rom_index(n)]
    BY <1>2, ConstantIs
  <2> QED  BY <1>2, <2>2, <2>4, <2>5, <2>6, ZenonT(30) DEF w
<1>3. CASE op = "push_stack"
  <2>1. n <= 31 /\ w = <<32 + n>>
    BY <1>3 DEF OperandInstr
  <2> DEFINE b == 32 + n
  <2>2. w[1] = b
    BY <2>1
  <2>4. b \in 32 .. 63 /\ b \in Nat /\ Small(b) = n /\ n \in Address
    BY <2>1 DEF Small, Address
  <2> HIDE DEF w, b
  <2>3. Decoded(w, self) = Instr("push_stack", Small(b))
    BY <2>2, <2>4, DecodedPushStack, Zenon
  <2> QED  BY <1>3, <2>3, <2>4, Halves DEF w
<1>4. CASE op \in {"push_global", "set_global", "call", "jump"}
  <2>1. n <= 15
    BY <1>4 DEF OperandInstr
  <2>2. n \in 0 .. 15 /\ n \in Address
    BY <2>1 DEF Address
  <2>3. CASE op = "push_global"
    <3> DEFINE b == 64 + n
    <3>1. w = <<b>>
      BY <2>1, <2>3 DEF OperandInstr
    <3>2. w[1] = b
      BY <3>1
    <3>4. b \in 64 .. 79 /\ b \in Nat
      BY <2>2
    <3>5. Low(b) = n
      BY <2>2, LowBits
    <3> HIDE DEF w, b
    <3>3. Decoded(w, self) = Instr("push_global", Low(b))
      BY <3>2, <3>4, DecodedPushGlobal, Zenon
    <3> QED  BY <2>2, <2>3, <3>5, <3>3, Halves DEF w
  <2>4. CASE op = "set_global"
    <3> DEFINE b == 80 + n
    <3>1. w = <<b>>
      BY <2>1, <2>4 DEF OperandInstr
    <3>2. w[1] = b
      BY <3>1
    <3>4. b \in 80 .. 95 /\ b \in Nat
      BY <2>2
    <3>5. Low(b) = n
      BY <2>2, LowBits
    <3> HIDE DEF w, b
    <3>3. Decoded(w, self) = Instr("set_global", Low(b))
      BY <3>2, <3>4, DecodedSetGlobal, Zenon
    <3> QED  BY <2>2, <2>4, <3>5, <3>3, Halves DEF w
  <2>5. CASE op = "call"
    <3> DEFINE b == 96 + n
    <3>1. w = <<b>>
      BY <2>1, <2>5 DEF OperandInstr
    <3>2. w[1] = b
      BY <3>1
    <3>4. b \in 96 .. 111 /\ b \in Nat
      BY <2>2
    <3>5. Low(b) = n
      BY <2>2, LowBits
    <3> HIDE DEF w, b
    <3>3. Decoded(w, self) = Instr("call", Low(b))
      BY <3>2, <3>4, DecodedCall, Zenon
    <3> QED  BY <2>2, <2>5, <3>5, <3>3, Halves DEF w
  <2>6. CASE op = "jump"
    <3> DEFINE b == 112 + n
    <3>1. w = <<b>>
      BY <2>1, <2>6 DEF OperandInstr
    <3>2. w[1] = b
      BY <3>1
    <3>4. b \in 112 .. 127 /\ b \in Nat
      BY <2>2
    <3>5. Low(b) = n
      BY <2>2, LowBits
    <3> HIDE DEF w, b
    <3>3. Decoded(w, self) = Instr("jump", Low(b))
      BY <3>2, <3>4, DecodedJump, Zenon
    <3> QED  BY <2>2, <2>6, <3>5, <3>3, Halves DEF w
  <2> QED  BY <1>4, <2>3, <2>4, <2>5, <2>6
<1> QED  BY <1>1, <1>2, <1>3, <1>4

-----------------------------------------------------------------------------
(* The choice of a form. *)

NextFormOf(c, lab, frm, i, self) ==
  CHOOSE f \in frm[i] .. 4 :
    /\ Fits(c[i].op, f, lab[c[i].l], self)
    /\ \A g \in frm[i] .. f - 1 : ~Fits(c[i].op, g, lab[c[i].l], self)

\* NextForm is this function of the code, the labels and the forms.
LEMMA NextFormsAre ==
  ASSUME NEW i, NEW self
  PROVE  NextForm(i, self) = NextFormOf(code, label, form, i, self)
BY DEF NextForm, NextFormOf

\* Some alternative always fits, and the ones before it do not.
LEMMA NextFormIs ==
  ASSUME NEW c, NEW lab, NEW frm, NEW i, NEW self, frm[i] \in 1 .. 4
  PROVE  LET f == NextFormOf(c, lab, frm, i, self)
         IN  /\ f \in 1 .. 4 /\ frm[i] <= f
             /\ Fits(c[i].op, f, lab[c[i].l], self)
             /\ \A g \in frm[i] .. f - 1 : ~Fits(c[i].op, g, lab[c[i].l], self)
<1> DEFINE S == {f \in frm[i] .. 4 : Fits(c[i].op, f, lab[c[i].l], self)}
           k == frm[i]
<1>1. k \in 1 .. 4
  OBVIOUS
<1>2. 4 \in S
  <2>1. Fits(c[i].op, 4, lab[c[i].l], self)
    BY DEF Fits
  <2> QED  BY <1>1, <2>1
<1>3. S \subseteq Nat /\ S # {}
  BY <1>1, <1>2
<1>4. PICK f \in S : \A m \in S : f <= m
  <2> HIDE DEF S
  <2> QED  BY <1>3, LeastNumber
<1>5. f \in k .. 4 /\ Fits(c[i].op, f, lab[c[i].l], self)
  OBVIOUS
<1>6. ASSUME NEW g \in k .. f - 1 PROVE ~Fits(c[i].op, g, lab[c[i].l], self)
  <2>1. g \in k .. 4 /\ ~(f <= g)
    BY <1>1, <1>5
  <2>2. g \notin S
    BY <1>4, <2>1
  <2> QED  BY <2>1, <2>2
<1>7. \E x \in k .. 4 : /\ Fits(c[i].op, x, lab[c[i].l], self)
                        /\ \A g \in k .. x - 1 : ~Fits(c[i].op, g, lab[c[i].l], self)
  BY <1>5, <1>6
<1> DEFINE h == NextFormOf(c, lab, frm, i, self)
<1>8. /\ h \in k .. 4 /\ Fits(c[i].op, h, lab[c[i].l], self)
      /\ \A g \in k .. h - 1 : ~Fits(c[i].op, g, lab[c[i].l], self)
  BY <1>7 DEF NextFormOf
<1>9. h \in 1 .. 4 /\ k <= h
  <2> HIDE DEF h, k
  <2> QED  BY <1>1, <1>8
<1> QED  BY <1>8, <1>9

\* A later alternative is not shorter.
LEMMA LengthGrows ==
  ASSUME NEW f \in 1 .. 4, NEW g \in 1 .. 4
  PROVE  /\ Length[f] \in 1 .. 3
         /\ f <= g => Length[f] <= Length[g]
BY DEF Length

-----------------------------------------------------------------------------
(***************************************************************************)
(* The invariant.  The labels stand where they were with the sizes s of    *)
(* the round before; with them every form was chosen, and every earlier    *)
(* form refused for a reason that lasts.                                   *)
(***************************************************************************)
IsBranchOf(c, i) == c[i].kind = "branch"

\* No branch has more room than its form takes.
Within(c, frm, s) == \A i \in 1 .. Len(c) : IsBranchOf(c, i) => s[i] <= Length[frm[i]]

Refusals(c, frm, s) ==
  \A i \in 1 .. Len(c), f \in 1 .. 3 : IsBranchOf(c, i) /\ f < frm[i] => Bad(c, i, f, s)

Chosen(c, frm, s, t) ==
  \A i \in 1 .. Len(c) : IsBranchOf(c, i) =>
    /\ t[i] = Length[frm[i]]
    /\ Fits(c[i].op, frm[i], PlacesOf(c, s)[Target(c, i)], PlacesOf(c, s)[i])

\* The last round went from the sizes s to the sizes t.
Round(c, lab, frm, s, t) ==
  lab = LabelsOf(c, s) /\ Grown(c, s, t) /\ Chosen(c, frm, s, t) /\ Refusals(c, frm, s)

CodeOK == code \in Seq(Item) /\ Len(code) <= MaxItems /\ Unique(code)

Fresh == form \in Seq({1}) /\ size \in Seq({0}) /\ Len(form) = Len(code) /\ Len(size) = Len(code)

SizesOK == form \in [1 .. Len(code) -> 1 .. 4] /\ size \in [1 .. Len(code) -> Nat]

BytesOf(c, lab, frm, t, i) ==
  CASE c[i].kind = "branch"  -> LabelInstr(c[i].op, frm[i], lab[c[i].l], PlacesOf(c, t)[i])
    [] c[i].kind = "operand" -> OperandInstr(c[i].op, c[i].n)
    [] OTHER                 -> <<>>

ImageOf(c, lab, frm, t) == [i \in 1 .. Len(c) |-> [at |-> PlacesOf(c, t)[i], bytes |-> BytesOf(c, lab, frm, t, i)]]

AInv ==
  /\ CodeOK
  /\ pc \in {"build", "sizes", "labels", "produce", "done"}
  /\ pc = "build" => Fresh
  /\ pc # "build" => Led(code) /\ SizesOK
  /\ pc = "sizes" => label = LabelsOf(code, size) /\ Within(code, form, size) /\ Refusals(code, form, size)
  /\ pc \in {"labels", "produce", "done"} => \E s \in [1 .. Len(code) -> Nat] : Round(code, label, form, s, size)
  /\ pc \in {"produce", "done"} => label = LabelsOf(code, size)
  /\ pc = "done" => image = ImageOf(code, label, form, size)

\* The empty code satisfies the invariant.
LEMMA InitAInv == Init => AInv
<1> SUFFICES ASSUME Init PROVE AInv
  OBVIOUS
<1>1. code = <<>> /\ form = <<>> /\ size = <<>> /\ pc = "build"
  BY DEF Init
<1>2. <<>> \in Seq(Item) /\ Len(<<>>) = 0 /\ <<>> \in Seq({1}) /\ <<>> \in Seq({0})
  OBVIOUS
<1>3. CodeOK
  BY <1>1, <1>2, AssemblerAssumption DEF CodeOK, Unique
<1>4. Fresh
  BY <1>1, <1>2 DEF Fresh
<1> QED  BY <1>1, <1>3, <1>4, Zenon DEF AInv

\* The code grows by an item, and by a label only when it has none of that name.
LEMMA ExtendAInv ==
  ASSUME AInv, NEW item \in Item, Extend(item),
         item.kind = "label" => \A i \in 1 .. Len(code) : code[i] # item
  PROVE  AInv'
<1>1. /\ pc = "build" /\ Len(code) < MaxItems /\ code' = Append(code, item)
      /\ form' = Append(form, 1) /\ size' = Append(size, 0) /\ pc' = "build"
  BY DEF Extend
<1>2. CodeOK /\ Fresh
  BY <1>1, Zenon DEF AInv
<1>3. CodeOK'
  <2>1. code \in Seq(Item) /\ Unique(code)
    BY <1>2 DEF CodeOK
  <2> DEFINE c == Append(code, item)
             n == Len(code)
  <2>2. /\ n \in Nat /\ Len(c) = n + 1 /\ c[n + 1] = item
        /\ \A i \in 1 .. n : c[i] = code[i]
        /\ c \in Seq(Item)
    BY <2>1
  <2>3. Len(c) <= MaxItems
    BY <1>1, <2>2, AssemblerAssumption
  <2>4. Unique(c)
    <3> SUFFICES ASSUME NEW i \in 1 .. Len(c), NEW j \in 1 .. Len(c), c[i].kind = "label", c[i] = c[j]
                 PROVE  i = j
      BY DEF Unique
    <3> HIDE DEF c, n
    <3>1. CASE i \in 1 .. n /\ j \in 1 .. n
      BY <2>1, <2>2, <3>1 DEF Unique, n
    <3>2. CASE i = n + 1 /\ j = n + 1
      BY <3>2
    <3>3. CASE i \in 1 .. n /\ j = n + 1
      BY <2>2, <3>3 DEF n
    <3>4. CASE i = n + 1 /\ j \in 1 .. n
      BY <2>2, <3>4 DEF n
    <3> QED  BY <2>2, <3>1, <3>2, <3>3, <3>4
  <2> QED  BY <1>1, <2>2, <2>3, <2>4 DEF CodeOK
<1>4. Fresh'
  <2>1. code \in Seq(Item) /\ form \in Seq({1}) /\ size \in Seq({0}) /\ Len(form) = Len(code) /\ Len(size) = Len(code)
    BY <1>2 DEF CodeOK, Fresh
  <2>2. Append(form, 1) \in Seq({1}) /\ Append(size, 0) \in Seq({0})
    BY <2>1
  <2>3. /\ Len(Append(form, 1)) = Len(form) + 1 /\ Len(Append(size, 0)) = Len(size) + 1
        /\ Len(Append(code, item)) = Len(code) + 1
    BY <2>1
  <2> QED  BY <1>1, <2>1, <2>2, <2>3 DEF Fresh
<1> QED  BY <1>1, <1>3, <1>4, Zenon DEF AInv

\* The code stays well formed while it is built.
LEMMA BuildingAInv == AInv /\ Building => AInv'
<1> SUFFICES ASSUME AInv, Building PROVE AInv'
  OBVIOUS
<1>1. CASE \E l \in Label : asm_label(l)
  <2>1. PICK l \in Label : asm_label(l)
    BY <1>1
  <2>2. LabelItem(l) \in Item
    BY DEF Item
  <2>3. Extend(LabelItem(l)) /\ \A i \in 1 .. Len(code) : code[i] # LabelItem(l)
    BY <2>1 DEF asm_label, Items
  <2> QED  BY <2>2, <2>3, ExtendAInv
<1>2. CASE \E b \in Branches : asm_at_assembly(b[1], b[2])
  <2>1. PICK b \in Branches : asm_at_assembly(b[1], b[2])
    BY <1>2
  <2>2. BranchItem(b[1], b[2]) \in Item
    BY DEF Item
  <2>3. Extend(BranchItem(b[1], b[2]))
    BY <2>1 DEF asm_at_assembly, BranchItem
  <2>4. BranchItem(b[1], b[2]).kind # "label"
    BY DEF BranchItem
  <2> QED  BY <2>2, <2>3, <2>4, ExtendAInv
<1>3. CASE \E o \in Operands : WithOperand(o[1], o[2])
  <2>1. PICK o \in Operands : WithOperand(o[1], o[2])
    BY <1>3
  <2>2. OperandItem(o[1], o[2]) \in Item
    BY <2>1 DEF Item, WithOperand
  <2>3. Extend(OperandItem(o[1], o[2]))
    BY <2>1 DEF WithOperand, OperandItem
  <2>4. OperandItem(o[1], o[2]).kind # "label"
    BY DEF OperandItem
  <2> QED  BY <2>2, <2>3, <2>4, ExtendAInv
<1>4. CASE \E n \in Fill : OtherInstructions(n)
  <2>1. PICK n \in Fill : OtherInstructions(n)
    BY <1>4
  <2>2. BytesItem(n) \in Item
    BY DEF Item
  <2>3. Extend(BytesItem(n))
    BY <2>1 DEF OtherInstructions, BytesItem
  <2>4. BytesItem(n).kind # "label"
    BY DEF BytesItem
  <2> QED  BY <2>2, <2>3, <2>4, ExtendAInv
<1> QED  BY <1>1, <1>2, <1>3, <1>4 DEF Building

\* The first pass: nothing has been refused yet, and no branch has room.
LEMMA Pass1AInv == AInv /\ asm_pass1 => AInv'
<1> SUFFICES ASSUME AInv, asm_pass1 PROVE AInv'
  OBVIOUS
<1>1. /\ pc = "build" /\ label' = LabelsOf(code, size) /\ pc' = "sizes"
      /\ code' = code /\ form' = form /\ size' = size
  BY LabelsAre DEF asm_pass1
<1>2. CodeOK /\ Fresh
  BY <1>1, Zenon DEF AInv
<1>3. Led(code)
  BY DEF asm_pass1, Led, Items, IsBranch
<1>4. form \in [1 .. Len(code) -> {1}] /\ size \in [1 .. Len(code) -> {0}]
  BY <1>2 DEF Fresh, CodeOK
<1>5. \A i \in 1 .. Len(code) : form[i] = 1 /\ size[i] = 0
  BY <1>4
<1>6. SizesOK
  <2>1. 1 \in 1 .. 4 /\ 0 \in Nat
    OBVIOUS
  <2>2. {1} \subseteq 1 .. 4 /\ {0} \subseteq Nat
    BY <2>1
  <2> QED  BY <1>4, <2>2 DEF SizesOK
<1>7. Within(code, form, size)
  <2>1. Length[1] = 1
    BY DEF Length
  <2> QED  BY <1>5, <2>1 DEF Within
<1>8. Refusals(code, form, size)
  BY <1>5 DEF Refusals
<1>9. CodeOK' /\ SizesOK' /\ Led(code)'
  BY <1>1, <1>2, <1>3, <1>6 DEF CodeOK, SizesOK
<1>10. (label = LabelsOf(code, size) /\ Within(code, form, size) /\ Refusals(code, form, size))'
  BY <1>1, <1>7, <1>8
<1> QED  BY <1>1, <1>9, <1>10, Zenon DEF AInv

\* A round of choosing: each form is the first that fits of those not refused yet, where
\* the items stand with the sizes of the round before; and no branch becomes shorter.
LEMMA SizesAInv == AInv /\ Sizes => AInv'
<1> SUFFICES ASSUME AInv, Sizes PROVE AInv'
  OBVIOUS
<1> DEFINE n == Len(code)
           P == PlacesOf(code, size)
           F(i) == NextFormOf(code, label, form, i, P[i])
<1>1. /\ pc = "sizes" /\ pc' = "labels" /\ code' = code /\ label' = label
      /\ form' = [i \in 1 .. n |-> IF IsBranchOf(code, i) THEN F(i) ELSE form[i]]
      /\ size' = [i \in 1 .. n |-> IF IsBranchOf(code, i) THEN Length[form'[i]] ELSE 0]
  BY PlacesAre, NextFormsAre DEF Sizes, Items, IsBranch, IsBranchOf
<1>2. /\ CodeOK /\ Led(code) /\ SizesOK
      /\ label = LabelsOf(code, size) /\ Within(code, form, size) /\ Refusals(code, form, size)
  BY <1>1, Zenon DEF AInv
<1>3. code \in Seq(Item) /\ Unique(code) /\ size \in [1 .. n -> Nat] /\ form \in [1 .. n -> 1 .. 4]
  BY <1>2 DEF CodeOK, SizesOK
<1>4. ASSUME NEW i \in 1 .. n
      PROVE  /\ F(i) \in 1 .. 4 /\ form[i] <= F(i) /\ form[i] \in 1 .. 4
             /\ Fits(code[i].op, F(i), label[code[i].l], P[i])
             /\ \A g \in form[i] .. F(i) - 1 : ~Fits(code[i].op, g, label[code[i].l], P[i])
  <2>1. form[i] \in 1 .. 4
    BY <1>3
  <2> QED  BY <2>1, NextFormIs
<1> HIDE DEF F
<1>5. ASSUME NEW i \in 1 .. n
      PROVE  /\ IsBranchOf(code, i) => form'[i] = F(i) /\ size'[i] = Length[F(i)]
             /\ ~IsBranchOf(code, i) => form'[i] = form[i] /\ size'[i] = 0
  BY <1>1
<1>6. form' \in [1 .. n -> 1 .. 4] /\ size' \in [1 .. n -> Nat]
  <2>1. \A i \in 1 .. n : form'[i] \in 1 .. 4
    BY <1>4, <1>5
  <2>2. ASSUME NEW i \in 1 .. n PROVE size'[i] \in Nat
    <3>1. F(i) \in 1 .. 4
      BY <1>4
    <3>2. Length[F(i)] \in 1 .. 3
      BY <3>1, LengthGrows
    <3> QED  BY <1>5, <3>2
  <2>3. form' = [i \in 1 .. n |-> form'[i]] /\ size' = [i \in 1 .. n |-> size'[i]]
    BY <1>1
  <2> QED  BY <2>1, <2>2, <2>3
<1>7. Grown(code, size, size')
  <2> SUFFICES ASSUME NEW i \in 1 .. n, IsBranchOf(code, i) PROVE size[i] <= size'[i]
    BY DEF Grown, IsBranchOf
  <2>1. size[i] <= Length[form[i]] /\ size[i] \in Nat
    BY <1>2, <1>3 DEF Within
  <2>2. Length[form[i]] <= Length[F(i)] /\ Length[form[i]] \in 1 .. 3 /\ Length[F(i)] \in 1 .. 3
    BY <1>4, LengthGrows
  <2>3. size'[i] = Length[F(i)]
    BY <1>5
  <2> QED  BY <2>1, <2>2, <2>3
<1>8. ASSUME NEW i \in 1 .. n, IsBranchOf(code, i)
      PROVE  label[code[i].l] = P[Target(code, i)]
  <2>1. code[i].kind = "branch"
    BY <1>8 DEF IsBranchOf
  <2>2. LabelsOf(code, size)[code[i].l] = PlacesOf(code, size)[Target(code, i)]
    BY <1>2, <1>3, <2>1, TargetIs
  <2> QED  BY <1>2, <2>2
<1>9. Chosen(code, form', size, size')
  <2> SUFFICES ASSUME NEW i \in 1 .. n, IsBranchOf(code, i)
               PROVE  /\ size'[i] = Length[form'[i]]
                      /\ Fits(code[i].op, form'[i], P[Target(code, i)], P[i])
    BY DEF Chosen
  <2>1. Fits(code[i].op, F(i), label[code[i].l], P[i])
    BY <1>4
  <2>2. form'[i] = F(i) /\ size'[i] = Length[F(i)]
    BY <1>5
  <2>3. label[code[i].l] = P[Target(code, i)]
    BY <1>8
  <2> QED  BY <2>1, <2>2, <2>3, Zenon
<1>10. Refusals(code, form', size)
  <2> SUFFICES ASSUME NEW i \in 1 .. n, NEW f \in 1 .. 3, IsBranchOf(code, i), f < form'[i]
               PROVE  Bad(code, i, f, size)
    BY DEF Refusals
  <2>1. CASE f < form[i]
    BY <1>2, <2>1 DEF Refusals
  <2>2. CASE ~(f < form[i])
    <3>1. form'[i] = F(i)
      BY <1>5
    <3>2. F(i) \in 1 .. 4 /\ form[i] \in 1 .. 4
      BY <1>4
    <3>3. f \in form[i] .. F(i) - 1
      BY <2>2, <3>1, <3>2
    <3>4. ~Fits(code[i].op, f, label[code[i].l], P[i])
      BY <1>4, <3>3
    <3>5. ~Fits(code[i].op, f, P[Target(code, i)], P[i])
      BY <1>8, <3>4
    <3> QED  BY <1>2, <1>3, <3>5, RefusedIsBad DEF IsBranchOf
  <2> QED  BY <2>1, <2>2
<1>11. Round(code, label, form', size, size')
  BY <1>2, <1>7, <1>9, <1>10 DEF Round
<1>12. CodeOK' /\ Led(code)' /\ SizesOK'
  BY <1>1, <1>2, <1>6 DEF CodeOK, SizesOK
<1>13. \E s \in [1 .. Len(code') -> Nat] : Round(code', label', form', s, size')
  BY <1>1, <1>3, <1>11
<1> QED  BY <1>1, <1>12, <1>13, Zenon DEF AInv

\* The labels move to where the new sizes put them; what was refused stays so.
LEMMA LabelsAInv == AInv /\ Labels => AInv'
<1> SUFFICES ASSUME AInv, Labels PROVE AInv'
  OBVIOUS
<1>1. /\ pc = "labels" /\ label' = LabelsOf(code, size) /\ pc' \in {"produce", "sizes"}
      /\ pc' = "produce" => label' = label
      /\ code' = code /\ form' = form /\ size' = size
  BY LabelsAre DEF Labels
<1>2. CodeOK /\ Led(code) /\ SizesOK
  BY <1>1, Zenon DEF AInv
<1>3. PICK s \in [1 .. Len(code) -> Nat] : Round(code, label, form, s, size)
  BY <1>1, Zenon DEF AInv
<1>4. CodeOK' /\ Led(code)' /\ SizesOK'
  BY <1>1, <1>2 DEF CodeOK, SizesOK
<1>5. Within(code, form, size)
  <2> SUFFICES ASSUME NEW i \in 1 .. Len(code), IsBranchOf(code, i) PROVE size[i] <= Length[form[i]]
    BY DEF Within
  <2>1. size[i] = Length[form[i]]
    BY <1>3 DEF Round, Chosen
  <2>2. form[i] \in 1 .. 4
    BY <1>2 DEF SizesOK
  <2>3. Length[form[i]] \in 1 .. 3
    BY <2>2, LengthGrows
  <2> QED  BY <2>1, <2>3
<1>6. Refusals(code, form, size)
  <2> SUFFICES ASSUME NEW i \in 1 .. Len(code), NEW f \in 1 .. 3, IsBranchOf(code, i), f < form[i]
               PROVE  Bad(code, i, f, size)
    BY DEF Refusals
  <2>1. Bad(code, i, f, s)
    BY <1>3 DEF Round, Refusals
  <2>2. Grown(code, s, size)
    BY <1>3 DEF Round
  <2>3. code \in Seq(Item) /\ Unique(code) /\ Led(code) /\ size \in [1 .. Len(code) -> Nat]
    BY <1>2 DEF CodeOK, SizesOK
  <2> QED  BY <2>1, <2>2, <2>3, BadKept DEF IsBranchOf
<1>7. CASE pc' = "sizes"
  <2>1. (label = LabelsOf(code, size) /\ Within(code, form, size) /\ Refusals(code, form, size))'
    BY <1>1, <1>5, <1>6
  <2> QED  BY <1>4, <1>7, <2>1, Zenon DEF AInv
<1>8. CASE pc' = "produce"
  <2>1. \E x \in [1 .. Len(code') -> Nat] : Round(code', label', form', x, size')
    BY <1>1, <1>3, <1>8
  <2>2. label' = LabelsOf(code', size')
    BY <1>1
  <2> QED  BY <1>4, <1>8, <2>1, <2>2, Zenon DEF AInv
<1> QED  BY <1>1, <1>7, <1>8

\* The bytes are produced for the labels and the sizes of the last round.
LEMMA ProduceAInv == AInv /\ Produce => AInv'
<1> SUFFICES ASSUME AInv, Produce PROVE AInv'
  OBVIOUS
<1>1. /\ pc = "produce" /\ pc' = "done" /\ code' = code /\ form' = form /\ size' = size /\ label' = label
      /\ image' = ImageOf(code, label, form, size)
  BY PlacesAre DEF Produce, Items, Bytes, BytesOf, ImageOf
<1>2. CodeOK /\ Led(code) /\ SizesOK /\ label = LabelsOf(code, size)
  BY <1>1, Zenon DEF AInv
<1>3. \E s \in [1 .. Len(code) -> Nat] : Round(code, label, form, s, size)
  BY <1>1, Zenon DEF AInv
<1>4. CodeOK' /\ Led(code)' /\ SizesOK'
  BY <1>1, <1>2 DEF CodeOK, SizesOK
<1>5. \E s \in [1 .. Len(code') -> Nat] : Round(code', label', form', s, size')
  BY <1>1, <1>3
<1>6. label' = LabelsOf(code', size') /\ image' = ImageOf(code', label', form', size')
  BY <1>1, <1>2
<1> QED  BY <1>1, <1>4, <1>5, <1>6, Zenon DEF AInv

\* Every form was chosen in a round whose sizes have only grown since.
THEOREM FormsStay == Spec => []AInv
<1>1. Init => AInv
  BY InitAInv
<1>2. AInv /\ [Next]_vars => AInv'
  <2> SUFFICES ASSUME AInv, [Next]_vars PROVE AInv'
    OBVIOUS
  <2>1. CASE Building
    BY <2>1, BuildingAInv
  <2>2. CASE asm_pass1
    BY <2>2, Pass1AInv
  <2>3. CASE Loops
    BY <2>3, SizesAInv, LabelsAInv, ProduceAInv DEF Loops
  <2>4. CASE UNCHANGED vars
    <3>1. code' = code /\ label' = label /\ form' = form /\ size' = size /\ pc' = pc /\ image' = image
      BY <2>4 DEF vars
    <3>2. CodeOK' = CodeOK /\ Fresh' = Fresh /\ SizesOK' = SizesOK
      BY <3>1 DEF CodeOK, Fresh, SizesOK
    <3> QED  BY <3>1, <3>2 DEF AInv
  <2> QED  BY <2>1, <2>2, <2>3, <2>4 DEF Next
<1> QED  BY <1>1, <1>2, PTL DEF Spec

-----------------------------------------------------------------------------
(* What the invariant says of the code that was produced. *)

\* An item with a label behind it stands where it stood in the last round.
LEMMA BeforeLabel ==
  ASSUME NEW c \in Seq(Item), Unique(c), NEW s \in [1 .. Len(c) -> Nat], NEW t \in [1 .. Len(c) -> Nat],
         Grown(c, s, t), LabelsOf(c, s) = LabelsOf(c, t),
         NEW i \in 1 .. Len(c), NEW j \in 1 .. Len(c), i <= j, c[j].kind = "label"
  PROVE  PlacesOf(c, s)[i] = PlacesOf(c, t)[i]
<1>1. PlacesOf(c, s)[j] = PlacesOf(c, t)[j]
  <2>1. LabelsOf(c, s)[c[j].l] = PlacesOf(c, s)[j] /\ LabelsOf(c, t)[c[j].l] = PlacesOf(c, t)[j]
    BY LabelIs
  <2> QED  BY <2>1
<1>2. PlacesOf(c, s)[j] - PlacesOf(c, s)[i] <= PlacesOf(c, t)[j] - PlacesOf(c, t)[i]
  BY DistanceGrows
<1>3. PlacesOf(c, s)[i] <= PlacesOf(c, t)[i]
  BY PlacesGrow
<1>4. /\ PlacesOf(c, s)[i] \in Nat /\ PlacesOf(c, t)[i] \in Nat
      /\ PlacesOf(c, s)[j] \in Nat /\ PlacesOf(c, t)[j] \in Nat
  BY PlacesIs
<1> QED  BY <1>1, <1>2, <1>3, <1>4

SettledIn(c, i) ==
  \/ \E j \in i .. Len(c) : c[j].kind = "label"
  \/ \A j \in 1 .. i - 1 : IsBranchOf(c, j) => \E k \in j .. i : c[k].kind = "label"

\* So does an item that no branch stands before, back to the last label.
LEMMA SettledStays ==
  ASSUME NEW c \in Seq(Item), Unique(c), NEW s \in [1 .. Len(c) -> Nat], NEW t \in [1 .. Len(c) -> Nat],
         Grown(c, s, t), LabelsOf(c, s) = LabelsOf(c, t),
         NEW i \in 1 .. Len(c), SettledIn(c, i)
  PROVE  PlacesOf(c, s)[i] = PlacesOf(c, t)[i]
<1>1. CASE \E j \in i .. Len(c) : c[j].kind = "label"
  <2>1. PICK j \in i .. Len(c) : c[j].kind = "label"
    BY <1>1
  <2>2. j \in 1 .. Len(c) /\ i <= j
    OBVIOUS
  <2> QED  BY <2>1, <2>2, BeforeLabel
<1>2. CASE \A j \in 1 .. i - 1 : IsBranchOf(c, j) => \E k \in j .. i : c[k].kind = "label"
  <2>1. ASSUME NEW j \in 1 .. i - 1 PROVE RoomOf(c, j, s) = RoomOf(c, j, t)
    <3>0. j \in 1 .. Len(c)
      OBVIOUS
    <3>1. CASE IsBranchOf(c, j)
      <4>1. PICK k \in j .. i : c[k].kind = "label"
        BY <1>2, <3>1
      <4>2. /\ k # j /\ k \in 1 .. Len(c) /\ j + 1 <= k
            /\ j + 1 \in 1 .. Len(c) /\ j + 1 \in 2 .. Len(c) /\ (j + 1) - 1 = j /\ j <= k
        BY <3>1, <4>1 DEF IsBranchOf
      <4>3. PlacesOf(c, s)[j] = PlacesOf(c, t)[j]
        BY <3>0, <4>1, <4>2, BeforeLabel
      <4>4. PlacesOf(c, s)[j + 1] = PlacesOf(c, t)[j + 1]
        BY <4>1, <4>2, BeforeLabel
      <4>5. /\ PlacesOf(c, s)[j + 1] = PlacesOf(c, s)[j] + RoomOf(c, j, s)
            /\ PlacesOf(c, t)[j + 1] = PlacesOf(c, t)[j] + RoomOf(c, j, t)
        BY <4>2, PlacesIs
      <4>6. /\ PlacesOf(c, s)[j] \in Nat /\ PlacesOf(c, t)[j] \in Nat
            /\ RoomOf(c, j, s) \in Nat /\ RoomOf(c, j, t) \in Nat
        BY <3>0, PlacesIs, RoomIs
      <4> DEFINE x == RoomOf(c, j, s)
                 y == RoomOf(c, j, t)
                 a == PlacesOf(c, s)[j]
      <4>7. a + x = a + y /\ a \in Nat /\ x \in Nat /\ y \in Nat
        BY <4>3, <4>4, <4>5, <4>6, Zenon
      <4> HIDE DEF x, y, a
      <4>8. x = y
        BY <4>7
      <4> QED  BY <4>8 DEF x, y
    <3>2. CASE c[j].kind = "label"
      BY <3>2 DEF RoomOf
    <3>3. CASE c[j].kind \notin {"label", "branch"}
      BY <3>0, <3>3, RoomIs
    <3> QED  BY <3>1, <3>2, <3>3 DEF IsBranchOf
  <2> QED  BY <2>1, PlacesSame
<1> QED  BY <1>1, <1>2 DEF SettledIn

\* Every alternative has the length that the sizes are made of.
LEMMA BranchLength ==
  ASSUME NEW op, NEW f \in 1 .. 4, NEW target, NEW self
  PROVE  Len(LabelInstr(op, f, target, self)) = Length[f]
<1>1. CASE f = 1
  BY <1>1 DEF LabelInstr, Length
<1>2. CASE f = 2
  BY <1>2 DEF LabelInstr, Length
<1>3. CASE f = 3
  <2>1. LabelInstr(op, f, target, self) = asm_16(Opcode[op][f] * 256 + Distance(f, target, self))
    BY <1>3 DEF LabelInstr
  <2>2. \A n : Len(asm_16(n)) = 2
    BY DEF asm_16
  <2>3. Length[f] = 2
    BY <1>3 DEF Length
  <2> QED  BY <2>1, <2>2, <2>3, Zenon
<1>4. CASE f = 4
  <2>1. LabelInstr(op, f, target, self) = Long(Opcode[op][4], target)
    BY <1>4, LongForm
  <2>2. \A b, n : Len(Long(b, n)) = 3
    BY DEF Long, asm_16
  <2>3. Length[f] = 3
    BY <1>4 DEF Length
  <2> QED  BY <2>1, <2>2, <2>3, Zenon
<1> QED  BY <1>1, <1>2, <1>3, <1>4

\* An alternative that was refused for good does not fit, but for the one of four bits of
\* a branch with nothing but branches behind it up to its label.
LEMMA BadIsRefused ==
  ASSUME NEW c \in Seq(Item), Unique(c), Led(c), NEW s \in [1 .. Len(c) -> Nat],
         NEW i \in 1 .. Len(c), c[i].kind = "branch", NEW f \in 1 .. 3, Bad(c, i, f, s)
  PROVE  \/ ~Fits(c[i].op, f, PlacesOf(c, s)[Target(c, i)], PlacesOf(c, s)[i])
         \/ f = 1 /\ Between(c, i)
<1> DEFINE d == Distance(f, PlacesOf(c, s)[Target(c, i)], PlacesOf(c, s)[i])
<1>1. f # 4
  OBVIOUS
<1>2. d \in Int /\ Limit[f] \in Int
  <2>1. PlacesOf(c, s)[Target(c, i)] \in Nat /\ PlacesOf(c, s)[i] \in Nat
    BY TargetIs, PlacesIs
  <2>2. PICK k \in Int : \A a, b \in Nat : Distance(f, a, b) = k + (a - b)
    BY DistanceIs
  <2>3. d = k + (PlacesOf(c, s)[Target(c, i)] - PlacesOf(c, s)[i])
    BY <2>1, <2>2
  <2>4. Limit[f] \in Int
    BY DEF Limit
  <2> HIDE DEF d
  <2> QED  BY <2>1, <2>3, <2>4
<1>3. Opcode[c[i].op][f] = 0 \/ d > Limit[f] \/ d < 0 \/ (f = 1 /\ Between(c, i))
  BY DEF Bad
<1>4. CASE d > Limit[f] \/ d < 0
  <2>1. ~(d \in 0 .. Limit[f])
    <3> HIDE DEF d
    <3> QED  BY <1>2, <1>4
  <2> QED  BY <1>1, <2>1 DEF Fits
<1>5. CASE Opcode[c[i].op][f] = 0
  BY <1>1, <1>5 DEF Fits
<1> QED  BY <1>3, <1>4, <1>5

\* What there is in the end.
LEMMA InTheEnd ==
  ASSUME AInv, pc = "done"
  PROVE  /\ code \in Seq(Item) /\ Unique(code) /\ Led(code) /\ Len(code) <= MaxItems
         /\ size \in [1 .. Len(code) -> Nat] /\ form \in [1 .. Len(code) -> 1 .. 4]
         /\ label = LabelsOf(code, size)
         /\ \E s \in [1 .. Len(code) -> Nat] : Round(code, label, form, s, size)
         /\ \A i \in 1 .. Len(code) :
              /\ image[i].at = PlacesOf(code, size)[i] /\ image[i].at \in Nat
              /\ code[i].kind = "branch" =>
                   /\ image[i].bytes = LabelInstr(code[i].op, form[i], label[code[i].l], image[i].at)
                   /\ size[i] = Length[form[i]]
                   /\ label[code[i].l] = image[Target(code, i)].at
              /\ code[i].kind = "operand" => image[i].bytes = OperandInstr(code[i].op, code[i].n)
<1>1. /\ CodeOK /\ Led(code) /\ SizesOK /\ label = LabelsOf(code, size)
      /\ image = ImageOf(code, label, form, size)
      /\ \E s \in [1 .. Len(code) -> Nat] : Round(code, label, form, s, size)
  BY Zenon DEF AInv
<1>2. /\ code \in Seq(Item) /\ Unique(code) /\ Len(code) <= MaxItems
      /\ size \in [1 .. Len(code) -> Nat] /\ form \in [1 .. Len(code) -> 1 .. 4]
  BY <1>1 DEF CodeOK, SizesOK
<1>3. ASSUME NEW i \in 1 .. Len(code)
      PROVE  /\ image[i].at = PlacesOf(code, size)[i] /\ image[i].at \in Nat
             /\ image[i].bytes = BytesOf(code, label, form, size, i)
  <2>1. PlacesOf(code, size)[i] \in Nat
    BY <1>2, PlacesIs
  <2> QED  BY <1>1, <2>1 DEF ImageOf
<1>4. ASSUME NEW i \in 1 .. Len(code), code[i].kind = "branch"
      PROVE  /\ image[i].bytes = LabelInstr(code[i].op, form[i], label[code[i].l], image[i].at)
             /\ size[i] = Length[form[i]]
             /\ label[code[i].l] = image[Target(code, i)].at
  <2>1. image[i].bytes = LabelInstr(code[i].op, form[i], label[code[i].l], image[i].at)
    BY <1>3, <1>4 DEF BytesOf
  <2>2. size[i] = Length[form[i]]
    BY <1>1, <1>4 DEF Round, Chosen, IsBranchOf
  <2>3. /\ Target(code, i) \in 1 .. Len(code)
        /\ LabelsOf(code, size)[code[i].l] = PlacesOf(code, size)[Target(code, i)]
    BY <1>1, <1>2, <1>4, TargetIs
  <2> QED  BY <1>1, <1>3, <2>1, <2>2, <2>3
<1>5. ASSUME NEW i \in 1 .. Len(code), code[i].kind = "operand"
      PROVE  image[i].bytes = OperandInstr(code[i].op, code[i].n)
  BY <1>3, <1>5 DEF BytesOf
<1> QED  BY <1>1, <1>2, <1>3, <1>4, <1>5

\* The operands of the code are decoded, whichever form they have.  (No constant has a
\* number of more than twelve bits, and none of the globals is beyond the fifteenth.)
THEOREM OperandsAreFound ==
  ASSUME \A o \in Operands : /\ o[1] = "push_constant" => o[2] \in TwelveBits
                             /\ o[1] \in {"push_global", "set_global"} => o[2] <= 15
  PROVE  Spec => []OperandsDecode
<1>1. AInv => OperandsDecode
  <2> SUFFICES ASSUME AInv, pc = "done", NEW i \in Items, code[i].kind = "operand"
               PROVE  Decoded(image[i].bytes, image[i].at) =
                        [op |-> code[i].op,
                         n |-> IF code[i].op = "push_constant" THEN to_rom_index(code[i].n) ELSE code[i].n]
    BY DEF OperandsDecode
  <2>1. i \in 1 .. Len(code)
    BY DEF Items
  <2>2. /\ code \in Seq(Item) /\ image[i].bytes = OperandInstr(code[i].op, code[i].n)
        /\ image[i].at \in Nat
    BY <2>1, InTheEnd
  <2> DEFINE op == code[i].op
             n == code[i].n
  <2>3. /\ <<op, n>> \in Operands /\ n \in Nat
        /\ op \in {"push_constant", "push_stack", "push_global", "set_global", "call", "jump"}
        /\ OperandInstr(op, n) # <<>>
    <3>1. code[i] \in Item
      BY <2>1, <2>2
    <3> QED  BY <3>1, ItemIs
  <2>4. /\ op = "push_constant" => n \in TwelveBits
        /\ op \in {"push_global", "set_global"} => n <= 15
    <3>1. <<op, n>>[1] = op /\ <<op, n>>[2] = n
      OBVIOUS
    <3> HIDE DEF op, n
    <3> QED  BY <2>3, <3>1
  <2> HIDE DEF op, n
  <2>5. Decoded(OperandInstr(op, n), image[i].at) =
          [op |-> op, n |-> IF op = "push_constant" THEN to_rom_index(n) ELSE n]
    BY <2>2, <2>3, <2>4, OperandDecodes
  <2> QED  BY <2>2, <2>5 DEF op, n
<1> QED  BY <1>1, FormsStay, PTL

\* No shorter alternative would have done in the end, for any branch, settled or not.
THEOREM SmallestForms == Spec => []NoneShorter
<1>1. AInv => NoneShorter
  <2> SUFFICES ASSUME AInv, pc = "done", NEW i \in Items, NEW f \in 1 .. 3, IsBranch(i),
                      Length[f] < Len(image[i].bytes), ~Refused(i, f),
                      Fits(code[i].op, f, label[code[i].l], image[i].at)
               PROVE  FALSE
    BY DEF NoneShorter
  <2>1. i \in 1 .. Len(code) /\ code[i].kind = "branch"
    BY DEF Items, IsBranch
  <2>2. /\ code \in Seq(Item) /\ Unique(code) /\ Led(code)
        /\ size \in [1 .. Len(code) -> Nat] /\ form \in [1 .. Len(code) -> 1 .. 4]
    BY InTheEnd
  <2>3. PICK s \in [1 .. Len(code) -> Nat] : Round(code, label, form, s, size)
    BY InTheEnd
  <2>4. /\ image[i].bytes = LabelInstr(code[i].op, form[i], label[code[i].l], image[i].at)
        /\ label[code[i].l] = image[Target(code, i)].at
    BY <2>1, InTheEnd
  <2> DEFINE t == Target(code, i)
             P == PlacesOf(code, size)
  <2>5. \A j \in 1 .. Len(code) : image[j].at = P[j] /\ P[j] \in Nat
    BY InTheEnd
  <2>6. t \in 1 .. Len(code)
    BY <2>1, <2>2, TargetIs
  <2>7. f < form[i]
    <3>1. form[i] \in 1 .. 4
      BY <2>1, <2>2
    <3>2. Length[f] < Length[form[i]]
      BY <2>4, <3>1, BranchLength
    <3>3. form[i] <= f => Length[form[i]] <= Length[f]
      BY <3>1, LengthGrows
    <3>4. Length[f] \in 1 .. 3 /\ Length[form[i]] \in 1 .. 3
      BY <3>1, LengthGrows
    <3> QED  BY <3>1, <3>2, <3>3, <3>4
  <2>8. Bad(code, i, f, size)
    <3>1. Bad(code, i, f, s) /\ Grown(code, s, size)
      BY <2>1, <2>3, <2>7 DEF Round, Refusals, IsBranchOf
    <3> QED  BY <2>1, <2>2, <3>1, BadKept
  <2>9. f = 1 /\ Between(code, i)
    <3>1. Fits(code[i].op, f, P[t], P[i])
      BY <2>1, <2>4, <2>5, <2>6
    <3> QED  BY <2>1, <2>2, <2>8, <3>1, BadIsRefused
  <2>10. ASSUME NEW j \in i + 1 .. Len(code), label[code[i].l] > image[j].at
         PROVE  IsBranch(j) \/ IsLabel(j)
    <3>1. j \in 1 .. Len(code) /\ i \in Nat /\ t \in Nat
      BY <2>1, <2>6
    <3>2. P[t] > P[j]
      BY <2>4, <2>5, <2>6, <2>10, <3>1
    <3>3. ~(t <= j)
      <4>1. t <= j => P[t] <= P[j]
        <5>1. Grown(code, size, size)
          <6>1. \A k \in 1 .. Len(code) : size[k] \in Nat
            BY <2>2
          <6> QED  BY <6>1 DEF Grown
        <5> QED  BY <2>2, <2>6, <3>1, <5>1, DistanceGrows
      <4>2. P[t] \in Nat /\ P[j] \in Nat
        BY <2>5, <2>6, <3>1
      <4> QED  BY <3>2, <4>1, <4>2
    <3>4. j \in i + 1 .. t - 1
      BY <3>1, <3>3
    <3>5. code[j].kind \in {"branch", "label"}
      BY <2>9, <3>4 DEF Between
    <3> QED  BY <3>5 DEF IsBranch, IsLabel
  <2> QED  BY <2>9, <2>10 DEF Refused
<1> QED  BY <1>1, FormsStay, PTL

\* Every branch leads to its label, in code that ends within the addresses of sixteen bits.
\* (No stretch of other instructions is longer than most.)
THEOREM BranchesLead ==
  ASSUME NEW most \in Nat, most >= 3, \A n \in Fill : n <= most,
         asm_start_pos + MaxItems * most \in Address
  PROVE  Spec => []BranchesReach
<1>1. AInv => BranchesReach
  <2> SUFFICES ASSUME AInv, pc = "done", NEW i \in Items, IsBranch(i), Settled(i)
               PROVE  Reaches(i)
    BY DEF BranchesReach
  <2>1. i \in 1 .. Len(code) /\ code[i].kind = "branch"
    BY DEF Items, IsBranch
  <2>2. /\ code \in Seq(Item) /\ Unique(code) /\ Led(code) /\ Len(code) <= MaxItems
        /\ size \in [1 .. Len(code) -> Nat] /\ form \in [1 .. Len(code) -> 1 .. 4]
        /\ label = LabelsOf(code, size)
    BY InTheEnd
  <2>3. PICK s \in [1 .. Len(code) -> Nat] : Round(code, label, form, s, size)
    BY InTheEnd
  <2>4. /\ image[i].bytes = LabelInstr(code[i].op, form[i], label[code[i].l], image[i].at)
        /\ label[code[i].l] = image[Target(code, i)].at
    BY <2>1, InTheEnd
  <2> DEFINE t == Target(code, i)
             P == PlacesOf(code, size)
             Q == PlacesOf(code, s)
  <2>5. \A j \in 1 .. Len(code) : image[j].at = P[j] /\ P[j] \in Nat
    BY InTheEnd
  <2>6. t \in 1 .. Len(code) /\ LabelsOf(code, s)[code[i].l] = Q[t]
    BY <2>1, <2>2, TargetIs
  <2>7. Q[t] = P[t] /\ Q[i] = P[i]
    <3>1. LabelsOf(code, s) = LabelsOf(code, size) /\ Grown(code, s, size)
      BY <2>2, <2>3 DEF Round
    <3>2. SettledIn(code, i)
      BY DEF Settled, SettledIn, IsLabel, IsBranch, IsBranchOf
    <3>3. Q[i] = P[i]
      BY <2>1, <2>2, <3>1, <3>2, SettledStays
    <3>4. Q[t] = P[t]
      BY <2>4, <2>5, <2>6, <3>1, <2>2
    <3> QED  BY <3>3, <3>4
  <2>8. Fits(code[i].op, form[i], P[t], P[i])
    <3>1. Fits(code[i].op, form[i], Q[t], Q[i])
      BY <2>1, <2>3 DEF Round, Chosen, IsBranchOf
    <3> QED  BY <2>7, <3>1
  <2>9. P[t] \in Address
    <3>1. ASSUME NEW k \in 1 .. Len(code) PROVE RoomOf(code, k, size) <= most
      <4>1. RoomOf(code, k, size) \in Nat
        BY <2>2, RoomIs
      <4>2. CASE code[k].kind = "label"
        BY <2>2, <4>2, RoomIs, SMTT(30)
      <4>3. CASE code[k].kind = "branch"
        <5>1. size[k] = Length[form[k]]
          BY <4>3, InTheEnd
        <5>2. form[k] \in 1 .. 4
          BY <2>2
        <5>3. Length[form[k]] \in 1 .. 3
          BY <5>2, LengthGrows
        <5>4. RoomOf(code, k, size) = size[k]
          BY <2>2, <4>3, RoomIs
        <5> QED  BY <5>1, <5>3, <5>4
      <4>4. CASE code[k].kind \notin {"label", "branch"}
        <5>1. RoomOf(code, k, size) \in 1 .. 2 \/ RoomOf(code, k, size) \in Fill
          BY <2>2, <4>4, RoomIs
        <5> QED  BY <5>1
      <4> QED  BY <4>2, <4>3, <4>4
    <3>2. P[t] <= asm_start_pos + (t - 1) * most
      BY <2>2, <2>6, <3>1, PlacesBounded
    <3>3. (t - 1) * most <= MaxItems * most
      <4>1. t - 1 \in Nat /\ MaxItems \in Nat /\ t - 1 <= MaxItems
        BY <2>2, <2>6, AssemblerAssumption
      <4>2. PICK k \in Nat : MaxItems = (t - 1) + k
        <5> DEFINE k == MaxItems - (t - 1)
        <5>1. k \in Nat /\ MaxItems = (t - 1) + k
          BY <4>1
        <5> HIDE DEF k
        <5> QED  BY <5>1
      <4> DEFINE m == t - 1
      <4>3. (m + k) * most = m * most + k * most /\ k * most \in Nat /\ m * most \in Nat /\ m \in Nat
        <5>1. m \in Nat
          BY <4>1
        <5> HIDE DEF m
        <5> QED  BY <5>1
      <4> HIDE DEF m
      <4>4. MaxItems = m + k
        BY <4>2 DEF m
      <4>5. m * most <= MaxItems * most
        BY <4>3, <4>4
      <4> QED  BY <4>5 DEF m
    <3>4. /\ P[t] \in Nat /\ (t - 1) * most \in Int /\ MaxItems * most \in Nat /\ asm_start_pos \in Nat
      <4>1. P[t] \in Nat
        BY <2>5, <2>6
      <4>2. t - 1 \in Int
        BY <2>6
      <4> QED  BY <4>1, <4>2, AssemblerAssumption
    <3>5. P[t] <= asm_start_pos + MaxItems * most
      <4> HIDE DEF P, t
      <4> QED  BY <3>2, <3>3, <3>4
    <3>6. \A a \in Nat, b \in Address : a <= b => a \in Address
      BY DEF Address
    <3> QED  BY <3>4, <3>5, <3>6
  <2>10. code[i].op \in DOMAIN Opcode
    <3>1. code[i] \in Item
      BY <2>1, <2>2
    <3> QED  BY <2>1, <3>1, ItemIs
  <2>11. form[i] \in 1 .. 4 /\ P[i] \in Nat
    BY <2>1, <2>2, <2>5
  <2>12. Decoded(LabelInstr(code[i].op, form[i], P[t], P[i]), P[i]) = [op |-> code[i].op, n |-> P[t]]
    BY <2>8, <2>9, <2>10, <2>11, BranchDecodes
  <2>13. image[i].at = P[i] /\ image[t].at = P[t]
    BY <2>1, <2>5, <2>6
  <2>14. Decoded(image[i].bytes, image[i].at) = [op |-> code[i].op, n |-> image[t].at]
    BY <2>4, <2>12, <2>13
  <2> QED  BY <2>14 DEF Reaches, Target, Idx, Items
<1> QED  BY <1>1, FormsStay, PTL
=============================================================================
