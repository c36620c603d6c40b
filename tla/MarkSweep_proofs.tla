-------------------------- MODULE MarkSweep_proofs --------------------------
(***************************************************************************)
(* Proofs about the collector of MarkSweep, for every heap size, number of *)
(* globals and registers, and every content of the heap.                   *)
(***************************************************************************)
EXTENDS MarkSweep, SequenceTheorems, TLAPS

(***************************************************************************)
(* Facts about reachability.                                               *)
(***************************************************************************)

\* A root is reachable.
LEMMA RootReachable ==
  ASSUME NEW roots, NEW t, NEW l, NEW r, NEW c \in roots \cap Cell
  PROVE  c \in Reachable(roots, t, l, r)
BY DEF Reachable

\* What a reachable cell links to is reachable.
LEMMA LinkReachable ==
  ASSUME NEW roots, NEW t, NEW l, NEW r,
         NEW c \in Reachable(roots, t, l, r), NEW d \in LinksOf(c, t, l, r)
  PROVE  d \in Reachable(roots, t, l, r)
<1>1. d \in Cell
  BY DEF LinksOf
<1>2. ASSUME NEW S \in SUBSET Cell, roots \cap Cell \subseteq S, Closed(S, t, l, r)
      PROVE  d \in S
  <2>1. c \in S
    BY <1>2 DEF Reachable
  <2>2. QED
    BY <1>2, <2>1 DEF Closed
<1>3. QED
  BY <1>1, <1>2 DEF Reachable

\* A closed set of cells that holds the roots holds every reachable cell.
LEMMA ReachableLeast ==
  ASSUME NEW roots, NEW t, NEW l, NEW r, NEW S \in SUBSET Cell,
         roots \cap Cell \subseteq S, Closed(S, t, l, r)
  PROVE  Reachable(roots, t, l, r) \subseteq S
BY DEF Reachable

\* More roots reach more cells.
LEMMA ReachableMonotone ==
  ASSUME NEW roots, NEW more, NEW t, NEW l, NEW r, roots \subseteq more
  PROVE  Reachable(roots, t, l, r) \subseteq Reachable(more, t, l, r)
BY DEF Reachable

-----------------------------------------------------------------------------
(***************************************************************************)
(* Type correctness.                                                       *)
(***************************************************************************)
MarkInv == TypeOK /\ LinksRecoverable /\ NoUnmarkedChild /\ MarksReachable

\* The path is not empty below a cell that mm_mark() can go back to, and
\* dropping its last cell leaves a path.
LEMMA PathTop ==
  ASSUME TypeOK, LinksRecoverable, Marking, prev \in Cell
  PROVE  /\ Len(path) \in Nat \ {0}
         /\ prev = path[Len(path)]
         /\ SubSeq(path, 1, Len(path) - 1) \in Seq(Cell)
<1>1. path # <<>> /\ prev = path[Len(path)]
  BY NilAssumption DEF LinksRecoverable, WayBack
<1>2. QED
  BY <1>1 DEF TypeOK

LEMMA NRootsNat == NRoots \in Nat
BY ReservedAssumption, NRegsAssumption DEF NRoots

LEMMA TypeInit == Init => TypeOK
<1>1. SUFFICES ASSUME Init PROVE TypeOK
  OBVIOUS
<1>2. QED
  BY <1>1, NRootsNat, HeapEndAssumption, ReservedAssumption DEF Init, TypeOK, heap, PC, Value, Cell

LEMMA TypeStep == TypeOK /\ LinksRecoverable /\ [Next]_vars => TypeOK'
<1> SUFFICES ASSUME TypeOK, LinksRecoverable, [Next]_vars
             PROVE  TypeOK'
  OBVIOUS
<1> USE DEF TypeOK, PC
<1>1. CASE TakeRoot
  <2>1. CASE root < NRoots
    <3>1. root + 1 \in 0 .. NRoots
      BY <2>1, NRootsNat
    <3>2. Root(root + 1) \in Value
      BY <2>1, NRegsAssumption, ReservedAssumption, HeapEndAssumption DEF Root, NRoots, Value, Cell
    <3>3. QED
      BY <1>1, <2>1, <3>1, <3>2 DEF TakeRoot, Value
  <2>2. CASE ~(root < NRoots)
    BY <1>1, <2>2, ReservedAssumption, HeapEndAssumption DEF TakeRoot, Value
  <2>3. QED
    BY <2>1, <2>2
<1>2. CASE GoDown
  <2>1. CASE HasLeftLink(current)
    <3>1. path' \in Seq(Cell)
      <4>1. current \in Cell /\ path' = Append(path, current)
        BY <1>2, <2>1 DEF GoDown
      <4>2. QED
        BY <4>1, AppendProperties
    <3>2. car' \in [Cell -> Value] /\ prev' \in Value /\ current' \in Value
      BY <1>2, <2>1 DEF GoDown, Value
    <3>3. QED
      BY <1>2, <2>1, <3>1, <3>2 DEF GoDown
  <2>2. CASE ~HasLeftLink(current)
    BY <1>2, <2>2 DEF GoDown, Value
  <2>3. QED
    BY <2>1, <2>2
<1>3. CASE LeftCompleted
  BY <1>3 DEF LeftCompleted, memory, marker
<1>4. CASE ReturnFromRight
  BY <1>4, PathTop DEF ReturnFromRight, Marking, Value
<1>5. CASE MarkCompleted
  BY <1>5 DEF MarkCompleted, memory, marker
<1>6. CASE TurnRight
  BY <1>6 DEF TurnRight
<1>7. CASE ReturnFromLeft
  BY <1>7, PathTop DEF ReturnFromLeft, Marking, Value
<1>8. CASE ReturnedFromLeft
  BY <1>8 DEF ReturnedFromLeft, memory, marker
<1>9. CASE SweepMarked /\ SweepNext
  BY <1>9, ReservedAssumption, HeapEndAssumption DEF SweepMarked, SweepNext, marker
<1>10. CASE SweepUnmarked /\ SweepNext
  <2>1. p \in Cell
    BY <1>10, ReservedAssumption, HeapEndAssumption DEF SweepUnmarked, Cell
  <2>2. QED
    BY <1>10, <2>1, ReservedAssumption, HeapEndAssumption
    DEF SweepUnmarked, SweepNext, marker, Value, Type, HasLeftLinkTypes, HasRightLinkTypes
<1>11. CASE SweepGlobals
  BY <1>11, ReservedAssumption, HeapEndAssumption DEF SweepGlobals, marker
<1>12. CASE UNCHANGED vars
  BY <1>12 DEF vars
<1>13. QED
  BY <1>1, <1>2, <1>3, <1>4, <1>5, <1>6, <1>7, <1>8, <1>9, <1>10, <1>11, <1>12
  DEF Next, Mark, Sweep

-----------------------------------------------------------------------------
(***************************************************************************)
(* Reversed links.                                                         *)
(***************************************************************************)

\* The cells of a sequence.
InSeq(s) == {s[i] : i \in 1 .. Len(s)}

LEMMA Pushed ==
  ASSUME NEW s \in Seq(Cell), NEW x \in Cell, NEW t, t = Append(s, x)
  PROVE  /\ t \in Seq(Cell) /\ t # <<>> /\ Len(t) = Len(s) + 1 /\ Len(s) \in Nat
         /\ \A i \in 1 .. Len(s) : t[i] = s[i]
         /\ t[Len(t)] = x
         /\ InSeq(t) = InSeq(s) \cup {x}
<1>1. /\ t \in Seq(Cell) /\ t # <<>> /\ Len(t) = Len(s) + 1 /\ Len(s) \in Nat
      /\ \A i \in 1 .. Len(s) : t[i] = s[i]
      /\ t[Len(t)] = x
  BY AppendProperties
<1>2. 1 .. Len(t) = (1 .. Len(s)) \cup {Len(t)}
  BY <1>1
<1>3. InSeq(t) = InSeq(s) \cup {x}
  BY <1>1, <1>2 DEF InSeq
<1>4. QED
  BY <1>1, <1>3

LEMMA Prefix ==
  ASSUME NEW s \in Seq(Cell), NEW k \in Nat, k < Len(s), NEW t, t = SubSeq(s, 1, k)
  PROVE  t \in Seq(Cell) /\ Len(t) = k /\ \A i \in 1 .. k : t[i] = s[i]
OBVIOUS

LEMMA Popped ==
  ASSUME NEW s \in Seq(Cell), s # <<>>, NEW t, t = SubSeq(s, 1, Len(s) - 1),
         \A i, j \in 1 .. Len(s) : s[i] = s[j] => i = j
  PROVE  /\ t \in Seq(Cell) /\ Len(t) = Len(s) - 1 /\ Len(s) \in Nat \ {0}
         /\ \A i \in 1 .. Len(t) : t[i] = s[i]
         /\ s[Len(s)] \in InSeq(s)
         /\ InSeq(t) = InSeq(s) \ {s[Len(s)]}
<1>1. /\ t \in Seq(Cell) /\ Len(t) = Len(s) - 1 /\ Len(s) \in Nat \ {0}
      /\ \A i \in 1 .. Len(t) : t[i] = s[i]
  <2>1. Len(s) \in Nat \ {0} /\ \A i \in 1 .. Len(s) : s[i] \in Cell
    BY EmptySeq
  <2>2. PICK k \in Nat : k = Len(s) - 1
    BY <2>1
  <2>3. QED
    BY <2>1, <2>2, Prefix
<1>2. 1 .. Len(t) = (1 .. Len(s)) \ {Len(s)}
  BY <1>1
<1>3. s[Len(s)] \in InSeq(s) /\ InSeq(t) = InSeq(s) \ {s[Len(s)]}
  BY <1>1, <1>2 DEF InSeq
<1>4. QED
  BY <1>1, <1>3

\* The parts of LinksRecoverable that do not mention pc.
Links ==
  /\ type = heap0.type
  /\ WayBack
  /\ \A i \in 1 .. Len(path) : Reversed(path[i], Below(i), Above(i))
  /\ \A c \in Cell \ OnPath : Untouched(c)

LEMMA LinksInit == Init => LinksRecoverable
BY DEF Init, LinksRecoverable, heap, OnPath, WayBack, Untouched

\* A step that moves only pc, root and the registers of the sweep keeps them.
LEMMA LinksUnchanged ==
  ASSUME Links, UNCHANGED <<type, car, cdr, flip, current, prev, path, heap0>>
  PROVE  Links'
BY DEF Links, WayBack, Reversed, Untouched, OnPath, Below, Above, HasLeftLink, HasRightLink

\* Going down a left link adds the cell that was reached to the path.
LEMMA LinksGoDown ==
  ASSUME TypeOK, Links, OnPath \subseteq mark, pc = "down", GoDown
  PROVE  Links'
<1>1. CASE ~HasLeftLink(current)
  BY <1>1, LinksUnchanged DEF GoDown
<1>2. CASE HasLeftLink(current)
  <2>1. /\ current \in Cell /\ current \notin OnPath
        /\ car' = [car EXCEPT ![current] = prev]
        /\ prev' = current /\ current' = car[current]
        /\ UNCHANGED <<type, cdr, flip, heap0>>
    BY <1>2 DEF GoDown
  <2>2. /\ path \in Seq(Cell) /\ Len(path) \in Nat
        /\ Len(path') = Len(path) + 1 /\ path' # <<>>
        /\ \A i \in 1 .. Len(path) : path'[i] = path[i] /\ path[i] \in OnPath
        /\ path'[Len(path')] = current
        /\ OnPath' = OnPath \cup {current}
    <3>1. path \in Seq(Cell) /\ path' = Append(path, current)
      BY <1>2 DEF GoDown, TypeOK
    <3>2. OnPath = InSeq(path) /\ OnPath' = InSeq(path')
      BY DEF OnPath, InSeq
    <3>3. \A i \in 1 .. Len(path) : path[i] \in OnPath
      BY DEF OnPath
    <3>4. path' # <<>> /\ Len(path') = Len(path) + 1 /\ Len(path) \in Nat
      BY <2>1, <3>1, Pushed
    <3>5. \A i \in 1 .. Len(path) : path'[i] = path[i]
      BY <2>1, <3>1, Pushed
    <3>6. path'[Len(path')] = current
      BY <2>1, <3>1, Pushed
    <3>7. InSeq(path') = InSeq(path) \cup {current}
      BY <2>1, <3>1, Pushed
    <3>8. QED
      BY <3>1, <3>2, <3>3, <3>4, <3>5, <3>6, <3>7
  <2>3. WayBack'
    BY <2>1, <2>2 DEF Links, WayBack
  <2>4. ASSUME NEW i \in 1 .. Len(path')
        PROVE  Reversed(path[i], Below(i), Above(i))'
    <3>1. CASE i = Len(path) + 1
      <4>1. Below(i)' = prev
        BY <2>1, <2>2, <3>1 DEF Links, WayBack, Below
      <4>2. Above(i)' = car[current]
        BY <2>1, <2>2, <3>1 DEF Above
      <4>3. Untouched(current)
        BY <2>1 DEF Links
      <4>4. path'[i] = current
        BY <2>2, <3>1
      <4>5. QED
        BY <1>2, <2>1, <4>1, <4>2, <4>3, <4>4 DEF Reversed, Untouched, HasLeftLink, TypeOK
    <3>2. CASE i \in 1 .. Len(path)
      <4>1. path'[i] = path[i] /\ path[i] # current /\ path[i] \in Cell
        BY <2>1, <2>2, <3>2
      <4>2. Below(i)' = Below(i)
        BY <2>2, <3>2 DEF Below
      <4>5. Above(i)' = Above(i)
        BY <2>1, <2>2, <3>2 DEF Above
      <4>3. Reversed(path[i], Below(i), Above(i))
        BY <3>2 DEF Links
      <4>6. QED
        BY <2>1, <4>1, <4>2, <4>5, <4>3 DEF Reversed, HasLeftLink, HasRightLink, TypeOK
    <3>3. QED
      BY <2>2, <3>1, <3>2
  <2>5. ASSUME NEW c \in Cell \ OnPath'
        PROVE  Untouched(c)'
    BY <2>1, <2>2 DEF Links, Untouched, TypeOK
  <2>6. QED
    BY <2>1, <2>3, <2>4, <2>5 DEF Links
<1>3. QED
  BY <1>1, <1>2

\* The left link of the last cell is put back and its right link reversed.
LEMMA LinksTurnRight ==
  ASSUME TypeOK, Links, TurnRight
  PROVE  Links'
<1>1. /\ prev \in Cell /\ prev \notin flip /\ HasRightLink(prev)
      /\ car' = [car EXCEPT ![prev] = current]
      /\ cdr' = [cdr EXCEPT ![prev] = car[prev]]
      /\ flip' = flip \cup {prev}
      /\ current' = cdr[prev]
      /\ UNCHANGED <<type, prev, path, heap0>>
  BY DEF TurnRight
<1>2. path # <<>> /\ prev = path[Len(path)] /\ Len(path) \in Nat \ {0}
  BY <1>1, NilAssumption, EmptySeq DEF Links, WayBack, TypeOK
<1>3. /\ HasLeftLink(prev)
      /\ car[prev] = Below(Len(path)) /\ heap0.car[prev] = current
      /\ cdr[prev] = heap0.cdr[prev]
  BY <1>1, <1>2 DEF Links, Reversed, Above
<1>4. WayBack' /\ OnPath' = OnPath
  BY <1>1 DEF Links, WayBack, OnPath
<1>5. ASSUME NEW i \in 1 .. Len(path')
      PROVE  Reversed(path[i], Below(i), Above(i))'
  <2>1. Below(i)' = Below(i)
    BY <1>1 DEF Below
  <2>2. CASE i = Len(path)
    <3>1. Above(i)' = cdr[prev]
      BY <1>1, <2>2 DEF Above
    <3>2. path'[i] = prev
      BY <1>1, <1>2, <2>2
    <3>3. QED
      BY <1>1, <1>3, <2>1, <2>2, <3>1, <3>2
      DEF Reversed, HasLeftLink, HasRightLink, TypeOK
  <2>3. CASE i # Len(path)
    <3>1. Above(i)' = Above(i)
      BY <1>1, <2>3 DEF Above
    <3>2. i \in 1 .. Len(path) /\ path'[i] = path[i]
      BY <1>1
    <3>3. path[i] # prev /\ path[i] \in Cell
      BY <1>2, <2>3, <3>2 DEF Links, WayBack, TypeOK
    <3>4. Reversed(path[i], Below(i), Above(i))
      BY <3>2 DEF Links
    <3>5. QED
      BY <1>1, <2>1, <3>1, <3>2, <3>3, <3>4 DEF Reversed, HasLeftLink, HasRightLink, TypeOK
  <2>4. QED
    BY <2>2, <2>3
<1>6. ASSUME NEW c \in Cell \ OnPath'
      PROVE  Untouched(c)'
  <2>1. prev \in OnPath
    BY <1>2 DEF OnPath
  <2>2. QED
    BY <1>1, <1>4, <1>6, <2>1 DEF Links, Untouched, TypeOK
<1>7. (type = heap0.type)'
  BY <1>1 DEF Links
<1>8. QED
  BY <1>4, <1>5, <1>6, <1>7 DEF Links

\* Coming back up restores the links of the last cell and drops it.
LEMMA LinksGoUp ==
  ASSUME TypeOK, Links, prev \in Cell,
         path' = SubSeq(path, 1, Len(path) - 1),
         current' = prev, prev' = Below(Len(path)),
         prev \notin flip', car'[prev] = heap0.car[prev], cdr'[prev] = heap0.cdr[prev],
         \A c \in Cell \ {prev} :
            (c \in flip' <=> c \in flip) /\ car'[c] = car[c] /\ cdr'[c] = cdr[c],
         UNCHANGED <<type, heap0>>
  PROVE  Links'
<1>1. /\ path \in Seq(Cell) /\ path # <<>> /\ prev = path[Len(path)]
      /\ \A i, j \in 1 .. Len(path) : path[i] = path[j] => i = j
  BY NilAssumption DEF Links, WayBack, TypeOK
<1>2. path' \in Seq(Cell) /\ Len(path') = Len(path) - 1 /\ Len(path) \in Nat \ {0}
  BY <1>1, Popped
<1>3. \A i \in 1 .. Len(path') : path'[i] = path[i]
  BY <1>1, Popped
<1>4. InSeq(path') = InSeq(path) \ {prev}
  BY <1>1, Popped
<1>5. OnPath' = OnPath \ {prev}
  BY <1>4 DEF OnPath, InSeq
<1>6. WayBack'
  <2>1. CASE Len(path) = 1
    <3>1. path' = <<>>
      BY <1>2, <2>1, EmptySeq
    <3>2. QED
      BY <1>2, <2>1, <3>1 DEF WayBack, Below
  <2>2. CASE Len(path) # 1
    <3>1. path' # <<>> /\ Len(path') \in 1 .. Len(path')
      <4>1. Len(path') # 0 /\ Len(path') \in Nat
        BY <1>2, <2>2
      <4>2. Len(<<>>) = 0
        BY EmptySeq
      <4>3. path' # <<>>
        BY <4>1, <4>2, Zenon
      <4>4. QED
        BY <4>1, <4>3
    <3>2. prev' = path'[Len(path')]
      <4>1. prev' = path[Len(path) - 1]
        BY <2>2 DEF Below
      <4>2. path'[Len(path')] = path[Len(path')]
        BY <1>3, <3>1
      <4>3. QED
        BY <1>2, <4>1, <4>2
    <3>3. \A i, j \in 1 .. Len(path') : path'[i] = path'[j] => i = j
      BY <1>1, <1>2, <1>3
    <3>4. QED
      BY <3>1, <3>2, <3>3 DEF WayBack
  <2>3. QED
    BY <2>1, <2>2
<1>7. ASSUME NEW i \in 1 .. Len(path')
      PROVE  Reversed(path[i], Below(i), Above(i))'
  <2>1. i \in 1 .. Len(path) /\ i # Len(path) /\ path'[i] = path[i]
    BY <1>2, <1>3
  <2>2. path[i] # prev /\ path[i] \in Cell
    BY <1>1, <1>2, <2>1
  <2>3. Below(i)' = Below(i)
    BY <1>2, <1>3, <2>1 DEF Below
  <2>4. Above(i)' = Above(i)
    <3>1. CASE i = Len(path')
      <4>1. Above(i)' = prev /\ i + 1 = Len(path)
        BY <1>2, <3>1 DEF Above
      <4>2. QED
        BY <1>1, <2>1, <4>1 DEF Above
    <3>2. CASE i # Len(path')
      BY <1>2, <1>3, <2>1, <3>2 DEF Above
    <3>3. QED
      BY <3>1, <3>2
  <2>5. Reversed(path[i], Below(i), Above(i))
    BY <2>1 DEF Links
  <2>6. QED
    BY <2>1, <2>2, <2>3, <2>4, <2>5 DEF Reversed, HasLeftLink, HasRightLink
<1>8. ASSUME NEW c \in Cell \ OnPath'
      PROVE  Untouched(c)'
  <2>1. CASE c = prev
    BY <2>1 DEF Untouched
  <2>2. CASE c # prev
    <3>1. c \in Cell \ OnPath
      BY <1>5, <1>8, <2>2
    <3>2. Untouched(c)
      BY <3>1 DEF Links
    <3>3. QED
      BY <2>2, <3>2 DEF Untouched
  <2>3. QED
    BY <2>1, <2>2
<1>9. type' = heap0'.type
  BY DEF Links
<1>10. QED
  BY <1>6, <1>7, <1>8, <1>9 DEF Links

LEMMA LinksReturnFromRight ==
  ASSUME TypeOK, Links, ReturnFromRight
  PROVE  Links'
<1>1. /\ prev \in Cell /\ prev \in flip
      /\ cdr' = [cdr EXCEPT ![prev] = current]
      /\ flip' = flip \ {prev}
      /\ path' = SubSeq(path, 1, Len(path) - 1)
      /\ current' = prev /\ prev' = cdr[prev]
      /\ UNCHANGED <<type, car, heap0>>
  BY DEF ReturnFromRight
<1>2. prev = path[Len(path)] /\ Len(path) \in Nat \ {0}
  BY <1>1, NilAssumption, EmptySeq DEF Links, WayBack, TypeOK
<1>3. /\ car[prev] = heap0.car[prev]
      /\ cdr[prev] = Below(Len(path)) /\ heap0.cdr[prev] = current
  BY <1>1, <1>2 DEF Links, Reversed, Above
<1>4. prev \notin flip' /\ car'[prev] = heap0.car[prev] /\ cdr'[prev] = heap0.cdr[prev]
  BY <1>1, <1>3 DEF TypeOK
<1>5. \A c \in Cell \ {prev} :
         (c \in flip' <=> c \in flip) /\ car'[c] = car[c] /\ cdr'[c] = cdr[c]
  BY <1>1 DEF TypeOK
<1>6. QED
  BY <1>1, <1>3, <1>4, <1>5, LinksGoUp

LEMMA LinksReturnFromLeft ==
  ASSUME TypeOK, Links, ReturnFromLeft
  PROVE  Links'
<1>1. /\ prev \in Cell /\ ~HasRightLink(prev)
      /\ car' = [car EXCEPT ![prev] = current]
      /\ path' = SubSeq(path, 1, Len(path) - 1)
      /\ current' = prev /\ prev' = car[prev]
      /\ UNCHANGED <<type, cdr, flip, heap0>>
  BY DEF ReturnFromLeft
<1>2. prev = path[Len(path)] /\ Len(path) \in Nat \ {0}
  BY <1>1, NilAssumption, EmptySeq DEF Links, WayBack, TypeOK
<1>3. /\ prev \notin flip
      /\ car[prev] = Below(Len(path)) /\ heap0.car[prev] = current
      /\ cdr[prev] = heap0.cdr[prev]
  BY <1>1, <1>2 DEF Links, Reversed, Above
<1>4. prev \notin flip' /\ car'[prev] = heap0.car[prev] /\ cdr'[prev] = heap0.cdr[prev]
  BY <1>1, <1>3 DEF TypeOK
<1>5. \A c \in Cell \ {prev} :
         (c \in flip' <=> c \in flip) /\ car'[c] = car[c] /\ cdr'[c] = cdr[c]
  BY <1>1 DEF TypeOK
<1>6. QED
  BY <1>1, <1>3, <1>4, <1>5, LinksGoUp

LEMMA LinksStep ==
  TypeOK /\ LinksRecoverable /\ NoUnmarkedChild /\ [Next]_vars => LinksRecoverable'
<1> SUFFICES ASSUME TypeOK, LinksRecoverable, NoUnmarkedChild, [Next]_vars, Marking'
             PROVE  (pc = "root" => path = <<>>)' /\ Links'
  BY DEF LinksRecoverable, Links
<1>0. CASE Marking
  <2>1. Links /\ (pc = "root" => path = <<>>)
    BY <1>0 DEF LinksRecoverable, Links
  <2>2. CASE TakeRoot
    <3>1. UNCHANGED <<type, car, cdr, flip, path, heap0>> /\ path = <<>>
      BY <2>1, <2>2 DEF TakeRoot
    <3>2. CASE root < NRoots
      <4>1. prev' = NIL /\ pc' = "down"
        BY <2>2, <3>2 DEF TakeRoot
      <4>2. WayBack'
        BY <3>1, <4>1, EmptySeq DEF WayBack
      <4>3. \A i \in 1 .. Len(path') : FALSE
        BY <3>1, EmptySeq
      <4>4. OnPath' = OnPath
        BY <3>1 DEF OnPath
      <4>5. QED
        BY <2>1, <3>1, <4>1, <4>2, <4>3, <4>4 DEF Links, Untouched
    <3>3. CASE ~(root < NRoots)
      BY <2>2, <3>3 DEF TakeRoot, Marking
    <3>4. QED
      BY <3>2, <3>3
  <2>3. CASE GoDown
    BY <1>0, <2>1, <2>3, LinksGoDown DEF GoDown, NoUnmarkedChild
  <2>4. CASE LeftCompleted
    BY <2>1, <2>4, LinksUnchanged DEF LeftCompleted, memory, marker
  <2>5. CASE ReturnFromRight
    BY <2>1, <2>5, LinksReturnFromRight DEF ReturnFromRight
  <2>6. CASE MarkCompleted
    <3>1. path = <<>>
      BY <2>1, <2>6, EmptySeq DEF MarkCompleted, Links, WayBack, TypeOK
    <3>2. QED
      BY <2>1, <2>6, <3>1, LinksUnchanged DEF MarkCompleted, memory, marker
  <2>7. CASE TurnRight
    BY <2>1, <2>7, LinksTurnRight DEF TurnRight
  <2>8. CASE ReturnFromLeft
    BY <2>1, <2>8, LinksReturnFromLeft DEF ReturnFromLeft
  <2>9. CASE ReturnedFromLeft
    BY <2>1, <2>9, LinksUnchanged DEF ReturnedFromLeft, memory, marker
  <2>10. CASE Sweep
    BY <1>0, <2>10 DEF Sweep, SweepMarked, SweepUnmarked, SweepGlobals, Marking
  <2>11. CASE UNCHANGED vars
    BY <2>1, <2>11, LinksUnchanged DEF vars
  <2>12. QED
    BY <2>2, <2>3, <2>4, <2>5, <2>6, <2>7, <2>8, <2>9, <2>10, <2>11 DEF Next, Mark
<1>1. CASE ~Marking
  BY <1>1 DEF Marking, Next, Mark, TakeRoot, GoDown, LeftCompleted, ReturnFromRight, MarkCompleted,
     TurnRight, ReturnFromLeft, ReturnedFromLeft, Sweep, SweepNext, SweepGlobals, vars
<1>2. QED
  BY <1>0, <1>1

-----------------------------------------------------------------------------
(***************************************************************************)
(* Marking.                                                                *)
(***************************************************************************)

\* The parts of NoUnmarkedChild that do not mention pc.
Black ==
  /\ OnPath \subseteq mark
  /\ \A c \in mark \ OnPath :
       LinksOf(c, heap0.type, heap0.car, heap0.cdr) \subseteq mark
  /\ \A c \in OnPath \cap flip : {heap0.car[c]} \cap Cell \subseteq mark

CurrentMarked == {current} \cap Cell \subseteq mark

RootTaken(i) ==
  \/ Root(i) \in mark
  \/ i = root /\ path = <<>> /\ pc = "down" /\ current = Root(i)

LEMMA BlackUnchanged ==
  ASSUME Black, UNCHANGED <<flip, mark, path, heap0>>
  PROVE  Black'
BY DEF Black, OnPath, LinksOf

\* The cell that mm_mark() goes back to is the last one of the path.
LEMMA PrevOnPath ==
  ASSUME TypeOK, Links, prev \in Cell
  PROVE  /\ prev = path[Len(path)] /\ Len(path) \in 1 .. Len(path)
         /\ prev \in OnPath
         /\ Reversed(prev, Below(Len(path)), current)
         /\ path \in Seq(Cell) /\ path # <<>>
         /\ \A i, j \in 1 .. Len(path) : path[i] = path[j] => i = j
<1>1. path # <<>> /\ prev = path[Len(path)] /\ Len(path) \in Nat \ {0}
  BY NilAssumption, EmptySeq DEF Links, WayBack, TypeOK
<1>2. Len(path) \in 1 .. Len(path) /\ Above(Len(path)) = current
  BY <1>1 DEF Above
<1>3. QED
  BY <1>1, <1>2 DEF Links, OnPath, TypeOK, WayBack

\* Going back up takes the last cell off the path.
LEMMA PathGoUp ==
  ASSUME TypeOK, Links, prev \in Cell, path' = SubSeq(path, 1, Len(path) - 1)
  PROVE  OnPath' = OnPath \ {prev}
<1>1. InSeq(path') = InSeq(path) \ {prev}
  BY PrevOnPath, Popped
<1>2. QED
  BY <1>1 DEF OnPath, InSeq

LEMMA BlackGoDown ==
  ASSUME TypeOK, Links, Black, GoDown
  PROVE  Black'
<1>1. /\ current \in Cell /\ mark' = mark \cup {current}
      /\ current \notin OnPath
      /\ UNCHANGED <<flip, heap0>>
  BY DEF GoDown, Black
<1>2. current \notin flip /\ type = heap0.type
  BY <1>1 DEF Links, Untouched
<1>3. CASE HasLeftLink(current)
  <2>1. path \in Seq(Cell) /\ path' = Append(path, current)
    BY <1>3 DEF GoDown, TypeOK
  <2>2. InSeq(path') = InSeq(path) \cup {current}
    BY <1>1, <2>1, Pushed
  <2>3. OnPath' = OnPath \cup {current}
    BY <2>2 DEF OnPath, InSeq
  <2>4. QED
    BY <1>1, <1>2, <2>3 DEF Black, LinksOf
<1>4. CASE ~HasLeftLink(current)
  <2>1. OnPath' = OnPath
    BY <1>4 DEF GoDown, OnPath
  <2>2. LinksOf(current, heap0.type, heap0.car, heap0.cdr) = {}
    BY <1>2, <1>4 DEF LinksOf, HasLeftLink, HasLeftLinkTypes
  <2>3. QED
    BY <1>1, <2>1, <2>2 DEF Black, LinksOf
<1>5. QED
  BY <1>3, <1>4

LEMMA BlackTurnRight ==
  ASSUME TypeOK, Links, Black, CurrentMarked, TurnRight
  PROVE  Black'
<1>1. /\ prev \in Cell /\ prev \notin flip /\ flip' = flip \cup {prev}
      /\ UNCHANGED <<mark, path, heap0>>
  BY DEF TurnRight
<1>2. heap0.car[prev] = current
  BY <1>1, PrevOnPath DEF Reversed
<1>3. OnPath' = OnPath
  BY <1>1 DEF OnPath
<1>4. QED
  BY <1>1, <1>2, <1>3 DEF Black, CurrentMarked, LinksOf

LEMMA BlackReturnFromRight ==
  ASSUME TypeOK, Links, Black, CurrentMarked, ReturnFromRight
  PROVE  Black' /\ CurrentMarked'
<1>1. /\ prev \in Cell /\ prev \in flip /\ flip' = flip \ {prev}
      /\ path' = SubSeq(path, 1, Len(path) - 1) /\ current' = prev
      /\ UNCHANGED <<mark, heap0>>
  BY DEF ReturnFromRight
<1>2. OnPath' = OnPath \ {prev}
  BY <1>1, PathGoUp
<1>3. prev \in OnPath /\ heap0.cdr[prev] = current
  BY <1>1, PrevOnPath DEF Reversed
<1>4. LinksOf(prev, heap0.type, heap0.car, heap0.cdr) \subseteq mark
  BY <1>1, <1>3 DEF Black, CurrentMarked, LinksOf
<1>5. QED
  BY <1>1, <1>2, <1>3, <1>4 DEF Black, CurrentMarked, LinksOf

LEMMA BlackReturnFromLeft ==
  ASSUME TypeOK, Links, Black, CurrentMarked, ReturnFromLeft
  PROVE  Black' /\ CurrentMarked'
<1>1. /\ prev \in Cell /\ ~HasRightLink(prev)
      /\ path' = SubSeq(path, 1, Len(path) - 1) /\ current' = prev
      /\ UNCHANGED <<mark, flip, heap0>>
  BY DEF ReturnFromLeft
<1>2. OnPath' = OnPath \ {prev}
  BY <1>1, PathGoUp
<1>3. prev \in OnPath /\ heap0.car[prev] = current /\ type = heap0.type
  BY <1>1, PrevOnPath DEF Reversed, Links
<1>4. LinksOf(prev, heap0.type, heap0.car, heap0.cdr) \subseteq mark
  BY <1>1, <1>3 DEF CurrentMarked, LinksOf, HasRightLink
<1>5. QED
  BY <1>1, <1>2, <1>3, <1>4 DEF Black, CurrentMarked, LinksOf

LEMMA ColourInit == Init => NoUnmarkedChild
BY EmptySeq DEF Init, NoUnmarkedChild, OnPath

LEMMA ColourStep ==
  TypeOK /\ LinksRecoverable /\ NoUnmarkedChild /\ [Next]_vars => NoUnmarkedChild'
<1> SUFFICES ASSUME TypeOK, LinksRecoverable, NoUnmarkedChild, [Next]_vars, Marking'
             PROVE  /\ Black'
                    /\ \A i \in 1 .. root' : Root(i)' \in Cell => RootTaken(i)'
                    /\ pc' \in {"up", "left"} => CurrentMarked'
  BY DEF NoUnmarkedChild, Black, RootTaken, CurrentMarked
<1>0. CASE Marking
  <2>1. /\ Links /\ (pc = "root" => path = <<>>)
        /\ Black
        /\ \A i \in 1 .. root : Root(i) \in Cell => RootTaken(i)
        /\ pc \in {"up", "left"} => CurrentMarked
    BY <1>0 DEF LinksRecoverable, Links, NoUnmarkedChild, Black, RootTaken, CurrentMarked
  <2>2. CASE TakeRoot
    <3>1. /\ UNCHANGED <<flip, mark, path, regs, heap0>> /\ path = <<>> /\ pc = "root"
          /\ root < NRoots
          /\ root' = root + 1 /\ current' = Root(root + 1) /\ pc' = "down"
      BY <2>1, <2>2 DEF TakeRoot, Marking
    <3>2. \A i \in 1 .. root : Root(i) \in Cell => Root(i) \in mark
      BY <2>1, <3>1 DEF RootTaken
    <3>3. \A i : Root(i)' = Root(i)
      BY <3>1 DEF Root
    <3>4. 1 .. root' = 1 .. root \cup {root'}
      BY <3>1 DEF TypeOK
    <3>5. QED
      BY <2>1, <3>1, <3>2, <3>3, <3>4, BlackUnchanged DEF RootTaken
  <2>3. CASE GoDown
    <3>1. /\ pc' = "down" /\ mark' = mark \cup {current} /\ UNCHANGED <<root, regs>>
      BY <2>3 DEF GoDown
    <3>2. \A i : Root(i)' = Root(i)
      BY <3>1 DEF Root
    <3>3. QED
      BY <2>1, <2>3, <3>1, <3>2, BlackGoDown DEF RootTaken
  <2>4. CASE LeftCompleted
    <3>1. /\ UNCHANGED <<flip, mark, path, heap0, root, regs, current>> /\ pc' = "up"
          /\ CurrentMarked
      BY <2>4 DEF LeftCompleted, memory, marker, CurrentMarked
    <3>2. \A i : Root(i)' = Root(i)
      BY <3>1 DEF Root
    <3>3. QED
      BY <2>1, <3>1, <3>2, BlackUnchanged DEF RootTaken, CurrentMarked
  <2>5. CASE ReturnFromRight
    <3>1. /\ pc = "up" /\ pc' = "up" /\ UNCHANGED <<mark, root, regs>>
      BY <2>5 DEF ReturnFromRight
    <3>2. \A i : Root(i)' = Root(i)
      BY <3>1 DEF Root
    <3>3. QED
      BY <2>1, <2>5, <3>1, <3>2, BlackReturnFromRight DEF RootTaken
  <2>6. CASE MarkCompleted
    <3>1. /\ UNCHANGED <<flip, mark, path, heap0, root, regs, current>>
          /\ pc = "up" /\ pc' = "root"
      BY <2>6 DEF MarkCompleted, memory, marker
    <3>2. \A i : Root(i)' = Root(i)
      BY <3>1 DEF Root
    <3>3. QED
      BY <2>1, <3>1, <3>2, BlackUnchanged DEF RootTaken
  <2>7. CASE TurnRight
    <3>1. /\ pc = "up" /\ pc' = "down" /\ UNCHANGED <<mark, root, regs>>
      BY <2>7 DEF TurnRight
    <3>2. \A i : Root(i)' = Root(i)
      BY <3>1 DEF Root
    <3>3. QED
      BY <2>1, <2>7, <3>1, <3>2, BlackTurnRight DEF RootTaken
  <2>8. CASE ReturnFromLeft
    <3>1. /\ pc \in {"up", "left"} /\ pc' = "left" /\ UNCHANGED <<mark, root, regs>>
      BY <2>8 DEF ReturnFromLeft
    <3>2. \A i : Root(i)' = Root(i)
      BY <3>1 DEF Root
    <3>3. QED
      BY <2>1, <2>8, <3>1, <3>2, BlackReturnFromLeft DEF RootTaken
  <2>9. CASE ReturnedFromLeft
    <3>1. /\ UNCHANGED <<flip, mark, path, heap0, root, regs, current>>
          /\ pc = "left" /\ pc' = "down"
      BY <2>9 DEF ReturnedFromLeft, memory, marker
    <3>2. \A i : Root(i)' = Root(i)
      BY <3>1 DEF Root
    <3>3. QED
      BY <2>1, <3>1, <3>2, BlackUnchanged DEF RootTaken
  <2>10. CASE Sweep
    BY <1>0, <2>10 DEF Sweep, SweepMarked, SweepUnmarked, SweepGlobals, Marking
  <2>11. CASE UNCHANGED vars
    <3>1. UNCHANGED <<flip, mark, path, heap0, root, regs, current, pc>>
      BY <2>11 DEF vars
    <3>2. \A i : Root(i)' = Root(i)
      BY <3>1 DEF Root
    <3>3. QED
      BY <2>1, <3>1, <3>2, BlackUnchanged DEF RootTaken, CurrentMarked
  <2>12. QED
    BY <2>2, <2>3, <2>4, <2>5, <2>6, <2>7, <2>8, <2>9, <2>10, <2>11 DEF Next, Mark
<1>1. CASE ~Marking
  BY <1>1 DEF Marking, Next, Mark, TakeRoot, GoDown, LeftCompleted, ReturnFromRight, MarkCompleted,
     TurnRight, ReturnFromLeft, ReturnedFromLeft, Sweep, SweepNext, SweepGlobals, vars
<1>2. QED
  BY <1>0, <1>1

\* When mm_mark() has returned, the marked cells hold the roots taken so far
\* and are closed under the links: they are all the cells those roots reach.
LEMMA MarkedAll ==
  ASSUME TypeOK, LinksRecoverable, NoUnmarkedChild, pc = "root"
  PROVE  Reached \subseteq mark
<1>1. path = <<>> /\ OnPath = {}
  BY EmptySeq DEF LinksRecoverable, OnPath, Marking
<1>2. Closed(mark, heap0.type, heap0.car, heap0.cdr)
  BY <1>1 DEF NoUnmarkedChild, Closed, Marking
<1>3. Roots(root) \cap Cell \subseteq mark
  BY DEF NoUnmarkedChild, Roots, Marking
<1>4. mark \in SUBSET Cell
  BY DEF TypeOK
<1>5. QED
  BY <1>2, <1>3, <1>4, ReachableLeast DEF Reached

\* Every cell that mm_mark() visits is reachable from the roots taken so far.
LEMMA VisitedInit == Init => mark \cup ({current} \cap Cell) \subseteq Reached
BY NilAssumption DEF Init

LEMMA VisitedStep ==
  ASSUME TypeOK, LinksRecoverable, NoUnmarkedChild, MarksReachable, [Next]_vars, Marking'
  PROVE  (mark \cup ({current} \cap Cell) \subseteq Reached)'
<1>0. CASE Marking
  <2>1. /\ Links /\ OnPath \subseteq mark
        /\ mark \subseteq Reached
        /\ current \in Cell => current \in Reached
    BY <1>0 DEF LinksRecoverable, Links, NoUnmarkedChild, MarksReachable
  <2>2. CASE TakeRoot
    <3>1. /\ UNCHANGED <<mark, regs, heap0>>
          /\ root < NRoots /\ root' = root + 1 /\ current' = Root(root + 1)
      BY <2>2 DEF TakeRoot, Marking
    <3>2. Roots(root)' = Roots(root + 1)
      BY <3>1 DEF Roots, Root
    <3>3. Roots(root) \subseteq Roots(root + 1) /\ Root(root + 1) \in Roots(root + 1)
      BY <3>1 DEF Roots, TypeOK
    <3>4. Reached \subseteq Reached'
      BY <3>1, <3>2, <3>3, ReachableMonotone DEF Reached
    <3>5. current' \in Cell => current' \in Reached'
      BY <3>1, <3>2, <3>3, RootReachable DEF Reached
    <3>6. QED
      BY <2>1, <3>1, <3>4, <3>5
  <2>3. ASSUME UNCHANGED <<root, regs, heap0>>,
               mark' \subseteq mark \cup ({current} \cap Cell),
               \/ current' = current
               \/ current' \in Reached
               \/ \E c \in Reached : \/ HasLeftLink(c)  /\ current' = heap0.car[c]
                                     \/ HasRightLink(c) /\ current' = heap0.cdr[c]
        PROVE  (mark \cup ({current} \cap Cell) \subseteq Reached)'
    <3>1. Reached' = Reached
      BY <2>3 DEF Reached, Roots, Root
    <3>2. current' \in Cell => current' \in Reached
      <4>1. ASSUME NEW c \in Reached, current' \in Cell,
                   \/ HasLeftLink(c)  /\ current' = heap0.car[c]
                   \/ HasRightLink(c) /\ current' = heap0.cdr[c]
            PROVE  current' \in Reached
        <5>1. current' \in LinksOf(c, heap0.type, heap0.car, heap0.cdr)
          BY <2>1, <4>1 DEF LinksOf, Links, HasLeftLink, HasRightLink
        <5>2. QED
          BY <4>1, <5>1, LinkReachable DEF Reached
      <4>2. QED
        BY <2>1, <2>3, <4>1
    <3>3. QED
      BY <2>1, <2>3, <3>1, <3>2
  <2>4. CASE GoDown
    <3>1. /\ UNCHANGED <<root, regs, heap0>> /\ current \in Cell
          /\ mark' = mark \cup {current}
          /\ \/ current' = current
             \/ HasLeftLink(current) /\ current' = car[current]
      BY <2>4 DEF GoDown
    <3>2. car[current] = heap0.car[current]
      BY <2>1, <2>4, <3>1 DEF Links, Untouched, GoDown
    <3>3. QED
      BY <2>1, <2>3, <3>1, <3>2
  <2>5. CASE LeftCompleted \/ MarkCompleted \/ ReturnedFromLeft
    BY <2>3, <2>5 DEF LeftCompleted, MarkCompleted, ReturnedFromLeft, memory, marker
  <2>6. CASE ReturnFromRight \/ ReturnFromLeft
    <3>1. /\ prev \in Cell /\ current' = prev /\ UNCHANGED <<mark, root, regs, heap0>>
      BY <2>6 DEF ReturnFromRight, ReturnFromLeft
    <3>2. prev \in Reached
      BY <2>1, <3>1, PrevOnPath
    <3>3. QED
      BY <2>3, <3>1, <3>2
  <2>7. CASE TurnRight
    <3>1. /\ prev \in Cell /\ prev \notin flip /\ HasRightLink(prev) /\ current' = cdr[prev]
          /\ UNCHANGED <<mark, root, regs, heap0>>
      BY <2>7 DEF TurnRight
    <3>2. prev \in Reached /\ cdr[prev] = heap0.cdr[prev]
      BY <2>1, <3>1, PrevOnPath DEF Reversed
    <3>3. QED
      BY <2>3, <3>1, <3>2
  <2>8. CASE Sweep
    BY <1>0, <2>8 DEF Sweep, SweepMarked, SweepUnmarked, SweepGlobals, Marking
  <2>9. CASE UNCHANGED vars
    BY <2>3, <2>9 DEF vars
  <2>10. QED
    BY <2>2, <2>4, <2>5, <2>6, <2>7, <2>8, <2>9 DEF Next, Mark
<1>1. CASE ~Marking
  BY <1>1 DEF Marking, Next, Mark, TakeRoot, GoDown, LeftCompleted, ReturnFromRight, MarkCompleted,
     TurnRight, ReturnFromLeft, ReturnedFromLeft, Sweep, SweepNext, SweepGlobals, vars
<1>2. QED
  BY <1>0, <1>1

LEMMA MarkInvInit == Init => MarkInv
<1> SUFFICES ASSUME Init PROVE MarksReachable
  BY TypeInit, LinksInit, ColourInit DEF MarkInv
<1>1. mark \cup ({current} \cap Cell) \subseteq Reached
  BY VisitedInit
<1>2. pc = "root" => Reached \subseteq mark
  BY MarkedAll, TypeInit, LinksInit, ColourInit
<1>3. QED
  BY <1>1, <1>2 DEF MarksReachable

LEMMA MarkInvStep == MarkInv /\ [Next]_vars => MarkInv'
<1> SUFFICES ASSUME MarkInv, [Next]_vars PROVE MarkInv'
  OBVIOUS
<1>1. TypeOK' /\ LinksRecoverable' /\ NoUnmarkedChild'
  BY TypeStep, LinksStep, ColourStep DEF MarkInv
<1>2. Marking' => (mark \cup ({current} \cap Cell) \subseteq Reached)'
  BY VisitedStep DEF MarkInv
<1>3. (TypeOK /\ LinksRecoverable /\ NoUnmarkedChild /\ pc = "root" => Reached \subseteq mark)'
  BY MarkedAll, PTL
<1>4. MarksReachable'
  BY <1>1, <1>2, <1>3 DEF MarksReachable, Marking
<1>5. QED
  BY <1>1, <1>4 DEF MarkInv

\* The invariant of the mark phase holds throughout a collection.
THEOREM MarkInvariant == Spec => []MarkInv
BY MarkInvInit, MarkInvStep, PTL DEF Spec

\* Type correctness: every link of every cell, and every variable of mm_gc(),
\* stays within the values the virtual machine gives it.
THEOREM TypeCorrect == Spec => []TypeOK
BY MarkInvariant, PTL DEF MarkInv

\* Pointer reversal loses no link: at each step of mm_mark() the heap of the
\* mutator can be recovered, and when it returns the heap is back.
THEOREM LinksAreRecoverable == Spec => []LinksRecoverable
BY MarkInvariant, PTL DEF MarkInv

\* The three-colour invariant of mm_mark(): a marked cell that is off the way down has no
\* unmarked child, and one whose right side is being visited has its left child marked.
THEOREM NoChildMissed == Spec => []NoUnmarkedChild
BY MarkInvariant, PTL DEF MarkInv

\* mm_mark() marks exactly what the roots reach.
THEOREM MarksExactlyReachable == Spec => []MarksReachable
BY MarkInvariant, PTL DEF MarkInv

-----------------------------------------------------------------------------
(***************************************************************************)
(* Sweeping.                                                               *)
(***************************************************************************)

\* NextIn depends on the cells from n on only.
LEMMA NextInSame ==
  ASSUME NEW S, NEW T, NEW n, NEW m,
         {c \in S : c >= n} = {c \in T : c >= m}
  PROVE  NextIn(S, n) = NextIn(T, m)
BY DEF NextIn

\* The least of the cells from n on is the next one.
LEMMA NextInLeast ==
  ASSUME NEW S \in SUBSET Int, NEW n \in Int, NEW m \in S, m >= n,
         \A d \in S : d >= n => m <= d
  PROVE  NextIn(S, n) = m
<1> DEFINE later == {c \in S : c >= n}
<1>1. m \in later /\ later \subseteq Int /\ \A d \in later : m <= d
  OBVIOUS
<1>2. \A c \in later : (\A d \in later : c <= d) => c = m
  BY <1>1
<1>3. (CHOOSE c \in later : \A d \in later : c <= d) = m
  BY <1>1, <1>2
<1>4. QED
  BY <1>1, <1>3 DEF NextIn, Lowest

LEMMA SweepInit == Init => SweepsGarbage
<1> SUFFICES ASSUME Init PROVE SweepsGarbage
  OBVIOUS
<1>1. Swept = {} /\ Released = {}
  BY HeapEndAssumption DEF Init, Swept, Released, Cell
<1>2. used = Used0
  BY DEF Init, Used0, heap
<1>3. QED
  BY <1>1, <1>2 DEF SweepsGarbage, Init

\* The cells of the globals are roots.
LEMMA ReservedLive == TypeOK => ReservedCell \subseteq Live0
<1> SUFFICES ASSUME TypeOK, NEW c \in ReservedCell PROVE c \in Live0
  OBVIOUS
<1>1. /\ c \in Cell /\ c \in Int /\ c + 1 \in 1 .. NRoots
      /\ Root(c + 1) = c
  BY ReservedAssumption, NRegsAssumption, HeapEndAssumption DEF ReservedCell, Cell, NRoots, Root
<1>2. c \in Roots(NRoots)
  BY <1>1 DEF Roots
<1>3. QED
  BY <1>1, <1>2, RootReachable DEF Live0

\* The state in which mm_sweep() starts.
LEMMA SweepStart ==
  ASSUME MarkInv, SweepsGarbage, TakeRoot, ~(root < NRoots)
  PROVE  SweepsGarbage'
<1>1. /\ pc = "root" /\ free_cells' = NIL
      /\ UNCHANGED <<type, car, cdr, mark, flip, used, regs, p, heap0>>
  BY DEF TakeRoot
<1>2. root = NRoots
  BY NRootsNat DEF MarkInv, TypeOK
<1>3. mark = Live0
  BY <1>1, <1>2 DEF MarkInv, MarksReachable, Reached, Live0
<1>4. \A c \in Cell : Untouched(c)
  BY <1>1, EmptySeq DEF MarkInv, LinksRecoverable, OnPath, Marking
<1>5. type = heap0.type /\ p = HeapEnd - 1
  BY <1>1 DEF MarkInv, LinksRecoverable, Marking, TypeOK
<1>6. Swept = {} /\ Swept' = {} /\ Live0' = Live0 /\ Released' = Released /\ Used0' = Used0
  BY <1>1, <1>5, HeapEndAssumption
  DEF Swept, Live0, Roots, Root, Released, Used0, Cell, NRoots
<1>7. NextIn(Swept', 0) = NIL
  <2>1. {c \in {} : c >= 0} = {}
    OBVIOUS
  <2>2. QED
    BY <1>6, <2>1 DEF NextIn, Lowest
<1>8. flip = {} /\ mark = {c \in Live0 : c <= p}
  <2>1. flip \subseteq Cell /\ mark \subseteq Cell
    BY DEF MarkInv, TypeOK
  <2>2. \A c \in Cell : c <= p
    BY <1>5, HeapEndAssumption DEF Cell
  <2>3. QED
    BY <1>3, <1>4, <2>1, <2>2 DEF Untouched
<1>9. QED
  BY <1>1, <1>4, <1>5, <1>6, <1>7, <1>8 DEF SweepsGarbage, Untouched

LEMMA SweepMarkedStep ==
  ASSUME TypeOK, SweepsGarbage, SweepMarked, SweepNext
  PROVE  SweepsGarbage'
<1>1. /\ pc = "sweep" /\ p \in mark /\ mark' = mark \ {p} /\ p' = p - 1
      /\ UNCHANGED <<type, car, cdr, flip, free_cells, used, regs, heap0>>
  BY DEF SweepMarked, SweepNext
<1>2. /\ p \in Live0 /\ Live0' = Live0 /\ mark = {c \in Live0 : c <= p}
      /\ Live0 \subseteq Int /\ p \in Int
  <2>1. Live0 \subseteq Cell /\ Live0' = Live0
    BY <1>1 DEF Live0, Roots, Root, Reachable
  <2>2. mark = {c \in Live0 : c <= p}
    BY <1>1 DEF SweepsGarbage
  <2>3. QED
    BY <1>1, <2>1, <2>2, HeapEndAssumption DEF Cell
<1>3. Swept' = Swept
  <2>1. \A c \in Cell : (c > p - 1) <=> (c > p \/ c = p)
    BY <1>2, HeapEndAssumption DEF Cell
  <2>2. Swept' = {c \in Cell \ Live0 : c >= Reserved /\ c > p - 1}
    BY <1>1, <1>2 DEF Swept
  <2>3. QED
    BY <1>2, <2>1, <2>2 DEF Swept
<1>4. mark' = {c \in Live0 : c <= p'}
  <2>1. \A c \in Live0 : (c <= p - 1) <=> (c <= p /\ c # p)
    BY <1>2
  <2>2. QED
    BY <1>1, <1>2, <2>1
<1>5. Released' = Released /\ Used0' = Used0
  BY <1>1, <1>3 DEF Released, Used0
<1>6. QED
  BY <1>1, <1>2, <1>3, <1>4, <1>5 DEF SweepsGarbage

LEMMA SweepUnmarkedStep ==
  ASSUME TypeOK, SweepsGarbage, SweepUnmarked, SweepNext
  PROVE  SweepsGarbage'
<1>1. /\ pc = "sweep" /\ p \notin mark /\ p' = p - 1
      /\ cdr' = [cdr EXCEPT ![p] = free_cells] /\ free_cells' = p
      /\ UNCHANGED <<car, mark, flip, regs, heap0>>
  BY DEF SweepUnmarked, SweepNext
<1>2. /\ p \in Cell /\ p \in Int /\ p >= Reserved /\ Cell \subseteq Int
      /\ Live0' = Live0 /\ Live0 \subseteq Cell
  BY <1>1, ReservedAssumption, HeapEndAssumption DEF Live0, Roots, Root, TypeOK, Reachable, Cell
<1>3. p \notin Live0 /\ p \notin Swept /\ mark = {c \in Live0 : c <= p}
  BY <1>1, <1>2 DEF SweepsGarbage, Swept
<1>4. Swept' = Swept \cup {p} /\ Swept \subseteq Cell /\ \A c \in Swept : c > p
  <2>1. Swept \subseteq Cell /\ \A c \in Swept : c > p
    BY DEF Swept
  <2>2. \A c \in Cell : (c > p - 1) <=> (c > p \/ c = p)
    BY <1>2
  <2>3. Swept' = {c \in Cell \ Live0 : c >= Reserved /\ c > p - 1}
    BY <1>1, <1>2 DEF Swept
  <2>4. QED
    BY <1>2, <1>3, <2>1, <2>2, <2>3 DEF Swept
<1>5. free_cells' = NextIn(Swept', 0)
  <2>1. p >= 0 /\ \A d \in Swept' : d >= 0 => p <= d
    BY <1>2, <1>4, ReservedAssumption
  <2>2. p \in Swept' /\ Swept' \in SUBSET Int
    BY <1>2, <1>4
  <2>3. QED
    BY <1>1, <2>1, <2>2, NextInLeast
<1>6. cdr'[p] = NextIn(Swept', p + 1)
  <2>1. {c \in Swept : c >= 0} = {c \in Swept' : c >= p + 1}
    <3>1. p \in Nat /\ ~(p >= p + 1) /\ \A c \in Swept : c >= 0 /\ c >= p + 1
      BY <1>2, <1>4, ReservedAssumption
    <3>2. QED
      BY <1>4, <3>1
  <2>2. NextIn(Swept, 0) = NextIn(Swept', p + 1)
    BY <2>1, NextInSame
  <2>3. free_cells = NextIn(Swept, 0)
    BY <1>1 DEF SweepsGarbage
  <2>4. QED
    BY <1>1, <1>2, <2>2, <2>3 DEF TypeOK
<1>7. \A c \in Swept : cdr'[c] = NextIn(Swept', c + 1)
  <2> SUFFICES ASSUME NEW c \in Swept PROVE cdr'[c] = NextIn(Swept', c + 1)
    OBVIOUS
  <2>1. {d \in Swept : d >= c + 1} = {d \in Swept' : d >= c + 1}
    BY <1>2, <1>4
  <2>2. NextIn(Swept, c + 1) = NextIn(Swept', c + 1)
    BY <2>1, NextInSame
  <2>3. cdr[c] = NextIn(Swept, c + 1)
    BY <1>1 DEF SweepsGarbage
  <2>4. cdr'[c] = cdr[c]
    BY <1>1, <1>2, <1>4 DEF TypeOK
  <2>5. QED
    BY <2>2, <2>3, <2>4
<1>8. /\ type[p] = heap0.type[p] /\ cdr[p] = heap0.cdr[p]
      /\ \A c \in Cell \ Swept' : /\ type'[c] = heap0.type[c]
                                  /\ car'[c] = heap0.car[c] /\ cdr'[c] = heap0.cdr[c]
      /\ \A c \in Swept' : type'[c] # VECTOR_TYPE
  <2>1. /\ \A c \in Cell \ Swept : /\ type[c] = heap0.type[c]
                                   /\ car[c] = heap0.car[c] /\ cdr[c] = heap0.cdr[c]
        /\ \A c \in Swept : type[c] # VECTOR_TYPE
    BY <1>1 DEF SweepsGarbage
  <2>2. /\ type'[p] # VECTOR_TYPE
        /\ \A c \in Cell \ {p} : type'[c] = type[c]
    BY <1>2 DEF SweepUnmarked, TypeOK, VECTOR_TYPE, CONS_TYPE
  <2>3. QED
    BY <1>1, <1>2, <1>3, <1>4, <2>1, <2>2 DEF TypeOK
<1>9. mark' = {c \in Live0 : c <= p'}
  <2>1. \A c \in Live0 : c <= p <=> c <= p - 1
    BY <1>2, <1>3
  <2>2. QED
    BY <1>1, <1>3, <2>1
<1>10. used' = Used0' \ Released'
  <2>1. Used0' = Used0 /\ used = Used0 \ Released
    BY <1>1 DEF Used0, SweepsGarbage
  <2>2. CASE type[p] = VECTOR_TYPE
    <3>1. used' = used \ {cdr[p] - 1} /\ heap0.type[p] = VECTOR_TYPE
      BY <1>8, <2>2 DEF SweepUnmarked
    <3>2. Released' = Released \cup {OwnStart(p) - 1}
      BY <1>1, <1>4, <3>1 DEF Released
    <3>3. cdr[p] = OwnStart(p)
      BY <1>2, <1>8, <3>1 DEF TypeOK
    <3>4. QED
      BY <2>1, <3>1, <3>2, <3>3
  <2>3. CASE type[p] # VECTOR_TYPE
    <3>1. used' = used /\ heap0.type[p] # VECTOR_TYPE
      BY <1>8, <2>3 DEF SweepUnmarked
    <3>2. Released' = Released
      BY <1>1, <1>4, <3>1 DEF Released
    <3>3. QED
      BY <2>1, <3>1, <3>2
  <2>4. QED
    BY <2>2, <2>3
<1>11. QED
  BY <1>1, <1>2, <1>4, <1>5, <1>6, <1>7, <1>8, <1>9, <1>10 DEF SweepsGarbage
LEMMA SweepGlobalsStep ==
  ASSUME TypeOK, SweepsGarbage, SweepGlobals
  PROVE  SweepsGarbage'
<1>1. /\ pc = "globals" /\ mark' = mark \ {p} /\ p' = p - 1
      /\ UNCHANGED <<type, car, cdr, flip, free_cells, used, regs, heap0>>
  BY DEF SweepGlobals
<1>2. /\ p \in Int /\ p < Reserved /\ Cell \subseteq Int
      /\ Live0' = Live0 /\ Live0 \subseteq Cell
      /\ mark = {c \in Live0 : c <= p}
  <2>1. p \in Int /\ p < Reserved /\ Cell \subseteq Int
    BY <1>1, HeapEndAssumption DEF TypeOK, Cell
  <2>2. Live0' = Live0 /\ Live0 \subseteq Cell
    BY <1>1 DEF Live0, Roots, Root, Reachable
  <2>3. QED
    BY <1>1, <2>1, <2>2 DEF SweepsGarbage
<1>3. Swept' = Swept
  <2>1. \A c \in Cell : c >= Reserved => c > p /\ c > p - 1
    BY <1>2, ReservedAssumption
  <2>2. QED
    BY <1>1, <1>2, <2>1 DEF Swept
<1>4. mark' = {c \in Live0 : c <= p'}
  <2>1. \A c \in Live0 : (c <= p - 1) <=> (c <= p /\ c # p)
    BY <1>2
  <2>2. QED
    BY <1>1, <1>2, <2>1
<1>5. Released' = Released /\ Used0' = Used0
  BY <1>1, <1>3 DEF Released, Used0
<1>6. QED
  BY <1>1, <1>2, <1>3, <1>4, <1>5 DEF SweepsGarbage

\* Before mm_sweep() starts nothing has been swept and no block is released.
LEMMA MarkingStep ==
  ASSUME MarkInv, SweepsGarbage, Mark, Marking'
  PROVE  SweepsGarbage'
<1>1. Marking /\ UNCHANGED <<p, used, regs, heap0>>
  BY DEF Mark, TakeRoot, GoDown, LeftCompleted, ReturnFromRight, MarkCompleted,
     TurnRight, ReturnFromLeft, ReturnedFromLeft, Marking, memory
<1>2. p = HeapEnd - 1
  BY <1>1 DEF MarkInv, TypeOK, Marking
<1>3. Swept = {} /\ Swept' = {}
  BY <1>1, <1>2, HeapEndAssumption DEF Swept, Cell
<1>4. Released' = Released /\ Used0' = Used0
  BY <1>1, <1>3 DEF Released, Used0
<1>5. QED
  BY <1>1, <1>4 DEF SweepsGarbage, Marking

LEMMA SweepStep == MarkInv /\ SweepsGarbage /\ [Next]_vars => SweepsGarbage'
<1> SUFFICES ASSUME MarkInv, SweepsGarbage, [Next]_vars PROVE SweepsGarbage'
  OBVIOUS
<1>0. TypeOK
  BY DEF MarkInv
<1>1. CASE Mark /\ Marking'
  BY <1>1, MarkingStep
<1>2. CASE Mark /\ ~Marking'
  <2>1. TakeRoot /\ ~(root < NRoots)
    BY <1>2 DEF Mark, TakeRoot, GoDown, LeftCompleted, ReturnFromRight, MarkCompleted,
       TurnRight, ReturnFromLeft, ReturnedFromLeft, Marking
  <2>2. QED
    BY <2>1, SweepStart
<1>3. CASE SweepMarked /\ SweepNext
  BY <1>0, <1>3, SweepMarkedStep
<1>4. CASE SweepUnmarked /\ SweepNext
  BY <1>0, <1>4, SweepUnmarkedStep
<1>5. CASE SweepGlobals
  BY <1>0, <1>5, SweepGlobalsStep
<1>6. CASE UNCHANGED vars
  <2>1. Live0' = Live0
    BY <1>6 DEF Live0, Roots, Root, vars
  <2>2. Swept' = Swept
    BY <1>6, <2>1 DEF Swept, vars
  <2>3. Released' = Released /\ Used0' = Used0
    BY <1>6, <2>2 DEF Released, Used0, vars
  <2>4. UNCHANGED <<type, car, cdr, mark, flip, free_cells, used, pc, p, heap0>>
    BY <1>6 DEF vars
  <2>5. QED
    BY <2>1, <2>2, <2>3, <2>4 DEF SweepsGarbage
<1>7. QED
  BY <1>1, <1>2, <1>3, <1>4, <1>5, <1>6 DEF Next, Sweep

\* The sweep puts exactly the unreachable cells on the free list, in order of
\* address, releases exactly the blocks of dead vectors and alters nothing else.
THEOREM SweepsExactlyGarbage == Spec => []SweepsGarbage
<1>1. Spec => [](MarkInv /\ SweepsGarbage)
  BY MarkInvInit, MarkInvStep, SweepInit, SweepStep, PTL DEF Spec
<1>2. QED
  BY <1>1, PTL
-----------------------------------------------------------------------------
(***************************************************************************)
(* Refinement.                                                             *)
(***************************************************************************)

\* The abstract collector keeps the cells that the roots of mm_gc() reach.
LEMMA SameLive ==
  ASSUME TypeOK, ~Collected
  PROVE  GC!Live = Live0
<1> DEFINE registers == {regs[i] : i \in 1 .. NRegs}
<1>1. Roots(NRoots) \cap Cell = (ReservedCell \cup registers) \cap Cell
  <2>1. ASSUME NEW c \in Roots(NRoots) PROVE c \in ReservedCell \cup registers \/ c \notin Cell
    <3>1. PICK i \in 1 .. NRoots : c = Root(i)
      BY <2>1 DEF Roots
    <3>2. CASE i <= Reserved
      BY <3>1, <3>2, ReservedAssumption, NRegsAssumption, HeapEndAssumption
      DEF Root, ReservedCell, Cell, NRoots
    <3>3. CASE ~(i <= Reserved)
      <4>1. c = regs[i - Reserved] /\ i - Reserved \in 1 .. NRegs
        BY <3>1, <3>3, ReservedAssumption, NRegsAssumption DEF Root, NRoots
      <4>2. QED
        BY <4>1
    <3>4. QED
      BY <3>2, <3>3
  <2>2. ASSUME NEW c \in ReservedCell PROVE c \in Roots(NRoots)
    <3>1. c + 1 \in 1 .. NRoots /\ Root(c + 1) = c
      BY <2>2, ReservedAssumption, NRegsAssumption, HeapEndAssumption
      DEF ReservedCell, Cell, NRoots, Root
    <3>2. QED
      BY <3>1 DEF Roots
  <2>3. ASSUME NEW i \in 1 .. NRegs PROVE regs[i] \in Roots(NRoots)
    <3>1. Reserved + i \in 1 .. NRoots /\ Root(Reserved + i) = regs[i]
      BY <2>3, ReservedAssumption, NRegsAssumption DEF NRoots, Root
    <3>2. QED
      BY <3>1 DEF Roots
  <2>4. QED
    BY <2>1, <2>2, <2>3
<1>2. GC!Live = Reachable(ReservedCell \cup registers, heap0.type, heap0.car, heap0.cdr)
  BY DEF GC!Live, Collected, GC!Reachable, Reachable, GC!Cell, Cell, GC!ReservedCell, ReservedCell,
     GC!Closed, Closed, GC!LinksOf, LinksOf, GC!HasLeftLinkTypes, HasLeftLinkTypes,
     GC!HasRightLinkTypes, HasRightLinkTypes, GC!CONS_TYPE, GC!CONTINUATION_TYPE,
     GC!CLOSURE_TYPE, GC!BIGNUM_TYPE, GC!STRING_TYPE, CONS_TYPE, CONTINUATION_TYPE,
     CLOSURE_TYPE, BIGNUM_TYPE, STRING_TYPE
<1>3. QED
  BY <1>1, <1>2 DEF Live0, Reachable
LEMMA RefinesInit == Init => GC!AInit
<1> SUFFICES ASSUME Init PROVE GC!AInit
  OBVIOUS
<1>1. ~Collected
  BY DEF Init, Collected
<1>2. heap0 \in [type : [Cell -> Type], car : [Cell -> Value], cdr : [Cell -> Value]]
  BY TypeInit DEF TypeOK
<1>3. {regs[i] : i \in 1 .. NRegs} \subseteq Value
  BY DEF Init
<1>4. Used0 \subseteq Cell
  <2>1. ASSUME NEW c \in Cell, type[c] = VECTOR_TYPE PROVE c - 1 \in Cell
    <3>1. VECTOR_TYPE \in TypesAt[c]
      BY <2>1 DEF Init
    <3>2. c # 0
      BY <3>1, TypesAtAssumption
    <3>3. QED
      BY <3>2, HeapEndAssumption DEF Cell
  <2>2. heap0.type = type
    BY DEF Init, heap
  <2>3. QED
    BY <2>1, <2>2 DEF Used0, OwnStart
<1>5. QED
  BY <1>1, <1>2, <1>3, <1>4
  DEF GC!AInit, GC!Cell, Cell, GC!Value, Value, GC!Type, Type, GC!HasLeftLinkTypes, HasLeftLinkTypes,
      GC!HasRightLinkTypes, HasRightLinkTypes, GC!CONS_TYPE, GC!CONTINUATION_TYPE,
      GC!CLOSURE_TYPE, GC!BIGNUM_TYPE, GC!STRING_TYPE, GC!FIXNUM_TYPE, GC!CSTRING_TYPE,
      GC!VECTOR_TYPE, GC!SYMBOL_TYPE, CONS_TYPE, CONTINUATION_TYPE, CLOSURE_TYPE, BIGNUM_TYPE,
      STRING_TYPE, FIXNUM_TYPE, CSTRING_TYPE, VECTOR_TYPE, SYMBOL_TYPE

\* Everything the collector promises holds when mm_gc() returns.
LEMMA RefinesLastStep ==
  ASSUME TypeOK, TypeOK', SweepsGarbage', ~Collected, Collected', UNCHANGED <<heap0, regs>>
  PROVE  GC!Collect
<1>1. Live0' = Live0 /\ Live0 \subseteq Cell /\ Used0' = Used0
  BY DEF Live0, Roots, Root, Reachable, Used0
<1>2. pc' = "done" /\ p' = -1
  BY DEF Collected, TypeOK
<1>3. Swept' = Cell \ Live0
  <2>1. \A c \in Cell : c > -1
    BY HeapEndAssumption DEF Cell
  <2>2. \A c \in Cell \ Live0 : c >= Reserved
    BY ReservedLive, ReservedAssumption, HeapEndAssumption DEF ReservedCell, Cell
  <2>3. Swept' = {c \in Cell \ Live0 : c >= Reserved /\ c > -1}
    BY <1>1, <1>2 DEF Swept
  <2>4. QED
    BY <2>1, <2>2, <2>3
<1>4. GC!Live = Live0 /\ GC!Garbage = Swept'
  BY <1>3, SameLive DEF GC!Garbage, GC!Cell, Cell
<1>5. /\ \A c \in Cell \ Swept' :
           type'[c] = heap0.type[c] /\ car'[c] = heap0.car[c] /\ cdr'[c] = heap0.cdr[c]
      /\ \A c \in Swept' : type'[c] # VECTOR_TYPE /\ cdr'[c] = NextIn(Swept', c + 1)
      /\ free_cells' = NextIn(Swept', 0)
      /\ mark' = {c \in Live0 : c <= -1}
      /\ flip' = {}
      /\ used' = Used0 \ Released'
  BY <1>1, <1>2 DEF SweepsGarbage
<1>6. free_cells' = GC!NextIn(GC!Garbage, 0)
  BY <1>4, <1>5 DEF GC!NextIn, NextIn, GC!Lowest, Lowest
<1>7. \A c \in Cell :
        IF c \in GC!Live
        THEN /\ heap'.type[c] = heap0.type[c]
             /\ heap'.car[c]  = heap0.car[c]
             /\ heap'.cdr[c]  = heap0.cdr[c]
        ELSE /\ heap'.type[c] # VECTOR_TYPE
             /\ heap'.cdr[c]  = GC!NextIn(GC!Garbage, c + 1)
  <2>1. heap'.type = type' /\ heap'.car = car' /\ heap'.cdr = cdr'
    BY DEF heap
  <2>2. \A c \in Swept' : cdr'[c] = GC!NextIn(GC!Garbage, c + 1)
    BY <1>4, <1>5 DEF GC!NextIn, NextIn, GC!Lowest, Lowest
  <2>3. QED
    BY <1>3, <1>4, <1>5, <2>1, <2>2
<1>8. used' = Used0 \ GC!Blocks(GC!Garbage)
  <2>1. \A v \in Swept' : heap0.type[v] = VECTOR_TYPE => heap0.cdr[v] = OwnStart(v)
    BY <1>3 DEF TypeOK
  <2>2. GC!Blocks(GC!Garbage) = Released'
    BY <1>4, <2>1 DEF GC!Blocks, Released, Collected, GC!VECTOR_TYPE, VECTOR_TYPE
  <2>3. QED
    BY <1>5, <2>2
<1>9. mark' \cup flip' = {}
  <2>1. \A c \in Live0 : ~(c <= -1)
    BY <1>1, HeapEndAssumption DEF Cell
  <2>2. QED
    BY <1>5, <2>1
<1>10. QED
  BY <1>6, <1>7, <1>8, <1>9 DEF GC!Collect, Collected, GC!Cell, Cell, GC!VECTOR_TYPE, VECTOR_TYPE

\* The steps of mm_gc() before the last one are stuttering steps.
LEMMA RefinesStep ==
  TypeOK /\ TypeOK' /\ SweepsGarbage' /\ [Next]_vars => [GC!Collect]_(GC!avars)
<1> SUFFICES ASSUME TypeOK, TypeOK', SweepsGarbage', [Next]_vars
             PROVE  GC!Collect \/ UNCHANGED GC!avars
  OBVIOUS
<1>1. UNCHANGED <<heap0, regs>> /\ Used0' = Used0
  BY DEF Next, Mark, TakeRoot, GoDown, LeftCompleted, ReturnFromRight, MarkCompleted,
     TurnRight, ReturnFromLeft, ReturnedFromLeft, Sweep, SweepNext, SweepGlobals, vars, Used0
<1>2. CASE ~Collected /\ Collected'
  BY <1>1, <1>2, RefinesLastStep
<1>3. CASE ~Collected /\ ~Collected'
  BY <1>1, <1>3 DEF GC!avars, Collected
<1>4. CASE Collected
  <2>1. UNCHANGED vars
    BY <1>4 DEF Collected, Next, Mark, TakeRoot, GoDown, LeftCompleted, ReturnFromRight,
       MarkCompleted, TurnRight, ReturnFromLeft, ReturnedFromLeft, Sweep, SweepMarked,
       SweepUnmarked, SweepGlobals
  <2>2. QED
    BY <1>1, <2>1 DEF vars, GC!avars, Collected, heap
<1>5. QED
  BY <1>2, <1>3, <1>4

\* mm_gc() does in many steps what the atomic collector does in one.
THEOREM MarkSweepImplementsCollector == Spec => Implements
<1>1. Spec => [](TypeOK /\ SweepsGarbage)
  BY TypeCorrect, SweepsExactlyGarbage, PTL
<1>2. QED
  BY <1>1, RefinesInit, RefinesStep, PTL DEF Spec, Implements, GC!ASpec
=============================================================================
