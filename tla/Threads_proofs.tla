--------------------------- MODULE Threads_proofs ---------------------------
(***************************************************************************)
(* Proofs about Threads, for any threads and any number of cells.          *)
(***************************************************************************)
EXTENDS Threads, SequenceTheorems, TLAPS

-----------------------------------------------------------------------------
(* The three ways in which the procedures rearrange a sequence. *)

\* What spawn makes of the list of cells.
LEMMA PutSecond ==
  ASSUME NEW T, NEW s \in Seq(T), s # <<>>, NEW a \in T, NEW b \in T
  PROVE  LET t == <<a, b>> \o Tail(s)
         IN /\ t \in Seq(T)
            /\ Len(t) = Len(s) + 1
            /\ t[1] = a /\ t[2] = b
            /\ \A i \in 3 .. Len(s) + 1 : t[i] = s[i - 1]
<1>1. Tail(s) \in Seq(T) /\ Len(Tail(s)) = Len(s) - 1 /\ \A i \in 1 .. Len(s) - 1 : Tail(s)[i] = s[i + 1]
  OBVIOUS
<1>2. <<a, b>> \in Seq(T) /\ Len(<<a, b>>) = 2
  OBVIOUS
<1> QED  BY <1>1, <1>2

\* What exit makes of it.
LEMMA DropSecond ==
  ASSUME NEW T, NEW s \in Seq(T), Len(s) > 1, NEW a \in T
  PROVE  LET t == <<a>> \o Tail(Tail(s))
         IN /\ t \in Seq(T)
            /\ Len(t) = Len(s) - 1
            /\ t[1] = a
            /\ \A i \in 2 .. Len(s) - 1 : t[i] = s[i + 1]
<1>1. Tail(s) \in Seq(T) /\ Len(Tail(s)) = Len(s) - 1 /\ \A i \in 1 .. Len(s) - 1 : Tail(s)[i] = s[i + 1]
  OBVIOUS
<1>2. /\ Tail(Tail(s)) \in Seq(T) /\ Len(Tail(Tail(s))) = Len(s) - 2
      /\ \A i \in 1 .. Len(s) - 2 : Tail(Tail(s))[i] = s[i + 2]
  BY <1>1
<1>3. <<a>> \in Seq(T) /\ Len(<<a>>) = 1
  OBVIOUS
<1> QED  BY <1>2, <1>3

\* What yield makes of it.
LEMMA Rotated ==
  ASSUME NEW T, NEW s \in Seq(T), s # <<>>, NEW a \in T
  PROVE  LET t == Append(Tail(s), a)
         IN /\ t \in Seq(T)
            /\ Len(t) = Len(s)
            /\ t[Len(s)] = a
            /\ \A i \in 1 .. Len(s) - 1 : t[i] = s[i + 1]
<1>1. Tail(s) \in Seq(T) /\ Len(Tail(s)) = Len(s) - 1 /\ \A i \in 1 .. Len(s) - 1 : Tail(s)[i] = s[i + 1]
  OBVIOUS
<1> QED  BY <1>1

-----------------------------------------------------------------------------
(***************************************************************************)
(* The inductive invariant: the ring, the types, and where the first       *)
(* thread is once root-k has been entered.                                 *)
(***************************************************************************)
Typed ==
  /\ Allocated \subseteq Cell
  /\ car \in [Allocated -> Thread \cup {None}]
  /\ cdr \in [Allocated -> Cell]
  /\ running \in Thread \cup {None}
  /\ born \subseteq Thread
  /\ order \in Seq(Cell)

Unstarted == born = {} => order = <<>> /\ root = 0 /\ running = First

FirstLives ==
  /\ root \in 0 .. 1
  /\ root = 1 => running \in {First, None} \/ \E i \in 2 .. Len(order) : car[order[i]] = First

Inv == Typed /\ Unstarted /\ FirstLives /\ QueueIsRing

\* The invariant holds before there are threads.
LEMMA InitInv == Init => Inv
<1> SUFFICES ASSUME Init PROVE Inv
  OBVIOUS
<1>1. Typed
  BY ThreadAssumption DEF Init, Typed, Allocated
<1> QED  BY <1>1 DEF Init, Inv, Unstarted, FirstLives, QueueIsRing

\* There is a cell to take, and it is none of those in use.
LEMMA NewCellIsNew ==
  ASSUME Typed, Room
  PROVE  NewCell \in Cell \ Allocated
<1>1. \E c \in Cell : c \notin Allocated
  BY DEF Typed, Room
<1> QED  BY <1>1 DEF NewCell

\* start-first-process makes a ring of one cell.
LEMMA StartInv == Inv /\ StartFirstProcess => Inv'
<1> SUFFICES ASSUME Inv, StartFirstProcess PROVE Inv'
  OBVIOUS
<1>1. NewCell \in Cell \ Allocated
  BY NewCellIsNew DEF Inv, StartFirstProcess
<1> DEFINE c == NewCell
<1>2. /\ Allocated' = Allocated \cup {c}
      /\ car'[c] = None /\ cdr'[c] = c
      /\ order' = <<c>> /\ readyq' = c
      /\ running' = First /\ root' = 0 /\ born' = born \cup {First}
  BY DEF StartFirstProcess, Allocated
<1>3. order' \in Seq(Cell) /\ Len(order') = 1 /\ order'[1] = c /\ DOMAIN order' = {1} /\ order' # <<>>
  BY <1>1, <1>2
<1> HIDE DEF c
<1>4. Typed'
  <2>1. car' \in [Allocated' -> Thread \cup {None}]
    BY <1>1, <1>2 DEF Inv, Typed, StartFirstProcess, Allocated, c
  <2>2. cdr' \in [Allocated' -> Cell]
    BY <1>1, <1>2 DEF Inv, Typed, StartFirstProcess, Allocated, c
  <2> QED  BY <1>1, <1>2, <1>3, <2>1, <2>2, ThreadAssumption DEF Inv, Typed, c
<1>5. QueueIsRing'
  BY <1>2, <1>3 DEF QueueIsRing, Successor
<1>6. Unstarted' /\ FirstLives'
  BY <1>2 DEF Unstarted, FirstLives
<1> QED  BY <1>4, <1>5, <1>6 DEF Inv

(***************************************************************************)
(* The ring in the form in which the steps below use it: by the positions  *)
(* of the list, the last one apart.                                        *)
(***************************************************************************)
Linear ==
  /\ order \in Seq(Cell) /\ Len(order) \in Nat \ {0} /\ order # <<>>
  /\ readyq = order[1]
  /\ car[readyq] = None
  /\ \A i \in 1 .. Len(order) : order[i] \in Allocated /\ order[i] \in Cell
  /\ \A i \in 1 .. Len(order) - 1 : cdr[order[i]] = order[i + 1]
  /\ cdr[order[Len(order)]] = order[1]
  /\ \A i, j \in 1 .. Len(order) : order[i] = order[j] => i = j
  /\ \A i \in 2 .. Len(order) : car[order[i]] \in born \ {running}
  /\ \A i, j \in 2 .. Len(order) : car[order[i]] = car[order[j]] => i = j

\* The positions before the last one are those that have a next one.
LEMMA BeforeLast ==
  ASSUME NEW n \in Nat \ {0}
  PROVE  /\ \A i \in 1 .. n : i # n => i \in 1 .. n - 1 /\ i + 1 \in 2 .. n
         /\ \A i \in 1 .. n - 1 : i \in 1 .. n /\ i # n /\ i + 1 \in 2 .. n
         /\ \A i \in 2 .. n : i \in 1 .. n /\ i - 1 \in 1 .. n - 1 /\ (i - 1) + 1 = i
         /\ 1 \in 1 .. n /\ n \in 1 .. n
  OBVIOUS

\* The ring, read by positions.
LEMMA RingIsLinear == Inv /\ born # {} => Linear
<1> SUFFICES ASSUME Inv, born # {} PROVE Linear
  OBVIOUS
<1>1. order \in Seq(Cell) /\ order # <<>>
  BY DEF Inv, Typed, QueueIsRing
<1>2. Len(order) \in Nat \ {0} /\ DOMAIN order = 1 .. Len(order)
  BY <1>1
<1>3. \A i \in 1 .. Len(order) : order[i] \in Cell
  BY <1>1
<1>4. \A i \in 1 .. Len(order) : order[i] \in Allocated /\ cdr[order[i]] = Successor(i)
  BY <1>2 DEF Inv, QueueIsRing
<1>5. \A i \in 1 .. Len(order) - 1 : Successor(i) = order[i + 1]
  BY <1>2, BeforeLast DEF Successor
<1>6. Successor(Len(order)) = order[1]
  BY DEF Successor
<1>7. \A i \in 1 .. Len(order) - 1 : cdr[order[i]] = order[i + 1]
  BY <1>2, <1>4, <1>5, BeforeLast
<1>8. cdr[order[Len(order)]] = order[1]
  BY <1>2, <1>4, <1>6
<1>9. \A i, j \in 1 .. Len(order) : order[i] = order[j] => i = j
  BY <1>2 DEF Inv, QueueIsRing
<1>10. /\ readyq = order[1] /\ car[readyq] = None
       /\ \A i \in 2 .. Len(order) : car[order[i]] \in born \ {running}
       /\ \A i, j \in 2 .. Len(order) : car[order[i]] = car[order[j]] => i = j
  BY DEF Inv, QueueIsRing
<1> QED  BY <1>1, <1>2, <1>3, <1>4, <1>7, <1>8, <1>9, <1>10 DEF Linear

\* And back.
LEMMA LinearIsRing == Linear => QueueIsRing
<1> SUFFICES ASSUME Linear PROVE QueueIsRing
  OBVIOUS
<1>1. DOMAIN order = 1 .. Len(order) /\ Len(order) \in Nat \ {0}
  BY DEF Linear
<1>2. \A i \in 1 .. Len(order) : cdr[order[i]] = Successor(i)
  <2> TAKE i \in 1 .. Len(order)
  <2>1. CASE i = Len(order)
    BY <2>1 DEF Linear, Successor
  <2>2. CASE i # Len(order)
    <3>1. i \in 1 .. Len(order) - 1
      BY <1>1, <2>2, BeforeLast
    <3> QED  BY <3>1, <2>2 DEF Linear, Successor
  <2> QED  BY <2>1, <2>2
<1>3. \A i \in DOMAIN order : order[i] \in Allocated /\ cdr[order[i]] = Successor(i)
  BY <1>1, <1>2 DEF Linear
<1>4. \A i, j \in DOMAIN order : order[i] = order[j] => i = j
  BY <1>1 DEF Linear
<1> QED  BY <1>3, <1>4 DEF Linear, QueueIsRing

-----------------------------------------------------------------------------
(* The procedures of the library, one by one. *)

\* spawn puts its new cell between readyq and the next one.
LEMMA SpawnInv == Inv /\ (\E t \in Thread : spawn(t)) => Inv'
<1> SUFFICES ASSUME Inv, NEW t \in Thread, spawn(t) PROVE Inv'
  OBVIOUS
<1>1. NewCell \in Cell \ Allocated
  BY NewCellIsNew DEF Inv, spawn
<1> DEFINE c == NewCell
<1> DEFINE n == Len(order)
<1>2. Linear /\ n \in Nat \ {0} /\ readyq \in Allocated /\ readyq \in Cell /\ readyq = order[1]
  <2>1. Linear
    BY RingIsLinear DEF spawn
  <2> QED  BY <2>1 DEF Linear
<1>3. /\ order' \in Seq(Cell) /\ Len(order') = n + 1
      /\ order'[1] = readyq /\ order'[2] = c
      /\ \A i \in 3 .. n + 1 : order'[i] = order[i - 1]
  BY <1>1, <1>2, PutSecond DEF Linear, spawn
<1>4. /\ Allocated' = Allocated \cup {c} /\ readyq' = readyq /\ root' = root
      /\ running' = t /\ t \notin born /\ born' = born \cup {t} /\ running \in born
      /\ car'[c] = running /\ \A d \in Allocated : car'[d] = car[d]
      /\ cdr'[readyq] = c /\ cdr'[c] = cdr[readyq]
      /\ \A d \in Allocated : d # readyq => cdr'[d] = cdr[d]
  BY <1>1, <1>2 DEF spawn, Allocated, Linked
<1>5. Typed'
  <2>1. car' \in [Allocated' -> Thread \cup {None}]
    BY <1>1, <1>4 DEF Inv, Typed, spawn, Allocated
  <2>2. cdr' \in [Allocated' -> Cell]
    BY <1>1, <1>2, <1>4 DEF Inv, Typed, spawn, Allocated, Linked
  <2> QED  BY <1>1, <1>3, <1>4, <2>1, <2>2 DEF Inv, Typed
<1> HIDE DEF c, n
<1>6. c \in Cell /\ c \notin Allocated
  BY <1>1 DEF c
<1>7. \A i \in 1 .. n : order[i] \in Allocated /\ order[i] \in Cell
  BY <1>2 DEF Linear, n
<1>8. \A i \in 2 .. n : order[i] # readyq /\ order[i] \in Allocated
  BY <1>2, BeforeLast DEF Linear, n
<1>9. \A i \in 3 .. n + 1 : i - 1 \in 2 .. n
  BY <1>2
<1>10. \A i \in 1 .. n + 1 : i = 1 \/ i = 2 \/ i \in 3 .. n + 1
  BY <1>2
<1>11. Linear'
  <2>1. order' \in Seq(Cell) /\ Len(order') \in Nat \ {0} /\ order' # <<>>
    BY <1>2, <1>3
  <2>2. readyq' = order'[1] /\ car'[readyq'] = None
    BY <1>2, <1>3, <1>4 DEF Linear
  <2>3. \A i \in 1 .. n + 1 : order'[i] \in Allocated' /\ order'[i] \in Cell
    <3>1. readyq \in Allocated /\ readyq \in Cell
      BY <1>2, <1>7, BeforeLast DEF Linear
    <3>2. ASSUME NEW i \in 3 .. n + 1 PROVE order'[i] \in Allocated /\ order'[i] \in Cell
      <4>1. i - 1 \in 1 .. n
        BY <1>9, <1>2, BeforeLast
      <4> QED  BY <1>3, <1>7, <4>1
    <3> QED  BY <1>3, <1>4, <1>6, <1>10, <3>1, <3>2
  <2>4. \A i \in 1 .. n : cdr'[order'[i]] = order'[i + 1]
    <3> TAKE i \in 1 .. n
    <3>1. CASE i = 1
      BY <3>1, <1>3, <1>4
    <3>2. CASE i = 2
      <4>1. cdr[readyq] = order[2] /\ order'[3] = order[2]
        BY <3>2, <1>2, <1>3 DEF Linear, n
      <4> QED  BY <3>2, <4>1, <1>3, <1>4
    <3>3. CASE i # 1 /\ i # 2
      <4>1. i \in 3 .. n + 1 /\ i + 1 \in 3 .. n + 1 /\ (i + 1) - 1 = i /\ i - 1 \in 2 .. n /\ i - 1 \in 1 .. n - 1
        BY <3>3, <1>2
      <4>2. cdr[order[i - 1]] = order[i]
        BY <4>1, <1>2 DEF Linear, n
      <4> QED  BY <4>1, <4>2, <1>3, <1>4, <1>8
    <3> QED  BY <3>1, <3>2, <3>3
  <2>5. cdr'[order'[n + 1]] = order'[1]
    <3>1. CASE n = 1
      BY <3>1, <1>2, <1>3, <1>4 DEF Linear, n
    <3>2. CASE n # 1
      <4>1. n + 1 \in 3 .. n + 1 /\ (n + 1) - 1 = n /\ n \in 2 .. n
        BY <3>2, <1>2
      <4> QED  BY <4>1, <1>2, <1>3, <1>4, <1>8 DEF Linear, n
    <3> QED  BY <3>1, <3>2
  <2>6. \A i, j \in 1 .. n + 1 : order'[i] = order'[j] => i = j
    <3>1. \A i \in 3 .. n + 1 : order'[i] # c /\ order'[i] # readyq
      BY <1>3, <1>6, <1>8, <1>9
    <3>2. c # readyq
      BY <1>2, <1>6
    <3>3. \A i, j \in 3 .. n + 1 : order'[i] = order'[j] => i = j
      <4> SUFFICES ASSUME NEW i \in 3 .. n + 1, NEW j \in 3 .. n + 1, order'[i] = order'[j] PROVE i = j
        OBVIOUS
      <4>1. order[i - 1] = order[j - 1] /\ i - 1 \in 1 .. n /\ j - 1 \in 1 .. n
        BY <1>2, <1>3
      <4>2. i - 1 = j - 1
        BY <4>1, <1>2 DEF Linear, n
      <4> QED  BY <4>2
    <3> QED  BY <3>1, <3>2, <3>3, <1>3, <1>10
  <2>7. \A i \in 3 .. n + 1 : car'[order'[i]] = car[order[i - 1]] /\ car[order[i - 1]] \in born \ {running}
    BY <1>2, <1>3, <1>4, <1>8, <1>9 DEF Linear, n
  <2>8. \A i \in 2 .. n + 1 : car'[order'[i]] \in born' \ {running'}
    <3> TAKE i \in 2 .. n + 1
    <3>1. i = 2 \/ i \in 3 .. n + 1
      BY <1>2
    <3> QED  BY <3>1, <2>7, <1>3, <1>4
  <2>9. \A i, j \in 2 .. n + 1 : car'[order'[i]] = car'[order'[j]] => i = j
    <3>1. \A i, j \in 3 .. n + 1 : car'[order'[i]] = car'[order'[j]] => i = j
      <4> SUFFICES ASSUME NEW i \in 3 .. n + 1, NEW j \in 3 .. n + 1, car'[order'[i]] = car'[order'[j]]
                   PROVE  i = j
        OBVIOUS
      <4>1. car[order[i - 1]] = car[order[j - 1]] /\ i - 1 \in 2 .. n /\ j - 1 \in 2 .. n
        BY <2>7, <1>9
      <4>2. i - 1 = j - 1
        BY <4>1, <1>2 DEF Linear, n
      <4> QED  BY <4>2
    <3>2. car'[order'[2]] = running
      BY <1>3, <1>4
    <3>3. \A i \in 2 .. n + 1 : i = 2 \/ i \in 3 .. n + 1
      BY <1>2
    <3> QED  BY <3>1, <3>2, <3>3, <2>7
  <2> HIDE DEF n
  <2>10. Len(order') = n + 1 /\ (n + 1) - 1 = n
    BY <1>2, <1>3
  <2> QED  BY <2>1, <2>2, <2>3, <2>4, <2>5, <2>6, <2>8, <2>9, <2>10 DEF Linear
<1>12. QueueIsRing'
  BY <1>11, LinearIsRing, PTL
<1>13. FirstLives'
  <2>1. root' \in 0 .. 1
    BY <1>4 DEF Inv, FirstLives
  <2>2. ASSUME root = 1 PROVE \E i \in 2 .. Len(order') : car'[order'[i]] = First
    <3>1. running # None
      BY <1>4, ThreadAssumption DEF Inv, Typed
    <3>2. CASE running = First
      <4>1. 2 \in 2 .. Len(order') /\ car'[order'[2]] = First
        BY <3>2, <1>2, <1>3, <1>4
      <4> QED  BY <4>1
    <3>3. CASE running # First
      <4>1. PICK i \in 2 .. n : car[order[i]] = First
        BY <2>2, <3>1, <3>3 DEF Inv, FirstLives, n
      <4>2. i + 1 \in 2 .. Len(order') /\ i + 1 \in 3 .. n + 1 /\ (i + 1) - 1 = i
        BY <1>2, <1>3
      <4>3. car'[order'[i + 1]] = First
        BY <4>1, <4>2, <1>3, <1>4, <1>8
      <4> QED  BY <4>2, <4>3
    <3> QED  BY <3>2, <3>3
  <2> QED  BY <2>1, <2>2, <1>4 DEF FirstLives
<1> QED  BY <1>4, <1>5, <1>12, <1>13 DEF Inv, Unstarted

\* exit takes out the cell behind readyq, whose thread runs.
LEMMA ExitInv == Inv /\ exit => Inv'
<1> SUFFICES ASSUME Inv, exit PROVE Inv'
  OBVIOUS
<1> DEFINE n == Len(order)
<1>1. Linear /\ n \in Nat \ {0} /\ readyq \in Allocated /\ readyq = order[1]
  <2>1. Linear
    BY RingIsLinear DEF exit
  <2> QED  BY <2>1 DEF Linear
<1>2. n > 1 /\ readyq \in Cell /\ order \in Seq(Cell)
  BY <1>1 DEF Linear, exit
<1>3. cdr[readyq] = order[2] /\ order[2] \in Allocated
  BY <1>1, <1>2 DEF Linear
<1>4. /\ order' \in Seq(Cell) /\ Len(order') = n - 1
      /\ order'[1] = readyq
      /\ \A i \in 2 .. n - 1 : order'[i] = order[i + 1]
  BY <1>2, DropSecond DEF exit
<1>5. /\ Allocated' = Allocated /\ readyq' = readyq /\ root' = root /\ car' = car /\ born' = born
      /\ running' = car[order[2]] /\ running \in born /\ (running = First => root = 0)
      /\ cdr'[readyq] = cdr[order[2]]
      /\ \A d \in Allocated : d # readyq => cdr'[d] = cdr[d]
  BY <1>1, <1>3 DEF exit, Allocated, Inv, Typed
<1>6. \A i \in 2 .. n : order[i] # readyq /\ order[i] \in Allocated /\ order[i] \in Cell
                        /\ car[order[i]] \in born \ {running}
  BY <1>1, BeforeLast DEF Linear
<1>7. Typed'
  <2>1. cdr' \in [Allocated' -> Cell]
    BY <1>1, <1>3 DEF exit, Allocated, Inv, Typed
  <2>2. running' \in Thread \cup {None}
    BY <1>2, <1>5, <1>6 DEF Inv, Typed
  <2> QED  BY <1>4, <1>5, <2>1, <2>2 DEF Inv, Typed
<1> HIDE DEF n
<1>8. Linear'
  <2>1. order' \in Seq(Cell) /\ Len(order') \in Nat \ {0} /\ order' # <<>>
    BY <1>1, <1>2, <1>4
  <2>2. readyq' = order'[1] /\ car'[readyq'] = None
    BY <1>1, <1>4, <1>5 DEF Linear
  <2>3. \A i \in 1 .. n - 1 : i = 1 \/ i \in 2 .. n - 1
    BY <1>1
  <2>4. \A i \in 2 .. n - 1 : i + 1 \in 2 .. n /\ i + 1 \in 3 .. n
    BY <1>1
  <2>5. \A i \in 1 .. n - 1 : order'[i] \in Allocated' /\ order'[i] \in Cell
    <3> TAKE i \in 1 .. n - 1
    <3>1. CASE i = 1
      BY <3>1, <1>1, <1>2, <1>4, <1>5
    <3>2. CASE i # 1
      BY <3>2, <1>4, <1>5, <1>6, <2>3, <2>4
    <3> QED  BY <3>1, <3>2
  <2>6. \A i \in 1 .. n - 2 : cdr'[order'[i]] = order'[i + 1]
    <3> TAKE i \in 1 .. n - 2
    <3>1. i + 1 \in 2 .. n - 1 /\ i + 1 \in 1 .. n - 1 /\ (i + 1) + 1 = i + 2
      BY <1>1
    <3>2. cdr[order[i + 1]] = order[i + 2] /\ order'[i + 1] = order[i + 2]
      BY <1>1, <1>4, <3>1 DEF Linear, n
    <3>3. CASE i = 1
      BY <3>2, <3>3, <1>4, <1>5
    <3>4. CASE i # 1
      <4>1. i \in 2 .. n - 1
        BY <3>4, <1>1
      <4> QED  BY <4>1, <2>4, <3>2, <1>4, <1>5, <1>6
    <3> QED  BY <3>3, <3>4
  <2>7. cdr'[order'[n - 1]] = order'[1]
    <3>1. CASE n = 2
      BY <3>1, <1>1, <1>4, <1>5 DEF Linear, n
    <3>2. CASE n # 2
      <4>1. n - 1 \in 2 .. n - 1 /\ (n - 1) + 1 = n /\ n \in 2 .. n
        BY <3>2, <1>1, <1>2
      <4> QED  BY <4>1, <1>1, <1>4, <1>5, <1>6 DEF Linear, n
    <3> QED  BY <3>1, <3>2
  <2>8. \A i, j \in 1 .. n - 1 : order'[i] = order'[j] => i = j
    <3>1. \A i, j \in 2 .. n - 1 : order'[i] = order'[j] => i = j
      <4> SUFFICES ASSUME NEW i \in 2 .. n - 1, NEW j \in 2 .. n - 1, order'[i] = order'[j] PROVE i = j
        OBVIOUS
      <4>1. order[i + 1] = order[j + 1] /\ i + 1 \in 1 .. n /\ j + 1 \in 1 .. n
        BY <1>1, <1>4
      <4>2. i + 1 = j + 1
        BY <4>1, <1>1 DEF Linear, n
      <4> QED  BY <4>2
    <3>2. \A i \in 2 .. n - 1 : order'[i] # readyq
      BY <1>4, <1>6, <2>4
    <3> QED  BY <3>1, <3>2, <2>3, <1>4
  <2>9. \A i \in 2 .. n - 1 : car'[order'[i]] = car[order[i + 1]]
    BY <1>4, <1>5
  <2>10. \A i \in 2 .. n - 1 : car'[order'[i]] \in born' \ {running'}
    <3> TAKE i \in 2 .. n - 1
    <3>1. i + 1 \in 2 .. n /\ i + 1 # 2 /\ 2 \in 2 .. n
      BY <1>1, <1>2
    <3>2. car[order[i + 1]] # car[order[2]]
      BY <3>1, <1>1 DEF Linear, n
    <3> QED  BY <3>1, <3>2, <2>9, <1>5, <1>6
  <2>11. \A i, j \in 2 .. n - 1 : car'[order'[i]] = car'[order'[j]] => i = j
    <3> SUFFICES ASSUME NEW i \in 2 .. n - 1, NEW j \in 2 .. n - 1, car'[order'[i]] = car'[order'[j]]
                 PROVE  i = j
      OBVIOUS
    <3>1. car[order[i + 1]] = car[order[j + 1]] /\ i + 1 \in 2 .. n /\ j + 1 \in 2 .. n
      BY <2>4, <2>9
    <3>2. i + 1 = j + 1
      BY <3>1, <1>1 DEF Linear, n
    <3> QED  BY <3>2
  <2>12. Len(order') = n - 1 /\ (n - 1) - 1 = n - 2
    BY <1>1, <1>4
  <2> QED  BY <2>1, <2>2, <2>5, <2>6, <2>7, <2>8, <2>10, <2>11, <2>12 DEF Linear
<1>9. QueueIsRing'
  BY <1>8, LinearIsRing, PTL
<1>10. FirstLives'
  <2>1. root' \in 0 .. 1
    BY <1>5 DEF Inv, FirstLives
  <2>2. ASSUME root = 1 PROVE running' = First \/ \E i \in 2 .. Len(order') : car'[order'[i]] = First
    <3>1. running # None /\ running # First
      BY <1>5, <2>2, ThreadAssumption DEF Inv, Typed
    <3>2. PICK i \in 2 .. n : car[order[i]] = First
      BY <2>2, <3>1 DEF Inv, FirstLives, n
    <3>3. CASE i = 2
      BY <3>2, <3>3, <1>5
    <3>4. CASE i # 2
      <4>1. i - 1 \in 2 .. n - 1 /\ (i - 1) + 1 = i
        BY <3>4, <1>1
      <4>2. car'[order'[i - 1]] = First
        BY <4>1, <3>2, <1>4, <1>5
      <4> QED  BY <4>1, <4>2, <1>4
    <3> QED  BY <3>3, <3>4
  <2> QED  BY <2>1, <2>2, <1>5 DEF FirstLives
<1> QED  BY <1>5, <1>7, <1>9, <1>10 DEF Inv, Unstarted

\* A list of more than one cell has a second one.
LEMMA SecondOfMore ==
  ASSUME NEW n \in Nat \ {0}, n # 1
  PROVE  1 \in 1 .. n - 1 /\ 1 \in 1 .. n /\ 2 \in 1 .. n /\ 2 \in 2 .. n /\ 1 + 1 = 2 /\ n > 1
  OBVIOUS

\* A cell that follows itself is the only one of its ring.
LEMMA AloneInRing ==
  ASSUME Linear, cdr[readyq] = readyq
  PROVE  Len(order) = 1
<1> DEFINE n == Len(order)
<1>1. n \in Nat \ {0} /\ readyq = order[1]
  BY DEF Linear
<1>2. \A i \in 1 .. n - 1 : cdr[order[i]] = order[i + 1]
  BY DEF Linear
<1>3. \A i, j \in 1 .. n : order[i] = order[j] => i = j
  BY DEF Linear
<1> HIDE DEF n
<1>4. CASE n # 1
  <2>1. 1 \in 1 .. n - 1 /\ 1 \in 1 .. n /\ 2 \in 1 .. n /\ 1 + 1 = 2
    BY <1>1, <1>4, SecondOfMore
  <2>2. order[1] = order[2]
    BY <1>1, <1>2, <2>1
  <2>3. 1 = 2
    BY <1>3, <2>1, <2>2
  <2> QED  BY <2>3
<1> QED  BY <1>4 DEF n

\* When exit finds the list empty, root-k has not been entered: the first thread would be
\* in the list, or running.
LEMMA LastLeavesRoot ==
  ASSUME Inv, exit_last
  PROVE  root = 0
<1>1. Linear
  BY RingIsLinear DEF exit_last
<1>2. Len(order) = 1
  BY <1>1, AloneInRing DEF exit_last
<1>3. running # First /\ running # None
  BY ThreadAssumption DEF exit_last, Inv, Typed
<1> QED  BY <1>2, <1>3 DEF Inv, FirstLives

\* exit with nobody to run leaves the list alone.
LEMMA ExitLastInv == Inv /\ exit_last => Inv'
<1> SUFFICES ASSUME Inv, exit_last PROVE Inv'
  OBVIOUS
<1>1. root = 0
  BY LastLeavesRoot
<1>2. UNCHANGED <<car, cdr, readyq, born, order>> /\ running' = First /\ root' = 1
  BY <1>1 DEF exit_last
<1>3. Linear
  BY RingIsLinear DEF exit_last
<1>4. Typed'
  BY <1>2, ThreadAssumption DEF Inv, Typed, Allocated
<1>5. Len(order) = 1
  BY <1>3, AloneInRing DEF exit_last
<1>6. QueueIsRing'
  BY <1>2, <1>5 DEF Inv, QueueIsRing, Successor, Allocated
<1> QED  BY <1>2, <1>4, <1>6 DEF Inv, Unstarted, FirstLives, exit_last

\* So does the thunk of the first thread when it returns.
LEMMA FirstReturnsInv == Inv /\ FirstReturns => Inv'
<1> SUFFICES ASSUME Inv, FirstReturns PROVE Inv'
  OBVIOUS
<1>1. UNCHANGED <<car, cdr, readyq, running, born, order>> /\ running = First /\ root' = 1 /\ born # {}
  BY DEF FirstReturns
<1>2. Typed' /\ QueueIsRing'
  BY <1>1 DEF Inv, Typed, QueueIsRing, Successor, Allocated
<1> QED  BY <1>1, <1>2 DEF Inv, Unstarted, FirstLives

\* And so does the end of the program.
LEMMA HaltInv == Inv /\ Halt => Inv'
<1> SUFFICES ASSUME Inv, Halt PROVE Inv'
  OBVIOUS
<1>1. UNCHANGED <<car, cdr, readyq, root, born, order>> /\ running' = None /\ root > 0
  BY DEF Halt
<1>2. born # {}
  BY <1>1 DEF Inv, Unstarted
<1>3. Typed'
  BY <1>1 DEF Inv, Typed, Allocated
<1>4. \A i \in 2 .. Len(order) : car[order[i]] \in born \ {None}
  BY <1>2, ThreadAssumption DEF Inv, Typed, QueueIsRing
<1>5. QueueIsRing'
  BY <1>1, <1>4 DEF Inv, QueueIsRing, Successor, Allocated
<1> QED  BY <1>1, <1>2, <1>3, <1>5 DEF Inv, Unstarted, FirstLives

\* yield turns the ring by one cell.
LEMMA YieldInv == Inv /\ yield => Inv'
<1> SUFFICES ASSUME Inv, yield PROVE Inv'
  OBVIOUS
<1> DEFINE n == Len(order)
<1>1. Linear /\ n \in Nat \ {0} /\ readyq \in Allocated /\ readyq \in Cell /\ readyq = order[1]
  <2>1. Linear
    BY RingIsLinear DEF yield
  <2> QED  BY <2>1 DEF Linear
<1>2. /\ order' \in Seq(Cell) /\ Len(order') = n
      /\ order'[n] = readyq
      /\ \A i \in 1 .. n - 1 : order'[i] = order[i + 1]
  BY <1>1, Rotated DEF Linear, yield
<1>3. \A i, j \in 1 .. n : order[i] = order[j] => i = j
  BY <1>1 DEF Linear
<1>4. \A i \in 1 .. n : order[i] \in Allocated /\ order[i] \in Cell
  BY <1>1 DEF Linear
<1>5. \A i \in 1 .. n - 1 : cdr[order[i]] = order[i + 1]
  BY <1>1 DEF Linear
<1>6. cdr[order[n]] = order[1]
  BY <1>1 DEF Linear
<1>7. \A i \in 2 .. n : order[i] # readyq /\ car[order[i]] \in born \ {running}
  BY <1>1, BeforeLast DEF Linear
<1>8. \A i, j \in 2 .. n : car[order[i]] = car[order[j]] => i = j
  BY <1>1 DEF Linear
<1> HIDE DEF n
<1>9. cdr[readyq] = order'[1] /\ cdr[readyq] \in Allocated
  <2>1. CASE n = 1
    BY <2>1, <1>1, <1>2, <1>6
  <2>2. CASE n # 1
    <3>1. 1 \in 1 .. n - 1 /\ 2 \in 1 .. n /\ 1 + 1 = 2
      BY <2>2, <1>1, SecondOfMore
    <3> QED  BY <3>1, <1>1, <1>2, <1>4, <1>5
  <2> QED  BY <2>1, <2>2
<1>10. /\ UNCHANGED <<cdr, born, root>> /\ Allocated' = Allocated
       /\ running \in born /\ readyq' = cdr[readyq]
       /\ car' \in [Allocated -> Thread \cup {None}]
       /\ car'[cdr[readyq]] = None
       /\ readyq # cdr[readyq] => car'[readyq] = running
       /\ \A d \in Allocated : d # readyq /\ d # cdr[readyq] => car'[d] = car[d]
       /\ readyq = cdr[readyq] => running' = running
       /\ readyq # cdr[readyq] => running' = car[cdr[readyq]]
  BY <1>1, <1>9 DEF Inv, Typed, yield, Allocated
<1>11. Typed'
  BY <1>2, <1>9, <1>10 DEF Inv, Typed
<1>12. CASE n = 1
  <2>1. cdr[readyq] = readyq /\ order'[1] = readyq
    BY <1>12, <1>1, <1>2, <1>6
  <2>2. Linear'
    <3>1. \A i \in 1 .. 1 : i = 1
      OBVIOUS
    <3>2. 1 .. 1 - 1 = {} /\ 2 .. 1 = {} /\ Len(order') = 1 /\ 1 \in Nat \ {0}
      BY <1>2, <1>12
    <3>3. order' # <<>>
      BY <1>2, <3>2
    <3>4. \A i \in 1 .. Len(order') - 1 : FALSE
      BY <3>2
    <3>5. \A i \in 2 .. Len(order') : FALSE
      BY <3>2
    <3> QED  BY <2>1, <3>1, <3>2, <3>3, <3>4, <3>5, <1>1, <1>2, <1>10 DEF Linear
  <2>3. QueueIsRing'
    BY <2>2, LinearIsRing, PTL
  <2>4. FirstLives'
    <3>1. \A i \in 2 .. Len(order) : FALSE
      BY <1>12 DEF n
    <3> QED  BY <2>1, <3>1, <1>10 DEF Inv, FirstLives
  <2> QED  BY <2>3, <2>4, <1>10, <1>11 DEF Inv, Unstarted
<1>13. CASE n # 1
  <2>1. 1 \in 1 .. n - 1 /\ 1 \in 1 .. n /\ 2 \in 1 .. n /\ 2 \in 2 .. n /\ 1 + 1 = 2 /\ n > 1
    BY <1>13, <1>1, SecondOfMore
  <2>2. cdr[readyq] = order[2] /\ order[2] # readyq
    BY <2>1, <1>1, <1>5, <1>7
  <2>3. /\ car'[order[2]] = None /\ car'[readyq] = running /\ running' = car[order[2]]
        /\ \A i \in 3 .. n : car'[order[i]] = car[order[i]]
    <3>1. \A i \in 3 .. n : order[i] # readyq /\ order[i] # order[2] /\ order[i] \in Allocated
      <4> TAKE i \in 3 .. n
      <4>1. i \in 2 .. n /\ i \in 1 .. n /\ i # 2
        BY <1>1
      <4> QED  BY <4>1, <2>1, <1>3, <1>4, <1>7
    <3> QED  BY <3>1, <2>2, <1>10
  <2>4. \A i \in 2 .. n : i = n \/ (i \in 2 .. n - 1 /\ i + 1 \in 3 .. n /\ i + 1 \in 2 .. n)
    BY <1>1
  <2>5. n \in 2 .. n /\ order'[n] = readyq
    BY <2>1, <1>1, <1>2
  <2>6. \A i \in 2 .. n - 1 : /\ order'[i] = order[i + 1] /\ i + 1 \in 2 .. n /\ i + 1 # 2
                              /\ car'[order'[i]] = car[order[i + 1]]
    <3> TAKE i \in 2 .. n - 1
    <3>1. i \in 1 .. n - 1 /\ i + 1 \in 3 .. n /\ i + 1 \in 2 .. n /\ i + 1 # 2
      BY <1>1
    <3> QED  BY <3>1, <1>2, <2>3
  <2>7. \A i \in 1 .. n : i = n \/ (i \in 1 .. n - 1 /\ i + 1 \in 1 .. n)
    BY <1>1
  <2>8. Linear'
    <3>1. order' \in Seq(Cell) /\ Len(order') \in Nat \ {0} /\ order' # <<>>
      BY <1>1, <1>2
    <3>2. readyq' = order'[1] /\ car'[readyq'] = None
      BY <1>9, <1>10
    <3>3. \A i \in 1 .. n : order'[i] \in Allocated' /\ order'[i] \in Cell
      BY <1>1, <1>2, <1>4, <1>10, <2>7
    <3>4. \A i \in 1 .. n - 1 : cdr'[order'[i]] = order'[i + 1]
      <4> TAKE i \in 1 .. n - 1
      <4>1. CASE i = n - 1
        <5>1. i + 1 = n /\ order'[i] = order[n]
          BY <4>1, <1>1, <1>2
        <5> QED  BY <5>1, <1>1, <1>2, <1>6, <1>10
      <4>2. CASE i # n - 1
        <5>1. i + 1 \in 1 .. n - 1 /\ order'[i] = order[i + 1] /\ order'[i + 1] = order[(i + 1) + 1]
          BY <4>2, <1>1, <1>2
        <5> QED  BY <5>1, <1>5, <1>10
      <4> QED  BY <4>1, <4>2
    <3>5. cdr'[order'[n]] = order'[1]
      BY <1>2, <1>9, <1>10
    <3>6. \A i, j \in 1 .. n : order'[i] = order'[j] => i = j
      <4>1. \A i \in 1 .. n - 1 : order'[i] = order[i + 1] /\ order'[i] # readyq
        <5> TAKE i \in 1 .. n - 1
        <5>1. i + 1 \in 2 .. n
          BY <1>1
        <5> QED  BY <5>1, <1>2, <1>7
      <4>2. \A i, j \in 1 .. n - 1 : order'[i] = order'[j] => i = j
        <5> SUFFICES ASSUME NEW i \in 1 .. n - 1, NEW j \in 1 .. n - 1, order'[i] = order'[j] PROVE i = j
          OBVIOUS
        <5>1. order[i + 1] = order[j + 1] /\ i + 1 \in 1 .. n /\ j + 1 \in 1 .. n
          BY <1>1, <4>1
        <5>2. i + 1 = j + 1
          BY <5>1, <1>3
        <5> QED  BY <5>2
      <4> QED  BY <4>1, <4>2, <1>2, <2>7
    <3>7. \A i \in 2 .. n : car'[order'[i]] \in born' \ {running'}
      <4> TAKE i \in 2 .. n
      <4>1. CASE i = n
        <5>1. running # car[order[2]]
          BY <1>7, <2>1
        <5> QED  BY <4>1, <5>1, <2>3, <2>5, <1>10
      <4>2. CASE i # n
        <5>1. i \in 2 .. n - 1
          BY <4>2, <2>4
        <5>2. car[order[i + 1]] # car[order[2]] /\ car[order[i + 1]] \in born
          BY <5>1, <2>1, <2>6, <1>7, <1>8
        <5> QED  BY <5>1, <5>2, <2>3, <2>6, <1>10
      <4> QED  BY <4>1, <4>2
    <3>8. \A i, j \in 2 .. n : car'[order'[i]] = car'[order'[j]] => i = j
      <4>1. \A i \in 2 .. n - 1 : car'[order'[i]] # running
        BY <2>6, <1>7
      <4>2. \A i, j \in 2 .. n - 1 : car'[order'[i]] = car'[order'[j]] => i = j
        <5> SUFFICES ASSUME NEW i \in 2 .. n - 1, NEW j \in 2 .. n - 1, car'[order'[i]] = car'[order'[j]]
                     PROVE  i = j
          OBVIOUS
        <5>1. i + 1 = j + 1
          BY <2>6, <1>8
        <5> QED  BY <5>1
      <4>3. car'[order'[n]] = running
        BY <2>3, <2>5
      <4> QED  BY <4>1, <4>2, <4>3, <2>4
    <3>9. Len(order') = n
      BY <1>2
    <3> QED  BY <3>1, <3>2, <3>3, <3>4, <3>5, <3>6, <3>7, <3>8, <3>9 DEF Linear
  <2>9. QueueIsRing'
    BY <2>8, LinearIsRing, PTL
  <2>10. FirstLives'
    <3>1. root' \in 0 .. 1
      BY <1>10 DEF Inv, FirstLives
    <3>2. ASSUME root = 1
          PROVE  running' \in {First, None} \/ \E i \in 2 .. Len(order') : car'[order'[i]] = First
      <4>1. running # None
        BY <1>10, ThreadAssumption DEF Inv, Typed
      <4>2. CASE running = First
        BY <4>2, <2>3, <2>5, <1>2
      <4>3. CASE running # First
        <5>1. PICK i \in 2 .. n : car[order[i]] = First
          BY <3>2, <4>1, <4>3 DEF Inv, FirstLives, n
        <5>2. CASE i = 2
          BY <5>1, <5>2, <2>3
        <5>3. CASE i # 2
          <6>1. i - 1 \in 2 .. n - 1 /\ (i - 1) + 1 = i /\ i - 1 \in 2 .. Len(order')
            BY <5>3, <1>1, <1>2
          <6>2. car'[order'[i - 1]] = First
            BY <6>1, <5>1, <2>6
          <6> QED  BY <6>1, <6>2
        <5> QED  BY <5>2, <5>3
      <4> QED  BY <4>2, <4>3
    <3> QED  BY <3>1, <3>2, <1>10 DEF FirstLives
  <2> QED  BY <2>9, <2>10, <1>10, <1>11 DEF Inv, Unstarted
<1> QED  BY <1>12, <1>13

-----------------------------------------------------------------------------
\* Every step of a program keeps the invariant.
LEMMA Inductive == Inv /\ [Next]_vars => Inv'
<1> SUFFICES ASSUME Inv, [Next]_vars PROVE Inv'
  OBVIOUS
<1>1. CASE UNCHANGED vars
  BY <1>1 DEF vars, Inv, Typed, Unstarted, FirstLives, QueueIsRing, Successor, Allocated
<1>2. CASE Next
  BY <1>2, StartInv, SpawnInv, ExitInv, ExitLastInv, YieldInv, FirstReturnsInv, HaltInv DEF Next
<1> QED  BY <1>1, <1>2

\* The invariant holds in every state of a program.
THEOREM SpecInv == Spec => []Inv
BY InitInv, Inductive, PTL DEF Spec

\* Whatever the threads spawn, yield and exit, the cells from readyq on form a ring, and no
\* thread is lost from it or waits there twice.
THEOREM RingAlways == Spec => []QueueIsRing
<1>1. Inv => QueueIsRing
  BY DEF Inv
<1> QED  BY <1>1, SpecInv, PTL

\* The frame of root-k is popped once: the last thread that ends does not find it gone.
THEOREM RootOnceAlways == Spec => []RootOnce
<1>1. Inv => RootOnce
  BY DEF Inv, FirstLives, RootOnce
<1> QED  BY <1>1, SpecInv, PTL

-----------------------------------------------------------------------------
(* The list of cells and the line of the scheduler. *)

Line ==
  /\ ready \in Seq(Thread)
  /\ Len(ready) = Len(order) - 1
  /\ \A i \in 1 .. Len(order) - 1 : ready[i] = car[order[i + 1]]

\* Behind readyq, the list holds the threads that wait.
LEMMA LinearIsLine == Typed /\ Linear => Line
<1> SUFFICES ASSUME Typed, Linear PROVE Line
  OBVIOUS
<1> DEFINE m == Len(order) - 1
<1>1. m \in Nat
  BY DEF Linear
<1>2. \A i \in 1 .. m : car[order[i + 1]] \in Thread
  <2> TAKE i \in 1 .. m
  <2>1. i + 1 \in 2 .. Len(order)
    BY DEF Linear
  <2> QED  BY <2>1 DEF Linear, Typed
<1>3. ready = [i \in 1 .. m |-> car[order[i + 1]]]
  BY DEF ready
<1> HIDE DEF m
<1>4. ready \in [1 .. m -> Thread]
  BY <1>2, <1>3
<1>5. ready \in Seq(Thread)
  BY <1>1, <1>4, SeqDef
<1>6. Len(ready) = m
  BY <1>1, <1>4, <1>5
<1> QED  BY <1>3, <1>5, <1>6 DEF Line, m

\* So it does in every state of a program that has threads.
LEMMA HasLine == Inv /\ born # {} => Linear /\ Line
BY RingIsLinear, LinearIsLine DEF Inv

\* And it does after a step.
LEMMA HasLineAfter == (Inv /\ born # {} => Linear /\ Line)'
BY HasLine, PTL

\* Whoever waited is forgotten.
LEMMA StartRefines == Inv /\ Inv' /\ StartFirstProcess => S!SStart
<1> SUFFICES ASSUME Inv, Inv', StartFirstProcess PROVE S!SStart
  OBVIOUS
<1>1. order' = <<NewCell>> /\ born' # {}
  BY DEF StartFirstProcess
<1>2. Line'
  BY <1>1, HasLineAfter
<1>3. Len(order') = 1
  BY <1>1
<1>4. ready' = <<>>
  BY <1>2, <1>3 DEF Line
<1>5. root > 0 => root = 1
  BY DEF Inv, FirstLives
<1> QED  BY <1>4, <1>5 DEF StartFirstProcess, S!SStart

\* The parent is the head of the line.
LEMMA SpawnRefines == Inv /\ Inv' /\ (\E t \in Thread : spawn(t)) => S!SSpawn
<1> SUFFICES ASSUME Inv, Inv', NEW t \in Thread, spawn(t) PROVE S!SSpawn
  OBVIOUS
<1>1. born # {} /\ born' # {} /\ running \in Thread
  BY DEF spawn, Inv, Typed
<1>2. Linear /\ Line /\ Linear' /\ Line'
  BY <1>1, HasLine, HasLineAfter
<1>3. NewCell \in Cell \ Allocated
  BY NewCellIsNew DEF Inv, spawn
<1> DEFINE n == Len(order)
<1> DEFINE put == <<running>> \o ready
<1>4. n \in Nat \ {0} /\ \A i \in 1 .. n : order[i] \in Allocated
  BY <1>2 DEF Linear
<1>5. /\ Len(order') = n + 1 /\ order'[2] = NewCell
      /\ \A i \in 3 .. n + 1 : order'[i] = order[i - 1]
  BY <1>2, <1>3, PutSecond DEF Linear, spawn
<1>6. car'[NewCell] = running /\ \A d \in Allocated : car'[d] = car[d]
  BY <1>3 DEF spawn, Allocated
<1>7. ready \in Seq(Thread) /\ Len(ready) = n - 1 /\ \A i \in 1 .. n - 1 : ready[i] = car[order[i + 1]]
  BY <1>2 DEF Line
<1>8. ready' \in Seq(Thread) /\ Len(ready') = n /\ \A i \in 1 .. n : ready'[i] = car'[order'[i + 1]]
  BY <1>2, <1>4, <1>5 DEF Line
<1> HIDE DEF n
<1>9. put \in Seq(Thread) /\ Len(put) = n /\ put[1] = running /\ \A i \in 2 .. n : put[i] = ready[i - 1]
  BY <1>1, <1>4, <1>7
<1> HIDE DEF put
<1>10. \A i \in 1 .. n : ready'[i] = put[i]
  <2> TAKE i \in 1 .. n
  <2>1. CASE i = 1
    BY <2>1, <1>4, <1>5, <1>6, <1>8, <1>9
  <2>2. CASE i # 1
    <3>1. i \in 2 .. n /\ i + 1 \in 3 .. n + 1 /\ (i + 1) - 1 = i /\ i - 1 \in 1 .. n - 1 /\ (i - 1) + 1 = i
      BY <2>2, <1>4
    <3>2. ready'[i] = car'[order'[i + 1]] /\ order'[i + 1] = order[i] /\ order[i] \in Allocated
      BY <3>1, <1>4, <1>5, <1>8
    <3>3. put[i] = ready[i - 1] /\ ready[i - 1] = car[order[i]]
      BY <3>1, <1>7, <1>9
    <3> QED  BY <3>2, <3>3, <1>6
  <2> QED  BY <2>1, <2>2
<1>11. ready' = put
  BY <1>8, <1>9, <1>10, SeqEqual
<1> QED  BY <1>11 DEF spawn, S!SSpawn, put

\* The head of the line runs, and the thread that ran is gone.
LEMMA ExitRefines == Inv /\ Inv' /\ exit => S!SExit
<1> SUFFICES ASSUME Inv, Inv', exit PROVE S!SExit
  OBVIOUS
<1>1. born # {} /\ born' # {}
  BY DEF exit
<1>2. Linear /\ Line /\ Line'
  BY <1>1, HasLine, HasLineAfter
<1> DEFINE n == Len(order)
<1>3. n \in Nat \ {0} /\ order \in Seq(Cell) /\ readyq = order[1] /\ readyq \in Cell
  BY <1>2 DEF Linear
<1>4. Len(order) > 1 /\ order \in Seq(Cell) /\ readyq \in Cell
  BY <1>2 DEF Linear, exit
<1>5. cdr[readyq] = order[2]
  BY <1>2, <1>3, <1>4 DEF Linear
<1>6. Len(order') = n - 1 /\ \A i \in 2 .. n - 1 : order'[i] = order[i + 1]
  BY <1>4, DropSecond DEF exit
<1>7. ready \in Seq(Thread) /\ Len(ready) = n - 1 /\ \A i \in 1 .. n - 1 : ready[i] = car[order[i + 1]]
  BY <1>2 DEF Line
<1>8. ready' \in Seq(Thread) /\ Len(ready') = n - 2 /\ \A i \in 1 .. n - 2 : ready'[i] = car'[order'[i + 1]]
  BY <1>2, <1>3, <1>6 DEF Line
<1>9. car' = car /\ running' = car[order[2]]
  BY <1>5 DEF exit
<1>10. n > 1
  BY <1>4
<1> HIDE DEF n
<1>11. ready # <<>> /\ Head(ready) = car[order[2]]
  BY <1>3, <1>10, <1>7
<1>12. /\ Tail(ready) \in Seq(Thread) /\ Len(Tail(ready)) = n - 2
       /\ \A i \in 1 .. n - 2 : Tail(ready)[i] = ready[i + 1]
  BY <1>3, <1>10, <1>7
<1>13. \A i \in 1 .. n - 2 : ready'[i] = Tail(ready)[i]
  <2> TAKE i \in 1 .. n - 2
  <2>1. i + 1 \in 2 .. n - 1 /\ i + 1 \in 1 .. n - 1
    BY <1>3
  <2> QED  BY <2>1, <1>6, <1>7, <1>8, <1>9, <1>12
<1>14. ready' = Tail(ready)
  BY <1>8, <1>12, <1>13, SeqEqual
<1> QED  BY <1>9, <1>11, <1>14 DEF exit, S!SExit

\* To yield when nobody waits changes nothing that the scheduler knows of.
LEMMA YieldRefines == Inv /\ Inv' /\ yield => S!SYield \/ UNCHANGED S!svars
<1> SUFFICES ASSUME Inv, Inv', yield PROVE S!SYield \/ UNCHANGED S!svars
  OBVIOUS
<1>1. born # {} /\ born' # {} /\ running \in Thread /\ UNCHANGED <<born, root>>
  BY DEF yield, Inv, Typed
<1>2. Linear /\ Line /\ Line'
  BY <1>1, HasLine, HasLineAfter
<1> DEFINE n == Len(order)
<1> DEFINE put == Append(Tail(ready), running)
<1>3. /\ n \in Nat \ {0} /\ order \in Seq(Cell) /\ readyq = order[1] /\ readyq \in Allocated
      /\ order # <<>> /\ readyq \in Cell
  BY <1>2 DEF Linear
<1>4. \A i, j \in 1 .. n : order[i] = order[j] => i = j
  BY <1>2 DEF Linear
<1>5. \A i \in 1 .. n : order[i] \in Allocated
  BY <1>2 DEF Linear
<1>6. \A i \in 1 .. n - 1 : cdr[order[i]] = order[i + 1]
  BY <1>2 DEF Linear
<1>7. cdr[order[n]] = order[1]
  BY <1>2 DEF Linear
<1>8. Len(order') = n /\ order'[n] = readyq /\ \A i \in 1 .. n - 1 : order'[i] = order[i + 1]
  BY <1>3, Rotated DEF yield
<1>9. ready \in Seq(Thread) /\ Len(ready) = n - 1 /\ \A i \in 1 .. n - 1 : ready[i] = car[order[i + 1]]
  BY <1>2 DEF Line
<1>10. ready' \in Seq(Thread) /\ Len(ready') = n - 1 /\ \A i \in 1 .. n - 1 : ready'[i] = car'[order'[i + 1]]
  BY <1>2, <1>8 DEF Line
<1> HIDE DEF n
<1>11. CASE n = 1
  <2>1. cdr[readyq] = readyq
    BY <1>11, <1>3, <1>7
  <2>2. running' = running
    BY <2>1, <1>3 DEF yield, Inv, Typed, Allocated
  <2>3. ready = <<>> /\ ready' = <<>>
    BY <1>9, <1>10, <1>11
  <2> QED  BY <2>2, <2>3, <1>1 DEF S!svars
<1>12. CASE n # 1
  <2>1. 1 \in 1 .. n - 1 /\ 2 \in 1 .. n /\ 1 + 1 = 2 /\ n > 1
    BY <1>12, <1>3, SecondOfMore
  <2>2. cdr[readyq] = order[2] /\ order[2] # readyq /\ order[2] \in Allocated
    BY <2>1, <1>3, <1>4, <1>5, <1>6
  <2>3. /\ running' = car[order[2]] /\ car'[readyq] = running
        /\ \A d \in Allocated : d # readyq /\ d # order[2] => car'[d] = car[d]
    BY <2>2, <1>3 DEF yield, Inv, Typed, Allocated
  <2>4. ready # <<>> /\ Head(ready) = car[order[2]]
    BY <2>1, <1>9
  <2>5. /\ put \in Seq(Thread) /\ Len(put) = n - 1 /\ put[n - 1] = running
        /\ \A i \in 1 .. n - 2 : put[i] = ready[i + 1]
    <3>1. /\ Tail(ready) \in Seq(Thread) /\ Len(Tail(ready)) = n - 2
          /\ \A i \in 1 .. n - 2 : Tail(ready)[i] = ready[i + 1]
      BY <2>1, <1>3, <1>9
    <3> QED  BY <3>1, <1>1, <1>3, <2>1
  <2>6. \A i \in 1 .. n - 1 : ready'[i] = put[i]
    <3> TAKE i \in 1 .. n - 1
    <3>1. CASE i = n - 1
      <4>1. i + 1 = n
        BY <3>1, <1>3
      <4> QED  BY <3>1, <4>1, <1>8, <1>10, <2>3, <2>5
    <3>2. CASE i # n - 1
      <4>1. /\ i \in 1 .. n - 2 /\ i + 1 \in 1 .. n - 1 /\ (i + 1) + 1 \in 1 .. n
            /\ (i + 1) + 1 # 1 /\ (i + 1) + 1 # 2 /\ 1 \in 1 .. n
        BY <3>2, <1>3
      <4>2. order'[i + 1] = order[(i + 1) + 1] /\ order[(i + 1) + 1] # readyq /\ order[(i + 1) + 1] # order[2]
        BY <4>1, <2>1, <1>3, <1>4, <1>8
      <4>3. car'[order'[i + 1]] = car[order[(i + 1) + 1]]
        BY <4>1, <4>2, <2>3, <1>5
      <4> QED  BY <4>1, <4>3, <2>5, <1>9, <1>10
    <3> QED  BY <3>1, <3>2
  <2> HIDE DEF put
  <2>7. ready' = put
    BY <2>5, <2>6, <1>10, SeqEqual
  <2> QED  BY <2>3, <2>4, <2>7, <1>1 DEF yield, S!SYield, put
<1> QED  BY <1>11, <1>12

\* The rest of the program is reached by one of two ways.
LEMMA RootRefines == Inv /\ Inv' /\ (exit_last \/ FirstReturns) => S!SRoot
<1> SUFFICES ASSUME Inv, Inv', exit_last \/ FirstReturns PROVE S!SRoot
  OBVIOUS
<1>1. root = 0
  BY LastLeavesRoot DEF FirstReturns
<1>2. ready' = ready
  BY DEF ready, exit_last, FirstReturns
<1>3. CASE exit_last
  <2>1. Linear /\ Line /\ Len(order) = 1
    BY <1>3, HasLine, AloneInRing DEF exit_last
  <2>2. ready = <<>>
    BY <2>1 DEF Line
  <2> QED  BY <2>2, <1>1, <1>2, <1>3 DEF exit_last, S!SRoot
<1>4. CASE FirstReturns
  BY <1>1, <1>2, <1>4 DEF FirstReturns, S!SRoot
<1> QED  BY <1>3, <1>4

\* The program ends after its root.
LEMMA HaltRefines == Inv /\ Halt => S!SHalt
<1> SUFFICES ASSUME Inv, Halt PROVE S!SHalt
  OBVIOUS
<1>1. root = 1
  BY DEF Inv, FirstLives, Halt
<1>2. ready' = ready
  BY DEF ready, Halt
<1> QED  BY <1>1, <1>2 DEF Halt, S!SHalt

\* The circular list implements the scheduler: each procedure of the library is one of its
\* steps, or none of them.
THEOREM Refines == Spec => ImplementsScheduler
<1>1. Init => S!SInit
  <2> SUFFICES ASSUME Init PROVE S!SInit
    OBVIOUS
  <2>1. ready = <<>>
    <3>1. order = <<>> /\ Len(order) = 0
      BY DEF Init
    <3>2. 1 .. Len(order) - 1 = {}
      BY <3>1
    <3>3. ready \in [1 .. 0 -> Thread]
      BY <3>1, <3>2 DEF ready
    <3>4. ready \in Seq(Thread) /\ Len(ready) = 0
      BY <3>3, SeqDef
    <3> QED  BY <3>4, EmptySeq
  <2> QED  BY <2>1 DEF Init, S!SInit
<1>2. Inv /\ Inv' /\ [Next]_vars
        => [S!SStart \/ S!SSpawn \/ S!SYield \/ S!SExit \/ S!SRoot \/ S!SHalt]_(S!svars)
  <2> SUFFICES ASSUME Inv, Inv', [Next]_vars
               PROVE  \/ S!SStart \/ S!SSpawn \/ S!SYield \/ S!SExit \/ S!SRoot \/ S!SHalt
                      \/ UNCHANGED S!svars
    OBVIOUS
  <2>1. CASE UNCHANGED vars
    BY <2>1 DEF vars, S!svars, ready
  <2>2. CASE Next
    BY <2>2, StartRefines, SpawnRefines, ExitRefines, YieldRefines, RootRefines, HaltRefines DEF Next
  <2> QED  BY <2>1, <2>2
<1> QED  BY <1>1, <1>2, SpecInv, PTL DEF Spec, ImplementsScheduler, S!SSpec
=============================================================================
