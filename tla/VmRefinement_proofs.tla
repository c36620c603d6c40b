------------------------ MODULE VmRefinement_proofs ------------------------
(***************************************************************************)
(* Proof that the virtual machine implements the machine of a compiled     *)
(* program, StackMachine: each instruction on cells, which are shared,     *)
(* used again and collected, does what the instruction of the same name    *)
(* does on frames and objects that nothing shares.                         *)
(*                                                                         *)
(* The invariant of Vm_proofs gives the machine a view g of its cells: the *)
(* slots, the closed variables and the saved address of each frame, and    *)
(* the kind and the fields of each object (Pictured).  Here the view is    *)
(* read as a state of StackMachine (Pic), which is shown to be the one     *)
(* that Vm!Machine is mapped to (Shown).  The proofs of the invariant say  *)
(* how the view changes with each instruction; the lemmas named ...Seen    *)
(* say that StackMachine changes in the same way, and forgets the same     *)
(* objects.                                                                *)
(***************************************************************************)
EXTENDS Vm_proofs

-----------------------------------------------------------------------------
(* What the program finds. *)

\* What is found holds the values it was started from, and with an object what it refers to.
LEMMA ReferredClosed ==
  ASSUME NEW s, DOMAIN s \subseteq Cell, NEW from
  PROVE  /\ Referred(s, from) \subseteq DOMAIN s
         /\ from \cap DOMAIN s \subseteq Referred(s, from)
         /\ \A c \in Referred(s, from) : Refs(s[c]) \cap DOMAIN s \subseteq Referred(s, from)
<1> DEFINE D == DOMAIN s
<1>0. HeapEnd \in Nat
  BY HeapEndAssumption
<1>1. PICK g \in [0 .. HeapEnd -> SUBSET D] :
        /\ g[0] = from \cap D
        /\ \A n \in 1 .. HeapEnd : g[n] = Around(s, g[n - 1])
        /\ Referred(s, from) = g[HeapEnd]
  BY ReferredIsLoop
<1> DEFINE f == [X \in SUBSET D |-> Around(s, X)]
<1>2. f \in [SUBSET D -> SUBSET D] /\ Grows(f, D)
  BY DEF Around, Grows
<1>3. IsLoop(g, from \cap D, f, HeapEnd)
  BY <1>0, <1>1 DEF IsLoop
<1>4. f[g[HeapEnd]] = g[HeapEnd]
  <2>1. IsFiniteSet(D) /\ Cardinality(D) <= HeapEnd
    <3>1. D \in SUBSET Cell
      OBVIOUS
    <3> HIDE DEF D
    <3> QED  BY <1>0, <3>1, FiniteCells, FS_Subset
  <2> DEFINE P == SUBSET D
  <2>2. P = SUBSET D /\ f \in [P -> P] /\ g \in [0 .. HeapEnd -> P] /\ Grows(f, D)
    BY <1>2
  <2> HIDE DEF f, P, D
  <2> QED  BY <1>0, <1>3, <2>1, <2>2, ComesToRest
<1>5. g[HeapEnd] \in SUBSET D
  BY <1>0
<1>6. Around(s, g[HeapEnd]) = g[HeapEnd]
  BY <1>4, <1>5
<1>7. \A c \in g[HeapEnd] : Refs(s[c]) \cap D \subseteq g[HeapEnd]
  BY <1>6 DEF Around
<1> DEFINE T == {n \in 0 .. HeapEnd : g[0] \subseteq g[n]}
<1>8. \A n \in 0 .. HeapEnd - 1 : n \in T => n + 1 \in T
  <2> SUFFICES ASSUME NEW n \in 0 .. HeapEnd - 1, n \in T PROVE g[0] \subseteq g[n + 1]
    BY <1>0
  <2>1. g[n + 1] = Around(s, g[(n + 1) - 1])
    BY <1>0, <1>1
  <2>2. g[n] \subseteq g[n + 1]
    BY <2>1 DEF Around
  <2> QED  BY <2>2
<1>9. \A n \in 0 .. HeapEnd : n \in T
  <2>1. 0 \in T
    BY <1>0
  <2> HIDE DEF T
  <2> QED  BY <1>0, <1>8, <2>1, EveryRoundTo
<1>10. g[0] \subseteq g[HeapEnd]
  BY <1>0, <1>9
<1> QED  BY <1>1, <1>5, <1>7, <1>10

-----------------------------------------------------------------------------
(* What the machine shows is live: the walk of the collector comes to every cell that a view shows. *)

\* What a live cell links to is live.
LEMMA LinkLive ==
  ASSUME NEW m, NEW o, NEW n, NEW a, Sound(m, o, n, a), NEW c \in Live(m)
  PROVE  /\ c \in Cell
         /\ m.car[c] \in Cell => m.car[c] \in Live(m)
         /\ m.type[c] \in HasRightLinkTypes /\ m.cdr[c] \in Cell => m.cdr[c] \in Live(m)
<1>1. c \in Cell /\ LinksOf(c, m.type, m.car, m.cdr) \subseteq Live(m)
  BY LiveIs
<1>2. m.type[c] \in {CONS_TYPE, CLOSURE_TYPE, CONTINUATION_TYPE, STRING_TYPE}
  BY <1>1 DEF Sound, Machines
<1> QED  BY <1>1, <1>2 DEF LinksOf, HasLeftLinkTypes, HasRightLinkTypes

\* The cells of a chain are live when its head is.
LEMMA ChainLive ==
  ASSUME NEW m, NEW o, NEW n, NEW a, Sound(m, o, n, a), NEW role \in {"frame", "args"},
         NEW k, NEW i \in Nat, NEW e, Chain(m, o, e, role, k, i), e \in Cell => e \in Live(m)
  PROVE  \A j \in 1 .. i : \E c \in Live(m) : In(o, c, role, k, j)
<1> DEFINE T == {d \in 0 .. i : d < i => \E c \in Live(m) : In(o, c, role, k, i - d)}
<1>1. 0 \in T
  BY DEF Chain, In
<1>2. ASSUME NEW d \in 0 .. i - 1, d \in T PROVE d + 1 \in T
  <2> SUFFICES ASSUME d + 1 < i PROVE \E c \in Live(m) : In(o, c, role, k, i - (d + 1))
    OBVIOUS
  <2>1. PICK c \in Live(m) : In(o, c, role, k, i - d)
    BY <1>2
  <2>2. CellSound(m, o, n, a, c)
    BY <2>1 DEF Sound, In
  <2>3. m.type[c] = CONS_TYPE /\ Chain(m, o, m.cdr[c], role, k, i - d - 1)
    BY <2>1, <2>2 DEF CellSound, SlotSound, In
  <2>4. i - d - 1 # 0 /\ i - d - 1 = i - (d + 1)
    OBVIOUS
  <2>5. In(o, m.cdr[c], role, k, i - (d + 1))
    BY <2>3, <2>4 DEF Chain
  <2>6. m.cdr[c] \in Live(m)
    BY <2>3, <2>5, LinkLive DEF In, HasRightLinkTypes
  <2> QED  BY <2>5, <2>6
<1>3. \A d \in 0 .. i : d \in T
  <2> HIDE DEF T
  <2> QED  BY <1>1, <1>2, EveryRoundTo
<1>4. ASSUME NEW j \in 1 .. i PROVE \E c \in Live(m) : In(o, c, role, k, j)
  <2>1. i - j \in 0 .. i /\ i - j < i /\ i - (i - j) = j
    OBVIOUS
  <2>2. i - j \in T
    BY <1>3, <2>1
  <2> QED  BY <2>1, <2>2
<1> QED  BY <1>4

\* So is what the slots of a live frame hold, and the list behind them.
LEMMA FrameLive ==
  ASSUME NEW m, NEW o, NEW n, NEW a, Sound(m, o, n, a), NEW g, Shows(m, o, n, g),
         NEW k, NEW i \in Nat, NEW e, Chain(m, o, e, "frame", k, i), e \in Cell => e \in Live(m),
         i = 0 => e = g.bottom[k], k = NIL \/ g.saved[k].slots = i
  PROVE  /\ \A j \in 1 .. i : LiveRef(m, o, g.slot[k][j])
         /\ LiveRef(m, o, g.bottom[k])
<1> DEFINE role == "frame"
<1>0. role \in {"frame", "args"} /\ Chain(m, o, e, role, k, i)
  OBVIOUS
<1>1. \A j \in 1 .. i : \E c \in Live(m) : In(o, c, role, k, j)
  <2> HIDE DEF role
  <2> QED  BY <1>0, ChainLive
<1>2. ASSUME NEW j \in 1 .. i
      PROVE  LiveRef(m, o, g.slot[k][j]) /\ (j = 1 => LiveRef(m, o, g.bottom[k]))
  <2>1. PICK c \in Live(m) : In(o, c, "frame", k, j)
    BY <1>1
  <2>2. c \in Cell /\ CellSound(m, o, n, a, c) /\ CellShows(m, o, g, c)
    BY <2>1 DEF Sound, Shows, In
  <2>3. m.car[c] = g.slot[k][j] /\ (j = 1 => m.cdr[c] = g.bottom[k])
    BY <2>1, <2>2 DEF CellShows, In
  <2>4. m.type[c] = CONS_TYPE /\ Ref(o, m.car[c]) /\ (j = 1 => ListRef(m, o, m.cdr[c]))
    BY <2>1, <2>2 DEF CellSound, SlotSound, In, Chain
  <2>5. /\ m.car[c] \in Cell => m.car[c] \in Live(m)
        /\ m.cdr[c] \in Cell => m.cdr[c] \in Live(m)
    BY <2>4, LinkLive DEF HasRightLinkTypes
  <2> QED  BY <2>3, <2>4, <2>5 DEF LiveRef, Ref, ListRef, IsObject
<1>3. i = 0 => LiveRef(m, o, g.bottom[k])
  BY DEF Chain, ListRef, LiveRef, IsObject
<1>4. i # 0 => 1 \in 1 .. i
  OBVIOUS
<1> QED  BY <1>2, <1>3, <1>4

\* And what the arguments of a call in preparation hold.
LEMMA ArgsLive ==
  ASSUME NEW m, NEW o, NEW n, NEW a, Sound(m, o, n, a), NEW g, Shows(m, o, n, g),
         Chain(m, o, m.reg1, "args", NIL, a), a = 0 => m.reg1 = g.rest
  PROVE  /\ \A j \in 1 .. a : LiveRef(m, o, g.arg[j])
         /\ LiveRef(m, o, g.rest)
<1> DEFINE role == "args"
           e == m.reg1
<1>0. role \in {"frame", "args"} /\ Chain(m, o, e, role, NIL, a) /\ a \in Nat
  BY DEF Sound
<1>1. e \in Cell => e \in Live(m)
  BY RegistersLive DEF Registers
<1>2. \A j \in 1 .. a : \E c \in Live(m) : In(o, c, role, NIL, j)
  <2> HIDE DEF role, e
  <2> QED  BY <1>0, <1>1, ChainLive
<1>3. ASSUME NEW j \in 1 .. a
      PROVE  LiveRef(m, o, g.arg[j]) /\ (j = 1 => LiveRef(m, o, g.rest))
  <2>1. PICK c \in Live(m) : In(o, c, "args", NIL, j)
    BY <1>2
  <2>2. c \in Cell /\ CellSound(m, o, n, a, c) /\ CellShows(m, o, g, c)
    BY <2>1 DEF Sound, Shows, In
  <2>3. m.car[c] = g.arg[j] /\ (j = 1 => m.cdr[c] = g.rest)
    BY <2>1, <2>2 DEF CellShows, In
  <2>4. m.type[c] = CONS_TYPE /\ Ref(o, m.car[c]) /\ (j = 1 => ListRef(m, o, m.cdr[c]))
    BY <2>1, <2>2 DEF CellSound, SlotSound, In, Chain
  <2>5. /\ m.car[c] \in Cell => m.car[c] \in Live(m)
        /\ m.cdr[c] \in Cell => m.cdr[c] \in Live(m)
    BY <2>4, LinkLive DEF HasRightLinkTypes
  <2> QED  BY <2>3, <2>4, <2>5 DEF LiveRef, Ref, ListRef, IsObject
<1>4. a = 0 => LiveRef(m, o, g.rest)
  BY <1>0, <1>1 DEF Chain, ListRef, LiveRef, IsObject
<1>5. a # 0 => 1 \in 1 .. a
  BY <1>0
<1> QED  BY <1>3, <1>4, <1>5

\* The objects, the frames and the globals of the program, as a view shows them.
Stack(g, k, n) == [j \in 1 .. n |-> g.slot[k][n - j + 1]]
Abs(g, c) ==
  CASE g.kind[c] = CONS_TYPE         -> Pair(g.car[c], g.cdr[c])
    [] g.kind[c] = STRING_TYPE       -> Str(g.car[c])
    [] g.kind[c] = CLOSURE_TYPE      -> Closure(g.car[c], g.cdr[c])
    [] g.kind[c] = CONTINUATION_TYPE ->
         Frame(Stack(g, c, g.saved[c].slots), g.bottom[c], g.saved[c].temps, g.car[c])
    [] g.kind[c] = "spent"           -> Spent
Globals(g) == [i \in GlobalVars |-> IF i % 2 = 1 THEN g.car[i \div 2] ELSE g.cdr[i \div 2]]

\* An object of each kind.
LEMMA AbsIs ==
  ASSUME NEW g, NEW c
  PROVE  /\ g.kind[c] = CONS_TYPE => Abs(g, c) = Pair(g.car[c], g.cdr[c])
         /\ g.kind[c] = STRING_TYPE => Abs(g, c) = Str(g.car[c])
         /\ g.kind[c] = CLOSURE_TYPE => Abs(g, c) = Closure(g.car[c], g.cdr[c])
         /\ g.kind[c] = CONTINUATION_TYPE =>
              Abs(g, c) = Frame(Stack(g, c, g.saved[c].slots), g.bottom[c], g.saved[c].temps, g.car[c])
         /\ g.kind[c] = "spent" => Abs(g, c) = Spent
BY DEF Abs, CONS_TYPE, STRING_TYPE, CLOSURE_TYPE, CONTINUATION_TYPE

\* What the objects of each kind refer to.
LEMMA RefsOf ==
  /\ \A x, y : Refs(Pair(x, y)) = {x, y}
  /\ \A x : Refs(Str(x)) = {x}
  /\ \A x, y : Refs(Closure(x, y)) = {x}
  /\ \A x, y, z, w : Refs(Frame(x, y, z, w)) = {x[i] : i \in DOMAIN x} \cup {y, w}
  /\ Refs(Spent) = {}
BY DEF Refs, Pair, Str, Closure, Frame, Spent

\* What a live object refers to is live.
LEMMA ObjectLive ==
  ASSUME NEW m, NEW o, NEW n, NEW a, Sound(m, o, n, a), NEW g, Shows(m, o, n, g),
         NEW c, IsObject(o, c), c \in Live(m), NEW v \in Refs(Abs(g, c))
  PROVE  LiveRef(m, o, v)
<1>1. c \in Cell /\ o.role[c] = "object" /\ CellSound(m, o, n, a, c) /\ CellShows(m, o, g, c)
  BY DEF Sound, Shows, IsObject
<1>2. m.type[c] \in {CONS_TYPE, CLOSURE_TYPE, CONTINUATION_TYPE, STRING_TYPE}
  BY <1>1 DEF Sound, Machines
<1>3. /\ m.car[c] = g.car[c] /\ g.kind[c] = KindOf(m, c)
      /\ m.type[c] # CONTINUATION_TYPE => m.cdr[c] = g.cdr[c]
  BY <1>1 DEF CellShows
<1>4. /\ m.car[c] \in Cell => m.car[c] \in Live(m)
      /\ m.type[c] \in HasRightLinkTypes /\ m.cdr[c] \in Cell => m.cdr[c] \in Live(m)
  BY LinkLive
<1>5. CASE m.type[c] = CONS_TYPE
  <2>0. g.kind[c] = CONS_TYPE /\ m.type[c] # CONTINUATION_TYPE
    BY <1>3, <1>5 DEF KindOf, CONS_TYPE, CONTINUATION_TYPE
  <2>9. Abs(g, c) = Pair(g.car[c], g.cdr[c])
    BY <2>0, AbsIs
  <2>1. v \in {m.car[c], m.cdr[c]}
    BY <1>3, <2>0, <2>9, RefsOf
  <2>2. Ref(o, m.car[c]) /\ Ref(o, m.cdr[c])
    BY <1>1, <1>5 DEF CellSound, ObjectSound
  <2> QED  BY <1>4, <1>5, <2>1, <2>2 DEF Ref, LiveRef, IsObject, HasRightLinkTypes
<1>6. CASE m.type[c] = STRING_TYPE
  <2>0. g.kind[c] = STRING_TYPE /\ m.type[c] # CONTINUATION_TYPE
    BY <1>3, <1>6 DEF KindOf, STRING_TYPE, CONTINUATION_TYPE
  <2>9. Abs(g, c) = Str(g.car[c])
    BY <2>0, AbsIs
  <2>1. v = m.car[c]
    BY <1>3, <2>0, <2>9, RefsOf
  <2>2. Ref(o, m.car[c])
    BY <1>1, <1>6 DEF CellSound, ObjectSound
  <2> QED  BY <1>4, <2>1, <2>2 DEF Ref, LiveRef, IsObject
<1>7. CASE m.type[c] = CLOSURE_TYPE
  <2>0. g.kind[c] = CLOSURE_TYPE /\ m.type[c] # CONTINUATION_TYPE
    BY <1>3, <1>7 DEF KindOf, CLOSURE_TYPE, CONTINUATION_TYPE
  <2>9. Abs(g, c) = Closure(g.car[c], g.cdr[c])
    BY <2>0, AbsIs
  <2>1. v = m.car[c]
    BY <1>3, <2>0, <2>9, RefsOf
  <2>2. ListRef(m, o, m.car[c])
    BY <1>1, <1>7 DEF CellSound, ObjectSound
  <2> QED  BY <1>4, <2>1, <2>2 DEF ListRef, LiveRef, IsObject
<1>8. CASE m.type[c] = CONTINUATION_TYPE /\ c \notin m.spent
  <2> DEFINE p == m.cdr[c]
             e == m.car[p]
             i == g.saved[c].slots
  <2>1. Ref(o, m.car[c]) /\ In(o, p, "saved", c, 0)
    BY <1>1, <1>8 DEF CellSound, ObjectSound
  <2>2. p \in Live(m)
    BY <1>4, <1>8, <2>1 DEF In, HasRightLinkTypes
  <2>3. CellSound(m, o, n, a, p) /\ CellShows(m, o, g, p) /\ o.role[p] = "saved" /\ o.of[p] = c
    BY <2>1 DEF In, Sound, Shows
  <2>4. m.cdr[p] = g.saved[c] /\ (i = 0 => e = g.bottom[c])
    BY <2>3 DEF CellShows
  <2>5. i \in Nat /\ Chain(m, o, e, "frame", c, i)
    BY <2>3, <2>4 DEF CellSound, SavedSound, Address
  <2>6. e \in Cell => e \in Live(m)
    BY <2>2, LinkLive
  <2> HIDE DEF p, e
  <2>7. /\ \A j \in 1 .. i : LiveRef(m, o, g.slot[c][j])
        /\ LiveRef(m, o, g.bottom[c])
    <3> HIDE DEF i
    <3>1. g.saved[c].slots = i
      BY DEF i
    <3> QED  BY <2>4, <2>5, <2>6, <3>1, FrameLive
  <2> DEFINE w == Stack(g, c, i)
  <2>8. DOMAIN w = 1 .. i /\ \A j \in 1 .. i : LiveRef(m, o, w[j])
    BY <2>5, <2>7 DEF Stack
  <2>9. Abs(g, c) = Frame(w, g.bottom[c], g.saved[c].temps, g.car[c])
    BY <1>3, <1>8, AbsIs DEF KindOf
  <2>10. LiveRef(m, o, g.car[c])
    BY <1>3, <1>4, <2>1 DEF Ref, LiveRef, IsObject
  <2> HIDE DEF w, i
  <2>11. v \in {w[j] : j \in DOMAIN w} \cup {g.bottom[c], g.car[c]}
    BY <2>9, RefsOf
  <2> QED  BY <2>7, <2>8, <2>10, <2>11
<1>9. CASE m.type[c] = CONTINUATION_TYPE /\ c \in m.spent
  <2>1. Abs(g, c) = Spent
    BY <1>3, <1>9, AbsIs DEF KindOf
  <2> QED  BY <2>1, RefsOf
<1> QED  BY <1>2, <1>5, <1>6, <1>7, <1>8, <1>9

\* The values that the running procedure starts from are live.
LEMMA StartsLive ==
  ASSUME NEW m, NEW o, NEW n, NEW a, Sound(m, o, n, a), NEW g, Shows(m, o, n, g)
  PROVE  /\ \A j \in 1 .. n : LiveRef(m, o, g.slot[NIL][j])
         /\ LiveRef(m, o, g.bottom[NIL]) /\ LiveRef(m, o, m.cont)
         /\ \A i \in GlobalVars : LiveRef(m, o, Globals(g)[i])
<1>1. n \in Nat /\ Chain(m, o, m.env, "frame", NIL, n) /\ Ref(o, m.cont)
  BY DEF Sound
<1>2. /\ m.env \in Cell => m.env \in Live(m)
      /\ m.cont \in Cell => m.cont \in Live(m)
  BY RegistersLive DEF Registers
<1>3. n = 0 => m.env = g.bottom[NIL]
  BY DEF Shows
<1>4. /\ \A j \in 1 .. n : LiveRef(m, o, g.slot[NIL][j])
      /\ LiveRef(m, o, g.bottom[NIL])
  <2> DEFINE k == NIL
             e == m.env
  <2>1. Chain(m, o, e, "frame", k, n) /\ (e \in Cell => e \in Live(m)) /\ (n = 0 => e = g.bottom[k])
        /\ (k = NIL \/ g.saved[k].slots = n)
    BY <1>1, <1>2, <1>3
  <2> HIDE DEF k, e
  <2>2. /\ \A j \in 1 .. n : LiveRef(m, o, g.slot[k][j])
        /\ LiveRef(m, o, g.bottom[k])
    BY <1>1, <2>1, FrameLive
  <2> QED  BY <2>2 DEF k
<1>5. ASSUME NEW i \in GlobalVars PROVE LiveRef(m, o, Globals(g)[i])
  <2> DEFINE c == i \div 2
  <2>1. /\ c \in Cell /\ o.role[c] = "global" /\ m.type[c] = CONS_TYPE
        /\ Ref(o, m.car[c]) /\ Ref(o, m.cdr[c])
    BY GlobalIs
  <2>2. m.car[c] = g.car[c] /\ m.cdr[c] = g.cdr[c]
    BY <2>1 DEF Shows, CellShows
  <2>3. c \in Live(m)
    <3>1. GlobalSound(m, o, c)
      BY <2>1 DEF Sound, CellSound
    <3> QED  BY <2>1, <3>1, LiveIs DEF GlobalSound
  <2>4. /\ m.car[c] \in Cell => m.car[c] \in Live(m)
        /\ m.cdr[c] \in Cell => m.cdr[c] \in Live(m)
    BY <2>1, <2>3, LinkLive DEF HasRightLinkTypes
  <2>5. Globals(g)[i] \in {g.car[c], g.cdr[c]}
    BY DEF Globals
  <2> HIDE DEF c
  <2> QED  BY <2>1, <2>2, <2>4, <2>5 DEF Ref, LiveRef, IsObject
<1> QED  BY <1>1, <1>2, <1>4, <1>5 DEF Ref, LiveRef, IsObject

\* A store of objects as a view shows them.
Depicts(S, g) == DOMAIN S \subseteq Cell /\ \A c \in DOMAIN S : S[c] = Abs(g, c)

\* From live values the program finds live objects only.
LEMMA FoundLive ==
  ASSUME NEW m, NEW o, NEW n, NEW a, Sound(m, o, n, a), NEW g, Shows(m, o, n, g),
         NEW S, Depicts(S, g), NEW R, \A v \in R : LiveRef(m, o, v)
  PROVE  \A c \in Referred(S, R) : c \in DOMAIN S /\ IsObject(o, c) /\ c \in Live(m)
<1> DEFINE K == {c \in DOMAIN S : IsObject(o, c) /\ c \in Live(m)}
<1>1. R \cap DOMAIN S \subseteq K
  BY NilAssumption DEF Depicts, LiveRef
<1>2. ASSUME NEW c \in K \cap DOMAIN S PROVE Refs(S[c]) \cap DOMAIN S \subseteq K
  <2>1. S[c] = Abs(g, c) /\ IsObject(o, c) /\ c \in Live(m)
    BY DEF Depicts
  <2>2. \A v \in Refs(S[c]) : LiveRef(m, o, v)
    BY <2>1, ObjectLive
  <2> QED  BY <2>2, NilAssumption DEF Depicts, LiveRef
<1>3. Referred(S, R) \subseteq K
  <2> HIDE DEF K
  <2> QED  BY <1>1, <1>2, ReferredInside
<1> QED  BY <1>3

-----------------------------------------------------------------------------
(* The machine of the program that a view shows. *)

\* The slots of a frame and the list behind them are what the view says.
LEMMA FrameShown ==
  ASSUME NEW o, NEW i, Sound(vm, o, i, 0), NEW g, Shows(vm, o, i, g),
         NEW e \in Word, NEW k, NEW n \in Nat, Chain(vm, o, e, "frame", k, n),
         n = 0 => e = g.bottom[k], k = NIL \/ g.saved[k].slots = n
  PROVE  Slots(Spine(e, n), n) = Stack(g, k, n) /\ Spine(e, n)[n] = g.bottom[k]
<1> DEFINE f == Spine(e, n)
<1>1. \A j \in 0 .. n - 1 : In(o, f[j], "frame", k, n - j)
  BY FrameWalked
<1>2. vm \in Machines
  BY DEF Sound
<1>3. f[0] = e /\ \A j \in 1 .. n : f[j] = Follow(vm, f[j - 1])
  BY <1>2, SpineIsWalk, WalkIs
<1> HIDE DEF f
<1>4. ASSUME NEW j \in 1 .. n PROVE f[j - 1] \in Cell /\ vm.car[f[j - 1]] = g.slot[k][n - j + 1]
  <2>1. j - 1 \in 0 .. n - 1 /\ n - (j - 1) = n - j + 1
    OBVIOUS
  <2>2. In(o, f[j - 1], "frame", k, n - j + 1)
    BY <1>1, <2>1
  <2>3. CellShows(vm, o, g, f[j - 1])
    BY <2>2 DEF In, Shows
  <2> QED  BY <2>2, <2>3 DEF CellShows, In
<1>5. Slots(f, n) = Stack(g, k, n)
  BY <1>4 DEF Slots, Stack
<1>6. f[n] = g.bottom[k]
  <2>1. CASE n = 0
    BY <1>3, <2>1
  <2>2. CASE n # 0
    <3>1. n - 1 \in 0 .. n - 1 /\ n - (n - 1) = 1 /\ n \in 1 .. n
      BY <2>2
    <3>2. In(o, f[n - 1], "frame", k, 1) /\ f[n] = Follow(vm, f[n - 1])
      BY <1>1, <1>3, <3>1
    <3>3. CellShows(vm, o, g, f[n - 1]) /\ f[n] = vm.cdr[f[n - 1]]
      BY <3>2 DEF In, Shows, Follow
    <3> QED  BY <2>2, <3>2, <3>3 DEF CellShows, In
  <2> QED  BY <2>1, <2>2
<1> QED  BY <1>5, <1>6 DEF f

\* An object of the program is what the view says.
LEMMA ObjectShown ==
  ASSUME NEW o, NEW i, Sound(vm, o, i, 0), NEW g, Shows(vm, o, i, g), NEW c, IsObject(o, c)
  PROVE  Object(c) = Abs(g, c)
<1>1. c \in Cell /\ o.role[c] = "object" /\ CellSound(vm, o, i, 0, c) /\ CellShows(vm, o, g, c)
  BY DEF Sound, Shows, IsObject
<1>2. vm.type[c] \in {CONS_TYPE, CLOSURE_TYPE, CONTINUATION_TYPE, STRING_TYPE}
  BY <1>1 DEF Sound, Machines
<1>3. /\ vm.car[c] = g.car[c] /\ g.kind[c] = KindOf(vm, c)
      /\ vm.type[c] # CONTINUATION_TYPE => vm.cdr[c] = g.cdr[c]
  BY <1>1 DEF CellShows
<1>4. CASE vm.type[c] \in {CONS_TYPE, STRING_TYPE, CLOSURE_TYPE}
  BY <1>3, <1>4 DEF KindOf, Object, Abs, CONS_TYPE, STRING_TYPE, CLOSURE_TYPE, CONTINUATION_TYPE
<1>5. CASE vm.type[c] = CONTINUATION_TYPE
  <2>0. Object(c) = IF Holds(c) THEN SavedFrame(c) ELSE Spent
    BY <1>5 DEF Object, CONS_TYPE, STRING_TYPE, CLOSURE_TYPE, CONTINUATION_TYPE
  <2>1. CASE c \in vm.spent
    <3>1. Abs(g, c) = Spent
      BY <1>3, <1>5, <2>1, AbsIs DEF KindOf
    <3> QED  BY <2>0, <2>1, <3>1 DEF Holds
  <2>2. CASE c \notin vm.spent
    <3> DEFINE p == vm.cdr[c]
               e == vm.car[p]
               n == g.saved[c].slots
    <3>1. In(o, p, "saved", c, 0)
      BY <1>1, <1>5, <2>2 DEF CellSound, ObjectSound
    <3>2. /\ p \in Cell /\ o.role[p] = "saved" /\ o.of[p] = c
          /\ CellSound(vm, o, i, 0, p) /\ CellShows(vm, o, g, p)
      BY <3>1 DEF In, Sound, Shows
    <3>3. vm.cdr[p] = g.saved[c] /\ (n = 0 => e = g.bottom[c])
      BY <3>2 DEF CellShows
    <3>4. n \in Nat /\ Chain(vm, o, e, "frame", c, n) /\ g.saved[c] \in Address /\ vm.type[p] = CLOSURE_TYPE
      BY <3>2, <3>3 DEF CellSound, SavedSound, Address
    <3>5. e \in Word
      BY <3>2 DEF Sound, Machines, Word
    <3>6. SavedAt(c) = g.saved[c] /\ SavedSpine(c) = Spine(e, n)
      BY <3>3 DEF SavedAt, SavedSpine
    <3>7. Holds(c)
      <4>1. vm.cdr[c] \notin Free
        BY <3>2, FreeWalked DEF Free
      <4>2. IsA(vm.cdr[c], CLOSURE_TYPE)
        BY <3>2, <3>4 DEF IsA, CellSound, GlobalSound
      <4>3. "slots" \in DOMAIN SavedAt(c)
        BY <3>4, <3>6 DEF Address
      <4> QED  BY <2>2, <4>1, <4>2, <4>3 DEF Holds
    <3> HIDE DEF p, e, n
    <3>8. Slots(Spine(e, n), n) = Stack(g, c, n) /\ Spine(e, n)[n] = g.bottom[c]
      <4>1. g.saved[c].slots = n
        BY DEF n
      <4> QED  BY <3>3, <3>4, <3>5, <4>1, FrameShown
    <3>9. SavedFrame(c) = Frame(Stack(g, c, n), g.bottom[c], g.saved[c].temps, g.car[c])
      BY <1>3, <3>6, <3>8 DEF SavedFrame, n
    <3>10. Abs(g, c) = Frame(Stack(g, c, n), g.bottom[c], g.saved[c].temps, g.car[c])
      BY <1>3, <1>5, <2>2, AbsIs DEF KindOf, n
    <3> QED  BY <2>0, <3>7, <3>9, <3>10
  <2> QED  BY <2>1, <2>2
<1> QED  BY <1>2, <1>4, <1>5

\* The machine of the program that a view shows, with the objects S.
Pic(g, n, t, k, S) ==
  [stack |-> Stack(g, NIL, n), closed |-> g.bottom[NIL], temps |-> t, cont |-> k,
   globals |-> Globals(g), store |-> S]

\* Its values are in its frame, its registers and its globals.
LEMMA ValuesAre ==
  ASSUME NEW g, NEW n \in Nat, NEW t, NEW k, NEW S, NEW v
  PROVE  v \in Machine!Values(Pic(g, n, t, k, S)) <=>
           \/ \E j \in 1 .. n : v = g.slot[NIL][j]
           \/ v = g.bottom[NIL] \/ v = k
           \/ \E i \in GlobalVars : v = Globals(g)[i]
<1> DEFINE x == Pic(g, n, t, k, S)
           w == Stack(g, NIL, n)
<1>1. x.stack = w /\ x.closed = g.bottom[NIL] /\ x.cont = k /\ x.globals = Globals(g)
  BY DEF Pic
<1>2. DOMAIN w = 1 .. n /\ \A j \in 1 .. n : w[j] = g.slot[NIL][n - j + 1]
  BY DEF Stack
<1>3. Machine!GlobalVars = GlobalVars
  BY DEF Machine!GlobalVars, GlobalVars
<1> HIDE DEF x, w
<1>4. Machine!Values(x) = {w[j] : j \in DOMAIN w} \cup {g.bottom[NIL], k} \cup {Globals(g)[i] : i \in GlobalVars}
  BY <1>1, <1>3 DEF Machine!Values, Machine!ToSet
<1>5. \A j \in 1 .. n : n - j + 1 \in 1 .. n /\ n - (n - j + 1) + 1 = j
  OBVIOUS
<1>6. (\E j \in DOMAIN w : v = w[j]) <=> \E j \in 1 .. n : v = g.slot[NIL][j]
  BY <1>2, <1>5
<1> QED  BY <1>4, <1>6 DEF x

\* Nothing leads out of the objects.
Inside(S, v) == v = NIL \/ v \in DOMAIN S
Whole(x) ==
  /\ \A v \in Machine!Values(x) : Inside(x.store, v)
  /\ \A c \in DOMAIN x.store : \A v \in Refs(x.store[c]) : Inside(x.store, v)

\* What the refinement takes for the machine of the program.
LEMMA MachineShown ==
  ASSUME NEW g, Pictured(vm, pc, vm.cont, g)
  PROVE  /\ stack = Stack(g, NIL, pc.slots) /\ frame[pc.slots] = g.bottom[NIL]
         /\ globals = Globals(g)
         /\ Depicts(store, g)
         /\ Whole(Pic(g, pc.slots, pc.temps, vm.cont, store))
         /\ Starts = Machine!Values(Pic(g, pc.slots, pc.temps, vm.cont, store))
<1> DEFINE n == pc.slots
<1>1. PICK o : Sound(vm, o, n, 0) /\ Shows(vm, o, n, g)
  BY DEF Pictured
<1>2. n \in Nat /\ vm.env \in Word /\ Chain(vm, o, vm.env, "frame", NIL, n) /\ (n = 0 => vm.env = g.bottom[NIL])
  BY <1>1 DEF Sound, Shows, Machines, Word
<1>3. stack = Stack(g, NIL, n) /\ frame[n] = g.bottom[NIL]
  <2> DEFINE k == NIL
             e == vm.env
  <2>1. e \in Word /\ Chain(vm, o, e, "frame", k, n) /\ (n = 0 => e = g.bottom[k]) /\ (k = NIL \/ g.saved[k].slots = n)
    BY <1>2
  <2> HIDE DEF k, e, n
  <2>2. Slots(Spine(e, n), n) = Stack(g, k, n) /\ Spine(e, n)[n] = g.bottom[k]
    BY <1>1, <1>2, <2>1, FrameShown
  <2> QED  BY <2>2 DEF k, e, n, stack, frame
<1>4. globals = Globals(g)
  <2>1. ASSUME NEW i \in GlobalVars PROVE Global(vm, i) = Globals(g)[i]
    <3>1. i \div 2 \in Cell /\ o.role[i \div 2] = "global"
      BY <1>1, GlobalIs
    <3>2. vm.car[i \div 2] = g.car[i \div 2] /\ vm.cdr[i \div 2] = g.cdr[i \div 2]
      BY <1>1, <3>1 DEF Shows, CellShows
    <3> QED  BY <3>2 DEF Global, Globals
  <2>2. globals = [i \in GlobalVars |-> Globals(g)[i]]
    BY <2>1 DEF globals
  <2> QED  BY <2>2 DEF Globals
<1>5. ASSUME NEW c \in DOMAIN store PROVE c \in Cell /\ IsObject(o, c) /\ store[c] = Abs(g, c)
  <2>1. IsObject(o, c) /\ store[c] = Object(c)
    BY <1>1, StoreHolds
  <2> QED  BY <1>1, <2>1, ObjectShown DEF IsObject
<1>6. Depicts(store, g)
  BY <1>5 DEF Depicts
<1> DEFINE x == Pic(g, n, pc.temps, vm.cont, store)
<1>7. Starts = Machine!Values(x)
  <2>1. DOMAIN stack = 1 .. n /\ DOMAIN globals = GlobalVars
    BY <1>3 DEF Stack, globals
  <2>2. Machine!GlobalVars = GlobalVars
    BY DEF Machine!GlobalVars, GlobalVars
  <2>3. x.stack = stack /\ x.closed = frame[n] /\ x.cont = vm.cont /\ x.globals = globals
    BY <1>3, <1>4 DEF Pic
  <2> HIDE DEF x
  <2> QED  BY <2>1, <2>2, <2>3 DEF Starts, Machine!Values, Machine!ToSet
<1>8. \A v \in Starts : LiveRef(vm, o, v)
  <2>1. /\ \A j \in 1 .. n : LiveRef(vm, o, g.slot[NIL][j])
        /\ LiveRef(vm, o, g.bottom[NIL]) /\ LiveRef(vm, o, vm.cont)
        /\ \A i \in GlobalVars : LiveRef(vm, o, Globals(g)[i])
    BY <1>1, StartsLive
  <2> HIDE DEF n
  <2> QED  BY <1>2, <1>7, <2>1, ValuesAre
<1> DEFINE F == Followable
<1>9. /\ DOMAIN F = Live(vm) \ ReservedCell /\ DOMAIN F \subseteq Cell /\ \A c \in DOMAIN F : F[c] = Object(c)
      /\ DOMAIN store = Referred(F, Starts)
  BY StoreIs, LiveIs DEF Followable, Seen
<1>10. \A v : LiveRef(vm, o, v) => v = NIL \/ v \in DOMAIN F
  <2>1. \A c \in Cell : GlobalSound(vm, o, c)
    BY <1>1 DEF Sound, CellSound
  <2> QED  BY <1>9, <2>1 DEF LiveRef, IsObject, GlobalSound
<1> HIDE DEF F
<1>11. /\ Starts \cap DOMAIN F \subseteq DOMAIN store
       /\ \A c \in DOMAIN store : Refs(F[c]) \cap DOMAIN F \subseteq DOMAIN store
       /\ DOMAIN store \subseteq DOMAIN F
  BY <1>9, ReferredClosed
<1>12. \A v \in Starts : Inside(store, v)
  BY <1>8, <1>10, <1>11 DEF Inside
<1>13. ASSUME NEW c \in DOMAIN store PROVE \A v \in Refs(store[c]) : Inside(store, v)
  <2>1. store[c] = Abs(g, c) /\ IsObject(o, c) /\ c \in Live(vm)
    BY <1>5, <1>9, <1>11
  <2>2. F[c] = store[c]
    BY <1>1, <1>9, <1>11, StoreHolds
  <2>3. \A v \in Refs(store[c]) : LiveRef(vm, o, v)
    BY <1>1, <2>1, ObjectLive
  <2> QED  BY <1>10, <1>11, <2>2, <2>3 DEF Inside
<1>14. Whole(x)
  <2>1. x.store = store
    BY DEF Pic
  <2> HIDE DEF x
  <2> QED  BY <1>7, <1>12, <1>13, <2>1 DEF Whole
<1> QED  BY <1>3, <1>4, <1>6, <1>7, <1>14

\* The objects that the program can still find among S are those of the machine.
LEMMA StoreShown ==
  ASSUME NEW g, Pictured(vm, pc, vm.cont, g), NEW S, Depicts(S, g),
         NEW x, x = Pic(g, pc.slots, pc.temps, vm.cont, S), Whole(x)
  PROVE  store = Machine!Restrict(S, Machine!Referred(S, Machine!Values(x)))
<1> DEFINE n == pc.slots
           R == Starts
           F == Followable
<1>1. PICK o : Sound(vm, o, n, 0) /\ Shows(vm, o, n, g)
  BY DEF Pictured
<1>2. n \in Nat
  BY <1>1 DEF Sound
<1>3. Machine!Values(x) = R /\ x.store = S
  <2>1. R = Machine!Values(Pic(g, n, pc.temps, vm.cont, store))
    BY MachineShown
  <2>2. \A v : v \in R <=> v \in Machine!Values(x)
    <3> HIDE DEF n, R
    <3> QED  BY <1>2, <2>1, ValuesAre DEF n
  <2> QED  BY <2>2 DEF Pic
<1>4. \A v \in R : LiveRef(vm, o, v)
  <2>1. /\ \A j \in 1 .. n : LiveRef(vm, o, g.slot[NIL][j])
        /\ LiveRef(vm, o, g.bottom[NIL]) /\ LiveRef(vm, o, vm.cont)
        /\ \A i \in GlobalVars : LiveRef(vm, o, Globals(g)[i])
    BY <1>1, StartsLive
  <2> HIDE DEF n, R
  <2> QED  BY <1>2, <1>3, <2>1, ValuesAre DEF n
<1> HIDE DEF R
<1>5. \A c \in Referred(S, R) : c \in DOMAIN S /\ IsObject(o, c) /\ c \in Live(vm)
  BY <1>1, <1>4, FoundLive
<1>6. /\ DOMAIN F = Live(vm) \ ReservedCell /\ DOMAIN F \subseteq Cell /\ \A c \in DOMAIN F : F[c] = Object(c)
      /\ store = [c \in Referred(F, R) |-> F[c]]
  BY StoreIs, LiveIs DEF Followable, Seen, R
<1>7. \A c \in Referred(S, R) : c \in DOMAIN F /\ F[c] = S[c]
  <2> SUFFICES ASSUME NEW c \in Referred(S, R) PROVE c \in DOMAIN F /\ F[c] = S[c]
    OBVIOUS
  <2>1. c \in DOMAIN S /\ IsObject(o, c) /\ c \in Live(vm)
    BY <1>5
  <2>2. GlobalSound(vm, o, c)
    BY <1>1, <2>1 DEF IsObject, Sound, CellSound
  <2>3. c \in DOMAIN F
    BY <1>6, <2>1, <2>2 DEF GlobalSound, IsObject
  <2>4. Object(c) = Abs(g, c) /\ S[c] = Abs(g, c)
    BY <1>1, <2>1, ObjectShown DEF Depicts
  <2> QED  BY <1>6, <2>3, <2>4
<1> HIDE DEF F
<1>8. /\ Referred(S, R) \subseteq DOMAIN S /\ R \cap DOMAIN S \subseteq Referred(S, R)
      /\ \A c \in Referred(S, R) : Refs(S[c]) \cap DOMAIN S \subseteq Referred(S, R)
  BY ReferredClosed DEF Depicts
<1>9. /\ Referred(F, R) \subseteq DOMAIN F /\ R \cap DOMAIN F \subseteq Referred(F, R)
      /\ \A c \in Referred(F, R) : Refs(F[c]) \cap DOMAIN F \subseteq Referred(F, R)
  BY <1>6, ReferredClosed
<1>10. \A v \in R : Inside(S, v)
  BY <1>3 DEF Whole
<1>11. \A c \in DOMAIN S : \A v \in Refs(S[c]) : Inside(S, v)
  BY <1>3 DEF Whole
<1>12. Referred(F, R) \subseteq Referred(S, R)
  <2> DEFINE K == Referred(S, R)
  <2>1. R \cap DOMAIN F \subseteq K
    BY <1>6, <1>8, <1>10, NilAssumption DEF Inside
  <2>2. \A c \in K \cap DOMAIN F : Refs(F[c]) \cap DOMAIN F \subseteq K
    BY <1>6, <1>7, <1>8, <1>11, NilAssumption DEF Inside
  <2> HIDE DEF K
  <2>3. Referred(F, R) \subseteq K
    BY <2>1, <2>2, ReferredInside
  <2> QED  BY <2>3 DEF K
<1>13. Referred(S, R) \subseteq Referred(F, R)
  <2> DEFINE K == Referred(S, R) \cap Referred(F, R)
  <2>1. R \cap DOMAIN S \subseteq K
    BY <1>7, <1>8, <1>9
  <2>2. \A c \in K \cap DOMAIN S : Refs(S[c]) \cap DOMAIN S \subseteq K
    BY <1>7, <1>8, <1>9
  <2>3. Referred(S, R) \subseteq K
    <3> HIDE DEF K
    <3> QED  BY <2>1, <2>2, ReferredInside
  <2> QED  BY <2>3
<1>14. Referred(F, R) = Referred(S, R)
  BY <1>12, <1>13
<1>15. store = [c \in Referred(S, R) |-> S[c]]
  BY <1>6, <1>7, <1>14
<1>16. Machine!Referred(S, R) = Referred(S, R)
  BY DEF Referred, Machine!Referred, Refs, Machine!Refs
<1> QED  BY <1>3, <1>15, <1>16 DEF Machine!Restrict

\* All that the refinement says of a state that shows something.
AsShown ==
  \A g, S :
    Pictured(vm, pc, vm.cont, g) /\ Depicts(S, g) /\ Whole(Pic(g, pc.slots, pc.temps, vm.cont, S)) =>
      /\ stack = Stack(g, NIL, pc.slots) /\ frame[pc.slots] = g.bottom[NIL] /\ globals = Globals(g)
      /\ store = Machine!Restrict(S, Machine!Referred(S, Machine!Values(Pic(g, pc.slots, pc.temps, vm.cont, S))))

\* It follows from the two lemmas above.
LEMMA EverythingShown == AsShown
<1> SUFFICES ASSUME NEW g, NEW S, Pictured(vm, pc, vm.cont, g), Depicts(S, g),
                    Whole(Pic(g, pc.slots, pc.temps, vm.cont, S))
             PROVE  /\ stack = Stack(g, NIL, pc.slots) /\ frame[pc.slots] = g.bottom[NIL] /\ globals = Globals(g)
                    /\ store = Machine!Restrict(S, Machine!Referred(S, Machine!Values(
                                                     Pic(g, pc.slots, pc.temps, vm.cont, S))))
  BY DEF AsShown
<1>1. stack = Stack(g, NIL, pc.slots) /\ frame[pc.slots] = g.bottom[NIL] /\ globals = Globals(g)
  BY MachineShown
<1>2. store = Machine!Restrict(S, Machine!Referred(S, Machine!Values(Pic(g, pc.slots, pc.temps, vm.cont, S))))
  BY StoreShown
<1> QED  BY <1>1, <1>2

\* The virtual machine goes on as s, at the address at.
Goes(s, at) == vm' = s /\ pc' = at /\ ~halted /\ halted' = halted /\ at.slots <= MaxSlots

\* A machine that shows h next has become the machine of the program that h shows.
LEMMA Becomes ==
  ASSUME NEW s, NEW at, Goes(s, at), NEW k, NEW h, Pictured(s, at, k, h), NEW S, Depicts(S, h),
         NEW x, x = Pic(h, at.slots, at.temps, k, S), Whole(x)
  PROVE  Machine!Become(x)
<1>1. AsShown'
  BY EverythingShown, PTL
<1>2. /\ stack' = Stack(h, NIL, at.slots) /\ (frame[pc.slots])' = h.bottom[NIL] /\ globals' = Globals(h)
      /\ store' = Machine!Restrict(S, Machine!Referred(S, Machine!Values(x)))
  <2>1. (Pictured(vm, pc, vm.cont, h) /\ Depicts(S, h) /\ Whole(Pic(h, pc.slots, pc.temps, vm.cont, S)) =>
           /\ stack = Stack(h, NIL, pc.slots) /\ frame[pc.slots] = h.bottom[NIL] /\ globals = Globals(h)
           /\ store = Machine!Restrict(S, Machine!Referred(S, Machine!Values(Pic(h, pc.slots, pc.temps, vm.cont, S)))))'
    BY <1>1 DEF AsShown
  <2>2. s.cont = k
    BY DEF Pictured
  <2>3. vm' = s /\ pc' = at
    BY DEF Goes
  <2> QED  BY <2>1, <2>2, <2>3
<1>3. /\ x.stack = Stack(h, NIL, at.slots) /\ x.closed = h.bottom[NIL] /\ x.temps = at.temps
      /\ x.cont = k /\ x.globals = Globals(h) /\ x.store = S
  BY DEF Pic
<1>4. Len(x.stack) <= MaxSlots
  <2>1. at.slots \in Nat
    BY DEF Pictured, Address
  <2>2. Len(x.stack) = at.slots
    BY <1>3, <2>1 DEF Stack
  <2> QED  BY <2>2 DEF Goes
<1>5. vm.cont' = k /\ pc.temps' = at.temps /\ ~halted /\ halted' = halted
  BY DEF Goes, Pictured
<1> HIDE DEF Pic, Stack
<1> QED  BY <1>2, <1>3, <1>4, <1>5 DEF Machine!Become

\* What it means that nothing leads out of the objects.
LEMMA WholeIs ==
  ASSUME NEW g, NEW n \in Nat, NEW t, NEW k, NEW S
  PROVE  Whole(Pic(g, n, t, k, S)) <=>
           /\ \A j \in 1 .. n : Inside(S, g.slot[NIL][j])
           /\ Inside(S, g.bottom[NIL]) /\ Inside(S, k)
           /\ \A i \in GlobalVars : Inside(S, Globals(g)[i])
           /\ \A c \in DOMAIN S : \A v \in Refs(S[c]) : Inside(S, v)
<1> DEFINE x == Pic(g, n, t, k, S)
<1>1. x.store = S
  BY DEF Pic
<1> HIDE DEF x
<1>2. \A v : v \in Machine!Values(x) <=>
             \/ \E j \in 1 .. n : v = g.slot[NIL][j]
             \/ v = g.bottom[NIL] \/ v = k
             \/ \E i \in GlobalVars : v = Globals(g)[i]
  BY ValuesAre DEF x
<1> QED  BY <1>1, <1>2 DEF Whole, x

\* The fields of the machine of the program.
LEMMA PicIs ==
  ASSUME NEW g, NEW n, NEW t, NEW k, NEW S, NEW x, x = Pic(g, n, t, k, S)
  PROVE  /\ x.stack = Stack(g, NIL, n) /\ x.closed = g.bottom[NIL] /\ x.temps = t
         /\ x.cont = k /\ x.globals = Globals(g) /\ x.store = S
BY DEF Pic

\* The machine of the program by its fields, and with two of them set.
Fields(a, b, c, d, e, f) == [stack |-> a, closed |-> b, temps |-> c, cont |-> d, globals |-> e, store |-> f]
OnStack(x, u, z) == [x EXCEPT !.stack = u, !.temps = z]

\* Two fields are set.
LEMMA TwoFieldsSet ==
  ASSUME NEW a, NEW b, NEW c, NEW d, NEW e, NEW f, NEW u, NEW z
  PROVE  OnStack(Fields(a, b, c, d, e, f), u, z) = Fields(u, b, z, d, e, f)
<1> DEFINE x == Fields(a, b, c, d, e, f)
           y == OnStack(x, u, z)
<1>1. x \in [stack : {a}, closed : {b}, temps : {c}, cont : {d}, globals : {e}, store : {f}]
  BY DEF Fields
<1> HIDE DEF x
<1>2. y \in [stack : {u}, closed : {b}, temps : {z}, cont : {d}, globals : {e}, store : {f}]
  BY <1>1 DEF OnStack
<1> HIDE DEF y
<1>3. y = [stack |-> u, closed |-> b, temps |-> z, cont |-> d, globals |-> e, store |-> f]
  BY <1>2
<1> QED  BY <1>3 DEF y, x, Fields

\* Its frame is set.
LEMMA PicStack ==
  ASSUME NEW g, NEW n, NEW t, NEW k, NEW S, NEW u, NEW z,
         NEW h, NEW i, u = Stack(h, NIL, i), h.bottom[NIL] = g.bottom[NIL], Globals(h) = Globals(g)
  PROVE  OnStack(Pic(g, n, t, k, S), u, z) = Pic(h, i, z, k, S)
<1>1. Pic(g, n, t, k, S) = Fields(Stack(g, NIL, n), g.bottom[NIL], t, k, Globals(g), S)
  BY DEF Pic, Fields
<1>2. Pic(h, i, z, k, S) = Fields(u, g.bottom[NIL], z, k, Globals(g), S)
  BY DEF Pic, Fields
<1> QED  BY <1>1, <1>2, TwoFieldsSet

\* The machine of the program, with less on its stack.
LEMMA Dropped ==
  ASSUME NEW g, NEW n \in Nat, NEW t, NEW k, NEW S, NEW i \in Nat, i <= n
  PROVE  /\ Machine!Drop(Pic(g, n, t, k, S), i) = Pic(g, n - i, t - i, k, S)
         /\ Whole(Pic(g, n, t, k, S)) => Whole(Pic(g, n - i, t - i, k, S))
<1> DEFINE x == Pic(g, n, t, k, S)
           w == Stack(g, NIL, n)
           y == Stack(g, NIL, n - i)
<1>1. w = [j \in 1 .. n |-> g.slot[NIL][n - j + 1]] /\ Len(w) = n
  BY DEF Stack
<1>2. SubSeq(w, i + 1, Len(w)) = y
  <2>1. y = [j \in 1 .. n - i |-> g.slot[NIL][n - i - j + 1]]
    BY DEF Stack
  <2>2. SubSeq(w, i + 1, n) = [j \in 1 .. (n - i) |-> w[i + j]]
    BY <1>1
  <2>3. \A j \in 1 .. n - i : i + j \in 1 .. n /\ n - (i + j) + 1 = n - i - j + 1
    OBVIOUS
  <2> HIDE DEF w, y
  <2>4. \A j \in 1 .. n - i : w[i + j] = g.slot[NIL][n - i - j + 1]
    BY <1>1, <2>3
  <2> QED  BY <1>1, <2>1, <2>2, <2>4
<1> HIDE DEF w, y
<1>3. Machine!Drop(x, i) = Pic(g, n - i, t - i, k, S)
  <2>1. SubSeq(Stack(g, NIL, n), i + 1, Len(Stack(g, NIL, n))) = Stack(g, NIL, n - i)
    BY <1>2 DEF w, y
  <2> DEFINE u == Stack(g, NIL, n - i)
             z == t - i
             r == Machine!Drop(x, i)
             l == n - i
  <2>2. x.stack = Stack(g, NIL, n) /\ x.temps = t /\ x = Pic(g, n, t, k, S)
    BY PicIs
  <2> HIDE DEF x
  <2>3. r = OnStack(x, u, z)
    BY <2>1, <2>2 DEF Machine!Drop, OnStack
  <2>4. u = Stack(g, NIL, l) /\ g.bottom[NIL] = g.bottom[NIL] /\ Globals(g) = Globals(g)
    OBVIOUS
  <2> HIDE DEF u, z, r, l
  <2>5. r = Pic(g, l, z, k, S)
    BY <2>2, <2>3, <2>4, PicStack
  <2> QED  BY <2>5 DEF r, l, z
<1>4. Whole(x) => Whole(Pic(g, n - i, t - i, k, S))
  <2>1. n - i \in Nat /\ \A j \in 1 .. n - i : j \in 1 .. n
    OBVIOUS
  <2> QED  BY <2>1, WholeIs
<1> QED  BY <1>3, <1>4

\* The machine of the program, with one value more on its stack.
LEMMA PutOn ==
  ASSUME NEW g, NEW n \in Nat, NEW t, NEW k, NEW S, NEW v,
         NEW h, h.slot[NIL][n + 1] = v, OnlySlot(g, h, n + 1)
  PROVE  /\ Machine!Put(Pic(g, n, t, k, S), v) = Pic(h, n + 1, t + 1, k, S)
         /\ Whole(Pic(g, n, t, k, S)) /\ Inside(S, v) => Whole(Pic(h, n + 1, t + 1, k, S))
<1> DEFINE x == Pic(g, n, t, k, S)
           w == Stack(g, NIL, n)
           y == Stack(h, NIL, n + 1)
<1>1. w = [j \in 1 .. n |-> g.slot[NIL][n - j + 1]] /\ Len(w) = n
  BY DEF Stack
<1>2. \A j \in 1 .. n : h.slot[NIL][j] = g.slot[NIL][j]
  BY DEF OnlySlot
<1>3. <<v>> \o w = y
  <2>1. y = [j \in 1 .. n + 1 |-> h.slot[NIL][(n + 1) - j + 1]]
    BY DEF Stack
  <2>2. <<v>> \o w = [j \in 1 .. n + 1 |-> IF j = 1 THEN v ELSE w[j - 1]]
    BY <1>1
  <2>3. (n + 1) - 1 + 1 = n + 1 /\ \A j \in 2 .. n + 1 : j - 1 \in 1 .. n /\ (n + 1) - j + 1 \in 1 .. n
                                      /\ n - (j - 1) + 1 = (n + 1) - j + 1
    OBVIOUS
  <2> HIDE DEF w, y
  <2>4. \A j \in 1 .. n + 1 : (IF j = 1 THEN v ELSE w[j - 1]) = h.slot[NIL][(n + 1) - j + 1]
    <3> SUFFICES ASSUME NEW j \in 1 .. n + 1 PROVE (IF j = 1 THEN v ELSE w[j - 1]) = h.slot[NIL][(n + 1) - j + 1]
      OBVIOUS
    <3>1. CASE j = 1
      BY <2>3, <3>1
    <3>2. CASE j # 1
      <4>1. j \in 2 .. n + 1
        BY <3>2
      <4>2. w[j - 1] = g.slot[NIL][n - (j - 1) + 1]
        BY <1>1, <2>3, <4>1
      <4> QED  BY <1>2, <2>3, <3>2, <4>1, <4>2
    <3> QED  BY <3>1, <3>2
  <2> QED  BY <2>1, <2>2, <2>4
<1>4. Globals(h) = Globals(g) /\ h.bottom = g.bottom
  BY DEF OnlySlot, Globals
<1> HIDE DEF w, y
<1>5. Machine!Put(x, v) = Pic(h, n + 1, t + 1, k, S)
  <2>1. <<v>> \o Stack(g, NIL, n) = Stack(h, NIL, n + 1)
    BY <1>3 DEF w, y
  <2> DEFINE u == Stack(h, NIL, n + 1)
             z == t + 1
             r == Machine!Put(x, v)
             l == n + 1
  <2>2. x.stack = Stack(g, NIL, n) /\ x.temps = t /\ x = Pic(g, n, t, k, S)
    BY PicIs
  <2> HIDE DEF x
  <2>3. r = OnStack(x, u, z)
    BY <2>1, <2>2 DEF Machine!Put, OnStack
  <2>4. u = Stack(h, NIL, l) /\ h.bottom[NIL] = g.bottom[NIL]
    BY <1>4
  <2> HIDE DEF u, z, r, l
  <2>5. r = Pic(h, l, z, k, S)
    BY <1>4, <2>2, <2>3, <2>4, PicStack
  <2> QED  BY <2>5 DEF r, l, z
<1>6. Whole(x) /\ Inside(S, v) => Whole(Pic(h, n + 1, t + 1, k, S))
  <2>1. \A j \in 1 .. n + 1 : j = n + 1 \/ j \in 1 .. n
    OBVIOUS
  <2>2. n + 1 \in Nat
    OBVIOUS
  <2>3. (\A j \in 1 .. n : Inside(S, g.slot[NIL][j])) /\ Inside(S, v) =>
          \A j \in 1 .. n + 1 : Inside(S, h.slot[NIL][j])
    BY <1>2, <2>1
  <2> QED  BY <1>4, <2>2, <2>3, WholeIs
<1> QED  BY <1>5, <1>6

\* One object more, or another one in its place.
With(S, c, x) == [d \in {c} \cup DOMAIN S |-> IF d = c THEN x ELSE S[d]]

\* The machine of the program, with one object more.
LEMMA Added ==
  ASSUME NEW g, NEW n \in Nat, NEW t, NEW k, NEW S, NEW c, NEW x
  PROVE  /\ Machine!Add(Pic(g, n, t, k, S), c, x) = Pic(g, n, t, k, With(S, c, x))
         /\ Whole(Pic(g, n, t, k, S)) /\ (\A v \in Refs(x) : v = c \/ Inside(S, v)) =>
              Whole(Pic(g, n, t, k, With(S, c, x)))
<1> DEFINE T == With(S, c, x)
<1>1. DOMAIN T = {c} \cup DOMAIN S /\ T[c] = x /\ \A d \in DOMAIN S : d # c => T[d] = S[d]
  BY DEF With
<1>2. Machine!Add(Pic(g, n, t, k, S), c, x) = Pic(g, n, t, k, T)
  BY DEF Machine!Add, Pic, With
<1> HIDE DEF T
<1>3. \A v : Inside(S, v) => Inside(T, v)
  BY <1>1 DEF Inside
<1>4. Whole(Pic(g, n, t, k, S)) /\ (\A v \in Refs(x) : v = c \/ Inside(S, v)) => Whole(Pic(g, n, t, k, T))
  <2> SUFFICES ASSUME Whole(Pic(g, n, t, k, S)), \A v \in Refs(x) : v = c \/ Inside(S, v)
               PROVE  Whole(Pic(g, n, t, k, T))
    OBVIOUS
  <2>1. /\ \A j \in 1 .. n : Inside(S, g.slot[NIL][j])
        /\ Inside(S, g.bottom[NIL]) /\ Inside(S, k)
        /\ \A i \in GlobalVars : Inside(S, Globals(g)[i])
        /\ \A d \in DOMAIN S : \A v \in Refs(S[d]) : Inside(S, v)
    BY WholeIs
  <2>2. \A d \in DOMAIN T : \A v \in Refs(T[d]) : Inside(T, v)
    BY <1>1, <1>3, <2>1 DEF Inside
  <2> QED  BY <1>3, <2>1, <2>2, WholeIs
<1> QED  BY <1>2, <1>4 DEF T

\* What the view says of an object.
SameObject(g, h, c) ==
  /\ h.kind[c] = g.kind[c] /\ h.car[c] = g.car[c] /\ h.cdr[c] = g.cdr[c]
  /\ h.slot[c] = g.slot[c] /\ h.bottom[c] = g.bottom[c] /\ h.saved[c] = g.saved[c]

\* Where the view stays, it shows the same objects.
LEMMA AbsKept ==
  ASSUME NEW g, NEW h, NEW c, SameObject(g, h, c)
  PROVE  Abs(h, c) = Abs(g, c)
BY DEF SameObject, Abs, Stack

\* A slot of the running procedure is no object.
LEMMA SlotDepicts ==
  ASSUME NEW g, NEW h, NEW i, OnlySlot(g, h, i), NEW S, Depicts(S, g)
  PROVE  Depicts(S, h)
<1>1. ASSUME NEW c \in Cell PROVE SameObject(g, h, c)
  BY NilAssumption DEF OnlySlot, SameObject, Value
<1> QED  BY <1>1, AbsKept DEF Depicts

-----------------------------------------------------------------------------
(* What the program sees of a state, and of the end of an instruction. *)

\* The interpreter stops: the program is seen to have stopped.
LEMMA Stopped ==
  ASSUME vm' = vm, pc' = pc, ~halted, halted' = TRUE
  PROVE  Machine!Halt
<1>1. stack' = stack
  BY DEF stack, frame, Slots, Spine
<1>2. (frame[pc.slots])' = frame[pc.slots]
  BY DEF frame, Spine
<1>3. globals' = globals /\ vm.cont' = vm.cont /\ pc.temps' = pc.temps
  BY DEF globals, Global
<1>4. store' = store
  BY DEF store, stack, frame, Slots, Spine, globals, Global, Live, Followed, Object, Registers,
         Holds, SavedFrame, IsA, Free, FreeList, SavedAt, SavedSpine, Referred
<1> QED  BY <1>1, <1>2, <1>3, <1>4 DEF Machine!Halt

\* An instruction ends, or the heap is exhausted and the interpreter stops.
LEMMA DoCases ==
  ASSUME NEW s, NEW at, Do(s, at)
  PROVE  (~s.exhausted /\ Goes(s, at)) \/ Machine!Halt
<1>1. CASE s.exhausted
  BY <1>1, Stopped DEF Do
<1>2. CASE ~s.exhausted
  BY <1>2 DEF Do, Goes
<1> QED  BY <1>1, <1>2

\* The machine of the program, as view g shows it.
Shown(g, m) ==
  /\ Pictured(vm, pc, vm.cont, g) /\ m = Pic(g, pc.slots, pc.temps, vm.cont, store)
  /\ Whole(m) /\ Depicts(store, g)

\* The machine of the refinement is the one that the view shows.
LEMMA MachineIs ==
  ASSUME NEW g, Pictured(vm, pc, vm.cont, g)
  PROVE  Shown(g, Machine!machine)
<1> DEFINE x == Pic(g, pc.slots, pc.temps, vm.cont, store)
<1>1. /\ stack = Stack(g, NIL, pc.slots) /\ frame[pc.slots] = g.bottom[NIL]
      /\ globals = Globals(g) /\ Depicts(store, g) /\ Whole(x)
  BY MachineShown
<1>2. Machine!machine = x
  BY <1>1 DEF Machine!machine, Pic
<1> QED  BY <1>1, <1>2 DEF Shown

\* It goes on with one more slot.
LEMMA PutBecomes ==
  ASSUME NEW u, NEW S, Depicts(S, u), NEW n \in Nat, NEW t, NEW k,
         NEW d, d = Pic(u, n, t, k, S), Whole(d), NEW v, Inside(S, v),
         NEW s, NEW at, Goes(s, at), at.slots = n + 1, at.temps = t + 1,
         NEW h, Pictured(s, at, k, h), h.slot[NIL][n + 1] = v, OnlySlot(u, h, n + 1)
  PROVE  Machine!Become(Machine!Put(d, v))
<1> DEFINE x == Pic(h, n + 1, t + 1, k, S)
<1>1. Machine!Put(d, v) = x /\ Whole(x)
  BY PutOn
<1>2. Depicts(S, h)
  <2>1. PICK i : i = n + 1
    OBVIOUS
  <2>2. OnlySlot(u, h, i)
    BY <2>1
  <2> QED  BY <2>2, SlotDepicts
<1>3. x = Pic(h, at.slots, at.temps, k, S)
  OBVIOUS
<1> HIDE DEF x
<1>4. Machine!Become(x)
  BY <1>1, <1>2, <1>3, Becomes
<1> QED  BY <1>1, <1>4

\* Its fields, and that nothing leads out of its objects.
LEMMA ShownIs ==
  ASSUME NEW g, NEW m, Shown(g, m)
  PROVE  /\ pc.slots \in Nat /\ pc.temps \in Nat /\ pc.temps <= pc.slots
         /\ m.closed = g.bottom[NIL] /\ m.temps = pc.temps /\ m.cont = vm.cont
         /\ m.globals = Globals(g) /\ m.store = store /\ m.stack = Stack(g, NIL, pc.slots)
         /\ \A j \in 1 .. pc.slots : /\ m.stack[j] = g.slot[NIL][pc.slots - j + 1]
                                     /\ Inside(store, g.slot[NIL][j])
         /\ Inside(store, g.bottom[NIL]) /\ Inside(store, vm.cont)
         /\ \A i \in GlobalVars : Inside(store, Globals(g)[i])
         /\ \A c \in DOMAIN store : store[c] = Abs(g, c) /\ \A v \in Refs(store[c]) : Inside(store, v)
<1>1. pc.slots \in Nat /\ pc.temps \in Nat /\ pc.temps <= pc.slots
  BY DEF Shown, Pictured, Address
<1>2. /\ m.closed = g.bottom[NIL] /\ m.temps = pc.temps /\ m.cont = vm.cont
      /\ m.globals = Globals(g) /\ m.store = store /\ m.stack = Stack(g, NIL, pc.slots)
  BY PicIs DEF Shown
<1>3. \A j \in 1 .. pc.slots : m.stack[j] = g.slot[NIL][pc.slots - j + 1]
  BY <1>1, <1>2 DEF Stack
<1>4. /\ \A j \in 1 .. pc.slots : Inside(store, g.slot[NIL][j])
      /\ Inside(store, g.bottom[NIL]) /\ Inside(store, vm.cont)
      /\ \A i \in GlobalVars : Inside(store, Globals(g)[i])
      /\ \A c \in DOMAIN store : \A v \in Refs(store[c]) : Inside(store, v)
  BY <1>1, WholeIs DEF Shown
<1>5. \A c \in DOMAIN store : store[c] = Abs(g, c)
  BY DEF Shown, Depicts
<1> QED  BY <1>1, <1>2, <1>3, <1>4, <1>5

\* What is on top of its stack.
LEMMA TopsAre ==
  ASSUME NEW g, NEW m, Shown(g, m)
  PROVE  /\ pc.temps > 0 => m.stack[1] = TopOf(vm) /\ Inside(store, TopOf(vm))
         /\ pc.temps > 1 => m.stack[2] = Second(vm) /\ Inside(store, Second(vm))
<1>1. /\ pc.slots \in Nat /\ pc.temps \in Nat /\ pc.temps <= pc.slots
      /\ \A j \in 1 .. pc.slots : /\ m.stack[j] = g.slot[NIL][pc.slots - j + 1]
                                  /\ Inside(store, g.slot[NIL][j])
  BY ShownIs
<1>2. pc.temps > 0 => /\ TopOf(vm) = g.slot[NIL][pc.slots]
                      /\ pc.temps > 1 => Second(vm) = g.slot[NIL][pc.slots - 1]
  BY TopIs DEF Shown
<1>3. ASSUME pc.temps > 0 PROVE m.stack[1] = TopOf(vm) /\ Inside(store, TopOf(vm))
  <2>1. 1 \in 1 .. pc.slots /\ pc.slots \in 1 .. pc.slots /\ pc.slots - 1 + 1 = pc.slots
    BY <1>1, <1>3
  <2> QED  BY <1>1, <1>2, <1>3, <2>1
<1>4. ASSUME pc.temps > 1 PROVE m.stack[2] = Second(vm) /\ Inside(store, Second(vm))
  <2>1. 2 \in 1 .. pc.slots /\ pc.slots - 1 \in 1 .. pc.slots /\ pc.slots - 2 + 1 = pc.slots - 1
    BY <1>1, <1>4
  <2> QED  BY <1>1, <1>2, <1>4, <2>1
<1> QED  BY <1>3, <1>4

\* The store holds no garbage.
LEMMA StoreFound ==
  ASSUME NEW g, NEW m, Shown(g, m)
  PROVE  DOMAIN store \subseteq Machine!Referred(store, Machine!Values(m))
<1>1. store = Machine!Restrict(store, Machine!Referred(store, Machine!Values(m)))
  BY StoreShown DEF Shown
<1> QED  BY <1>1 DEF Machine!Restrict

\* An object of the program that a value names, as the machine holds it.
LEMMA ObjectFound ==
  ASSUME NEW g, NEW m, Shown(g, m), NEW v, Inside(store, v), NEW t, IsA(v, t)
  PROVE  /\ v \in DOMAIN store /\ store[v] = Abs(g, v)
         /\ \A o : Sound(vm, o, pc.slots, 0) => IsObject(o, v)
         /\ t # CONTINUATION_TYPE => g.kind[v] = t /\ g.car[v] = vm.car[v] /\ g.cdr[v] = vm.cdr[v]
         /\ t = CONTINUATION_TYPE /\ v \notin vm.spent => g.kind[v] = t
<1>1. v \in DOMAIN store /\ v \in Cell /\ vm.type[v] = t
  BY NilAssumption DEF Inside, IsA
<1>2. store[v] = Abs(g, v)
  BY <1>1, ShownIs
<1>3. PICK q : Sound(vm, q, pc.slots, 0) /\ Shows(vm, q, pc.slots, g)
  BY DEF Shown, Pictured
<1>4. \A o : Sound(vm, o, pc.slots, 0) => IsObject(o, v)
  BY <1>1, StoreHolds
<1>5. CellShows(vm, q, g, v) /\ IsObject(q, v)
  BY <1>1, <1>3, <1>4 DEF Shows
<1>6. /\ g.kind[v] = KindOf(vm, v) /\ g.car[v] = vm.car[v]
      /\ t # CONTINUATION_TYPE => g.cdr[v] = vm.cdr[v]
  BY <1>1, <1>5 DEF CellShows, IsObject
<1>7. /\ t # CONTINUATION_TYPE => g.kind[v] = t
      /\ t = CONTINUATION_TYPE /\ v \notin vm.spent => g.kind[v] = t
  BY <1>1, <1>6 DEF KindOf
<1> QED  BY <1>1, <1>2, <1>4, <1>6, <1>7

\* A pair, a closure, a string or a continuation of the program.
LEMMA KindFound ==
  ASSUME NEW g, NEW m, Shown(g, m), NEW v, Inside(store, v), NEW t, IsA(v, t)
  PROVE  /\ t = CONS_TYPE => /\ Machine!IsA(m, v, "pair") /\ m.store[v] = Pair(vm.car[v], vm.cdr[v])
                              /\ Inside(store, vm.car[v]) /\ Inside(store, vm.cdr[v])
         /\ t = CLOSURE_TYPE => /\ Machine!IsA(m, v, "closure") /\ m.store[v] = Closure(vm.car[v], vm.cdr[v])
                                 /\ Inside(store, vm.car[v])
         /\ t = STRING_TYPE => /\ Machine!IsA(m, v, "string") /\ m.store[v] = Str(vm.car[v])
                                /\ Inside(store, vm.car[v])
         /\ t = CONTINUATION_TYPE /\ v \notin vm.spent =>
              /\ Machine!IsA(m, v, "cont")
              /\ m.store[v] = Frame(Stack(g, v, g.saved[v].slots), g.bottom[v], g.saved[v].temps, g.car[v])
              /\ \A j \in 1 .. g.saved[v].slots : Inside(store, Stack(g, v, g.saved[v].slots)[j])
              /\ Inside(store, g.bottom[v]) /\ Inside(store, g.car[v])
<1>1. /\ v \in DOMAIN store /\ store[v] = Abs(g, v)
      /\ t # CONTINUATION_TYPE => g.kind[v] = t /\ g.car[v] = vm.car[v] /\ g.cdr[v] = vm.cdr[v]
      /\ t = CONTINUATION_TYPE /\ v \notin vm.spent => g.kind[v] = t
  BY ObjectFound
<1>2. m.store = store /\ \A w \in Refs(store[v]) : Inside(store, w)
  BY <1>1, ShownIs
<1>3. CASE t = CONS_TYPE
  <2>1. t # CONTINUATION_TYPE
    BY <1>3 DEF CONS_TYPE, CONTINUATION_TYPE
  <2>2. store[v] = Pair(vm.car[v], vm.cdr[v])
    BY <1>1, <1>3, <2>1, AbsIs
  <2>3. Inside(store, vm.car[v]) /\ Inside(store, vm.cdr[v])
    BY <1>2, <2>2, RefsOf
  <2>4. Machine!IsA(m, v, "pair")
    BY <1>1, <1>2, <2>2 DEF Machine!IsA, Pair
  <2> QED  BY <1>2, <1>3, <2>2, <2>3, <2>4 DEF CONS_TYPE, CLOSURE_TYPE, STRING_TYPE, CONTINUATION_TYPE
<1>4. CASE t = CLOSURE_TYPE
  <2>1. t # CONTINUATION_TYPE
    BY <1>4 DEF CLOSURE_TYPE, CONTINUATION_TYPE
  <2>2. store[v] = Closure(vm.car[v], vm.cdr[v])
    BY <1>1, <1>4, <2>1, AbsIs
  <2>3. Inside(store, vm.car[v])
    BY <1>2, <2>2, RefsOf
  <2>4. Machine!IsA(m, v, "closure")
    BY <1>1, <1>2, <2>2 DEF Machine!IsA, Closure
  <2> QED  BY <1>2, <1>4, <2>2, <2>3, <2>4 DEF CONS_TYPE, CLOSURE_TYPE, STRING_TYPE, CONTINUATION_TYPE
<1>5. CASE t = STRING_TYPE
  <2>1. t # CONTINUATION_TYPE
    BY <1>5 DEF STRING_TYPE, CONTINUATION_TYPE
  <2>2. store[v] = Str(vm.car[v])
    BY <1>1, <1>5, <2>1, AbsIs
  <2>3. Inside(store, vm.car[v])
    BY <1>2, <2>2, RefsOf
  <2>4. Machine!IsA(m, v, "string")
    BY <1>1, <1>2, <2>2 DEF Machine!IsA, Str
  <2> QED  BY <1>2, <1>5, <2>2, <2>3, <2>4 DEF CONS_TYPE, CLOSURE_TYPE, STRING_TYPE, CONTINUATION_TYPE
<1>6. CASE t = CONTINUATION_TYPE /\ v \notin vm.spent
  <2> DEFINE w == Stack(g, v, g.saved[v].slots)
  <2>1. store[v] = Frame(w, g.bottom[v], g.saved[v].temps, g.car[v])
    BY <1>1, <1>6, AbsIs
  <2>2. DOMAIN w = 1 .. g.saved[v].slots
    BY DEF Stack
  <2> HIDE DEF w
  <2>3. Refs(store[v]) = {w[j] : j \in DOMAIN w} \cup {g.bottom[v], g.car[v]}
    BY <2>1, RefsOf
  <2>4. /\ \A j \in 1 .. g.saved[v].slots : Inside(store, w[j])
        /\ Inside(store, g.bottom[v]) /\ Inside(store, g.car[v])
    BY <1>2, <2>2, <2>3
  <2>5. Machine!IsA(m, v, "cont")
    BY <1>1, <1>2, <2>1 DEF Machine!IsA, Frame
  <2> QED  BY <1>2, <1>6, <2>1, <2>4, <2>5 DEF CONS_TYPE, CLOSURE_TYPE, STRING_TYPE, CONTINUATION_TYPE, w
<1> QED  BY <1>3, <1>4, <1>5, <1>6

-----------------------------------------------------------------------------
(* The instructions that put, replace or drop a slot. *)

\* A value has been pushed.
LEMMA SlotPut ==
  ASSUME NEW g, NEW m, Shown(g, m), NEW v, Inside(store, v),
         NEW s, NEW at, at = Moved(0, 1), Goes(s, at), SlotSet(g, pc.slots + 1, v, s, at, vm.cont)
  PROVE  Machine!Become(Machine!Put(m, v))
<1>1. PICK h : Pictured(s, at, vm.cont, h) /\ h.slot[NIL][pc.slots + 1] = v /\ OnlySlot(g, h, pc.slots + 1)
  BY DEF SlotSet
<1>2. PICK n, t, k, S : n = pc.slots /\ t = pc.temps /\ k = vm.cont /\ S = store
  OBVIOUS
<1>3. n \in Nat /\ at.slots = n + 1 /\ at.temps = t + 1
  BY <1>2, ShownIs DEF Moved
<1>4. Depicts(S, g) /\ m = Pic(g, n, t, k, S) /\ Whole(m) /\ Inside(S, v)
  BY <1>2 DEF Shown
<1>5. Pictured(s, at, k, h) /\ h.slot[NIL][n + 1] = v /\ OnlySlot(g, h, n + 1)
  BY <1>1, <1>2
<1> QED  BY <1>3, <1>4, <1>5, PutBecomes

\* The values on top have been replaced by one.
LEMMA SlotReplaced ==
  ASSUME NEW g, NEW m, Shown(g, m), NEW v, Inside(store, v), NEW i \in Nat, i <= pc.temps,
         NEW s, NEW at, at = Moved(i, 1), Goes(s, at), SlotSet(g, pc.slots - i + 1, v, s, at, vm.cont)
  PROVE  Machine!Become(Machine!Put(Machine!Drop(m, i), v))
<1>1. PICK h : Pictured(s, at, vm.cont, h) /\ h.slot[NIL][pc.slots - i + 1] = v /\ OnlySlot(g, h, pc.slots - i + 1)
  BY DEF SlotSet
<1>0. pc.slots \in Nat /\ pc.temps \in Nat /\ i <= pc.slots
  BY ShownIs
<1>2. PICK n, t, k, S, d : n = pc.slots - i /\ t = pc.temps - i /\ k = vm.cont /\ S = store /\ d = Machine!Drop(m, i)
  OBVIOUS
<1>3. n \in Nat /\ at.slots = n + 1 /\ at.temps = t + 1
  BY <1>0, <1>2 DEF Moved
<1>4. d = Pic(g, n, t, k, S) /\ Whole(d)
  <2>1. PICK l : l = pc.slots
    OBVIOUS
  <2>2. l \in Nat /\ i <= l /\ m = Pic(g, l, pc.temps, k, S) /\ Whole(m)
    BY <1>0, <1>2, <2>1 DEF Shown
  <2>3. Machine!Drop(Pic(g, l, pc.temps, k, S), i) = Pic(g, l - i, pc.temps - i, k, S)
    BY <2>2, Dropped
  <2>4. Whole(Pic(g, l - i, pc.temps - i, k, S))
    BY <2>2, Dropped
  <2> QED  BY <1>2, <2>1, <2>2, <2>3, <2>4
<1>5. Depicts(S, g) /\ Inside(S, v)
  BY <1>2 DEF Shown
<1>6. Pictured(s, at, k, h) /\ h.slot[NIL][n + 1] = v /\ OnlySlot(g, h, n + 1)
  BY <1>1, <1>2
<1>7. Machine!Become(Machine!Put(d, v))
  BY <1>3, <1>4, <1>5, <1>6, PutBecomes
<1> QED  BY <1>2, <1>7

\* PushConstant
LEMMA PushConstantSeen ==
  ASSUME NEW g, NEW m, Shown(g, m), PushConstant
  PROVE  Machine!PushConstant(m) \/ Machine!Halt
<1>1. PICK s, at : s = Push(vm, NIL) /\ at = Moved(0, 1) /\ Do(s, at)
  BY DEF PushConstant
<1>2. ASSUME ~s.exhausted, Goes(s, at) PROVE Machine!PushConstant(m)
  <2>1. SlotSet(g, pc.slots + 1, NIL, s, at, vm.cont)
    BY <1>1, <1>2, ConstantIsPushed DEF Shown
  <2>2. PICK v : v = NIL
    OBVIOUS
  <2>3. Inside(store, v) /\ SlotSet(g, pc.slots + 1, v, s, at, vm.cont)
    BY <2>1, <2>2 DEF Inside
  <2>4. Machine!Become(Machine!Put(m, v))
    BY <1>1, <1>2, <2>3, SlotPut
  <2> QED  BY <2>2, <2>4 DEF Machine!PushConstant
<1> QED  BY <1>1, <1>2, DoCases

\* PushGlobal
LEMMA PushGlobalSeen ==
  ASSUME NEW g, NEW m, Shown(g, m), NEW i \in GlobalVars, PushGlobal(i)
  PROVE  Machine!PushGlobal(m, i) \/ Machine!Halt
<1>1. PICK v, s, at : /\ v = Global(vm, i) /\ at = Moved(0, 1) /\ Do(s, at)
                      /\ s = [Push([vm EXCEPT !.reg1 = Global(vm, i)], Global(vm, i)) EXCEPT !.reg1 = NIL]
  BY DEF PushGlobal
<1>2. ASSUME ~s.exhausted, Goes(s, at) PROVE Machine!PushGlobal(m, i)
  <2>1. SlotSet(g, pc.slots + 1, v, s, at, vm.cont)
    BY <1>1, <1>2, GlobalIsPushed DEF Shown
  <2>2. m.globals[i] = v /\ Inside(store, v)
    <3>1. m.globals = globals
      BY MachineShown, ShownIs DEF Shown
    <3>2. m.globals[i] = v
      BY <1>1, <3>1 DEF globals
    <3>3. Inside(store, m.globals[i])
      BY ShownIs
    <3> QED  BY <3>2, <3>3
  <2>3. Machine!Become(Machine!Put(m, v))
    BY <1>1, <1>2, <2>1, <2>2, SlotPut
  <2> QED  BY <2>2, <2>3 DEF Machine!PushGlobal
<1> QED  BY <1>1, <1>2, DoCases

\* PrimGetCont
LEMMA GetContSeen ==
  ASSUME OneShot, NEW g, NEW m, Shown(g, m), PrimGetCont
  PROVE  Machine!GetCont(m) \/ Machine!Halt
<1>1. PICK v, s, at : /\ v = vm.cont /\ at = Moved(0, 1) /\ Do(s, at) /\ IsUsable(v)
                      /\ s = PushResult([vm EXCEPT !.reg1 = vm.cont])
  BY DEF PrimGetCont
<1>2. ASSUME ~s.exhausted, Goes(s, at) PROVE Machine!GetCont(m)
  <2>1. SlotSet(g, pc.slots + 1, v, s, at, vm.cont)
    BY <1>1, <1>2, ContinuationIsPushed DEF Shown
  <2>2. m.cont = v /\ Inside(store, v)
    BY <1>1, ShownIs
  <2>3. Machine!IsA(m, v, "cont")
    BY <1>1, <2>2, KindFound DEF IsUsable
  <2>4. Machine!Become(Machine!Put(m, v))
    BY <1>1, <1>2, <2>1, <2>2, SlotPut
  <2> QED  BY <2>2, <2>3, <2>4 DEF Machine!GetCont
<1> QED  BY <1>1, <1>2, DoCases

\* PrimPop
LEMMA PopSeen ==
  ASSUME NEW g, NEW m, Shown(g, m), PrimPop
  PROVE  Machine!Pop(m) \/ Machine!Halt
<1>1. PICK s, at : s = pop(vm) /\ at = Moved(1, 0) /\ Do(s, at) /\ pc.temps > 0
  BY DEF PrimPop
<1>2. ASSUME Goes(s, at) PROVE Machine!Pop(m)
  <2>1. Pictured(s, at, vm.cont, g)
    BY <1>1, TopIsDropped DEF Shown
  <2>2. PICK n, t, k, S, i : n = pc.slots /\ t = pc.temps /\ k = vm.cont /\ S = store /\ i = 1
    OBVIOUS
  <2>3. n \in Nat /\ i \in Nat /\ i <= n /\ m.temps = t /\ t > 0 /\ at.slots = n - i /\ at.temps = t - i
    BY <1>1, <2>2, ShownIs DEF Moved
  <2>4. m = Pic(g, n, t, k, S) /\ Whole(m) /\ Depicts(S, g)
    BY <2>2 DEF Shown
  <2>5. PICK x : x = Machine!Drop(m, i)
    OBVIOUS
  <2>6. x = Pic(g, at.slots, at.temps, k, S) /\ Whole(x)
    BY <2>3, <2>4, <2>5, Dropped
  <2>7. Machine!Become(x)
    BY <1>2, <2>1, <2>2, <2>4, <2>6, Becomes
  <2> QED  BY <2>2, <2>3, <2>5, <2>7 DEF Machine!Pop
<1> QED  BY <1>1, <1>2, DoCases

\* The result of a primitive of one argument.
LEMMA TopReplacedSeen ==
  ASSUME NEW g, NEW m, Shown(g, m), pc.temps > 0, NEW v, Inside(store, v),
         \/ v = NIL
         \/ IsA(TopOf(vm), CONS_TYPE) /\ v \in {vm.car[TopOf(vm)], vm.cdr[TopOf(vm)]}
         \/ IsA(TopOf(vm), STRING_TYPE) /\ v = vm.car[TopOf(vm)],
         NEW s, s = PushResult([Pop1(vm) EXCEPT !.reg1 = v]), NEW at, at = Moved(1, 1), Do(s, at)
  PROVE  Machine!Become(Machine!Put(Machine!Drop(m, 1), v)) \/ Machine!Halt
<1>1. ASSUME ~s.exhausted, Goes(s, at) PROVE Machine!Become(Machine!Put(Machine!Drop(m, 1), v))
  <2>1. SlotSet(g, pc.slots, v, s, at, vm.cont)
    BY <1>1, TopIsReplaced DEF Shown
  <2>2. PICK i : i = 1
    OBVIOUS
  <2>3. i \in Nat /\ i <= pc.temps /\ at = Moved(i, 1) /\ SlotSet(g, pc.slots - i + 1, v, s, at, vm.cont)
    <3>1. pc.slots - i + 1 = pc.slots
      BY <2>2, ShownIs
    <3>2. i \in Nat /\ i <= pc.temps
      BY <2>2, ShownIs
    <3> QED  BY <2>1, <2>2, <3>1, <3>2
  <2>4. Machine!Become(Machine!Put(Machine!Drop(m, i), v))
    BY <1>1, <2>3, SlotReplaced
  <2> QED  BY <2>2, <2>4
<1> QED  BY <1>1, DoCases

\* PrimCar and PrimCdr
LEMMA CarSeen ==
  ASSUME NEW g, NEW m, Shown(g, m)
  PROVE  /\ PrimCar => Machine!Car(m) \/ Machine!Halt
         /\ PrimCdr => Machine!Cdr(m) \/ Machine!Halt
<1>1. PICK p, a, d : p = TopOf(vm) /\ a = vm.car[p] /\ d = vm.cdr[p]
  OBVIOUS
<1>2. ASSUME pc.temps > 0, IsA(p, CONS_TYPE)
      PROVE  /\ m.temps > 0 /\ m.stack[1] = p /\ Machine!IsA(m, m.stack[1], "pair")
             /\ m.store[p].car = a /\ m.store[p].cdr = d /\ Inside(store, a) /\ Inside(store, d)
  <2>1. m.temps > 0 /\ m.stack[1] = p /\ Inside(store, p)
    BY <1>1, <1>2, TopsAre, ShownIs
  <2>2. /\ Machine!IsA(m, p, "pair") /\ m.store[p] = Pair(a, d)
        /\ Inside(store, a) /\ Inside(store, d)
    BY <1>1, <1>2, <2>1, KindFound
  <2> QED  BY <2>1, <2>2 DEF Pair
<1>3. ASSUME PrimCar PROVE Machine!Car(m) \/ Machine!Halt
  <2>1. PICK s, at : /\ s = PushResult([Pop1(vm) EXCEPT !.reg1 = a]) /\ at = Moved(1, 1) /\ Do(s, at)
                     /\ pc.temps > 0 /\ IsA(p, CONS_TYPE)
    BY <1>1, <1>3 DEF PrimCar
  <2>2. IsA(TopOf(vm), CONS_TYPE) /\ a \in {vm.car[TopOf(vm)], vm.cdr[TopOf(vm)]} /\ Inside(store, a)
    BY <1>1, <1>2, <2>1
  <2>3. Machine!Become(Machine!Put(Machine!Drop(m, 1), a)) \/ Machine!Halt
    BY <2>1, <2>2, TopReplacedSeen
  <2> QED  BY <1>2, <2>1, <2>3 DEF Machine!Car
<1>4. ASSUME PrimCdr PROVE Machine!Cdr(m) \/ Machine!Halt
  <2>1. PICK s, at : /\ s = PushResult([Pop1(vm) EXCEPT !.reg1 = d]) /\ at = Moved(1, 1) /\ Do(s, at)
                     /\ pc.temps > 0 /\ IsA(p, CONS_TYPE)
    BY <1>1, <1>4 DEF PrimCdr
  <2>2. IsA(TopOf(vm), CONS_TYPE) /\ d \in {vm.car[TopOf(vm)], vm.cdr[TopOf(vm)]} /\ Inside(store, d)
    BY <1>1, <1>2, <2>1
  <2>3. Machine!Become(Machine!Put(Machine!Drop(m, 1), d)) \/ Machine!Halt
    BY <2>1, <2>2, TopReplacedSeen
  <2> QED  BY <1>2, <2>1, <2>3 DEF Machine!Cdr
<1> QED  BY <1>3, <1>4

\* PrimStringToList
LEMMA StringToListSeen ==
  ASSUME NEW g, NEW m, Shown(g, m), PrimStringToList
  PROVE  Machine!StringToList(m) \/ Machine!Halt
<1>1. PICK p, a, s, at : /\ p = TopOf(vm) /\ a = vm.car[p] /\ pc.temps > 0 /\ IsA(p, STRING_TYPE)
                         /\ s = PushResult([Pop1(vm) EXCEPT !.reg1 = a]) /\ at = Moved(1, 1) /\ Do(s, at)
  BY DEF PrimStringToList
<1>2. m.temps > 0 /\ m.stack[1] = p /\ Inside(store, p)
  BY <1>1, TopsAre, ShownIs
<1>3. Machine!IsA(m, p, "string") /\ m.store[p] = Str(a) /\ Inside(store, a)
  BY <1>1, <1>2, KindFound
<1>4. IsA(TopOf(vm), STRING_TYPE) /\ a = vm.car[TopOf(vm)]
  BY <1>1
<1>5. Machine!Become(Machine!Put(Machine!Drop(m, 1), a)) \/ Machine!Halt
  BY <1>1, <1>3, <1>4, TopReplacedSeen
<1> QED  BY <1>2, <1>3, <1>5 DEF Machine!StringToList, Str

\* PrimTest
LEMMA TestSeen ==
  ASSUME NEW g, NEW m, Shown(g, m), PrimTest
  PROVE  Machine!Test(m) \/ Machine!Halt
<1>1. PICK v, s, at : /\ v = NIL /\ pc.temps > 0
                      /\ s = PushResult([Pop1(vm) EXCEPT !.reg1 = v]) /\ at = Moved(1, 1) /\ Do(s, at)
  BY DEF PrimTest
<1>2. Inside(store, v) /\ m.temps > 0
  BY <1>1, ShownIs DEF Inside
<1>3. Machine!Become(Machine!Put(Machine!Drop(m, 1), v)) \/ Machine!Halt
  BY <1>1, <1>2, TopReplacedSeen
<1> QED  BY <1>1, <1>2, <1>3 DEF Machine!Test

-----------------------------------------------------------------------------
(* The instructions that make an object. *)

\* The globals are in the reserved cells.
LEMMA GlobalsKept ==
  ASSUME NEW g, NEW h, \A c \in ReservedCell : h.car[c] = g.car[c] /\ h.cdr[c] = g.cdr[c]
  PROVE  Globals(h) = Globals(g)
<1>1. \A i \in GlobalVars : i \div 2 \in ReservedCell
  BY ReservedAssumption, HeapEndAssumption DEF GlobalVars, ReservedCell, Cell
<1> QED  BY <1>1 DEF Globals

\* The same view of a machine of the program.
LEMMA PicSame ==
  ASSUME NEW g, NEW h, h.slot = g.slot, h.bottom = g.bottom, Globals(h) = Globals(g),
         NEW n, NEW t, NEW k, NEW S
  PROVE  Pic(g, n, t, k, S) = Pic(h, n, t, k, S)
BY DEF Pic, Stack

\* The refinement finds the same objects as the heap.
LEMMA SameReferred == \A S, R : Machine!Referred(S, R) = Referred(S, R)
BY DEF Referred, Machine!Referred, Refs, Machine!Refs

\* A cell that the machine does not hold is no object of the program.
LEMMA NewIsUnheld ==
  ASSUME NEW g, NEW m, Shown(g, m), NEW i \in Nat, i <= pc.slots, NEW R, NEW p \in Cell,
         Unheld(g, pc.slots - i, vm.cont, R, p), \A j \in pc.slots - i + 1 .. pc.slots : g.slot[NIL][j] \in R
  PROVE  p \notin DOMAIN store /\ p \notin ReservedCell
<1>1. PICK l, n, k : l = pc.slots /\ n = pc.slots - i /\ k = vm.cont
  OBVIOUS
<1>2. PICK b, q : /\ Sound(b, q, n, 0) /\ Shows(b, q, n, g) /\ b.cont = k
                  /\ (\A v \in R : LiveRef(b, q, v)) /\ ~Held(b, q, p)
  BY <1>1 DEF Unheld
<1>3. l \in Nat /\ n \in Nat /\ \A j \in 1 .. l : j \in 1 .. n \/ j \in n + 1 .. l
  BY <1>1, ShownIs
<1>4. /\ \A j \in 1 .. n : LiveRef(b, q, g.slot[NIL][j])
      /\ LiveRef(b, q, g.bottom[NIL]) /\ LiveRef(b, q, k)
      /\ \A d \in GlobalVars : LiveRef(b, q, Globals(g)[d])
  BY <1>2, StartsLive
<1>5. \A j \in 1 .. l : LiveRef(b, q, g.slot[NIL][j])
  BY <1>1, <1>2, <1>3, <1>4
<1>6. PICK V : V = Machine!Values(m)
  OBVIOUS
<1>7. \A v \in V : LiveRef(b, q, v)
  <2>1. PICK t, S : t = pc.temps /\ S = store
    OBVIOUS
  <2>2. m = Pic(g, l, t, k, S)
    BY <1>1, <2>1 DEF Shown
  <2>3. \A v : v \in V => \/ \E j \in 1 .. l : v = g.slot[NIL][j]
                          \/ v = g.bottom[NIL] \/ v = k
                          \/ \E d \in GlobalVars : v = Globals(g)[d]
    BY <1>3, <1>6, <2>2, ValuesAre
  <2> QED  BY <1>4, <1>5, <2>3
<1>8. p \notin DOMAIN store
  <2>1. DOMAIN store \subseteq Referred(store, V)
    BY <1>6, StoreFound, SameReferred
  <2>2. PICK S : S = store
    OBVIOUS
  <2>3. Depicts(S, g)
    BY <2>2 DEF Shown
  <2>4. \A c \in Referred(S, V) : c \in DOMAIN S /\ IsObject(q, c) /\ c \in Live(b)
    BY <1>2, <1>7, <2>3, FoundLive
  <2>5. p \in DOMAIN store => IsObject(q, p) /\ p \in Live(b)
    BY <2>1, <2>2, <2>4
  <2> QED  BY <1>2, <2>5 DEF Held, IsObject
<1>9. p \notin ReservedCell
  <2>1. p \in ReservedCell => p \in Live(b)
    BY LiveIs
  <2>2. p \in ReservedCell => q.role[p] = "global"
    BY <1>2 DEF Sound, CellSound, GlobalSound
  <2> QED  BY <1>2, <2>1, <2>2 DEF Held
<1> QED  BY <1>8, <1>9

\* What a view says of an object that it is made to show.
Shaped(x, kind, a, d) ==
  \/ kind = CONS_TYPE /\ x = Pair(a, d)
  \/ kind = STRING_TYPE /\ x = Str(a)
  \/ kind = CLOSURE_TYPE /\ x = Closure(a, d)

\* The store with such an object.
LEMMA ObjectDepicted ==
  ASSUME NEW g, NEW S, Depicts(S, g), NEW p \in Cell, NEW h, OnlyObject(g, h, p),
         NEW x, Shaped(x, h.kind[p], h.car[p], h.cdr[p])
  PROVE  Depicts(With(S, p, x), h)
<1>1. x = Abs(h, p)
  BY AbsIs DEF Shaped
<1>2. \A c \in Cell : c # p => Abs(h, c) = Abs(g, c)
  <2>1. \A c \in Cell : c # p => SameObject(g, h, c)
    BY DEF OnlyObject, SameObject
  <2> QED  BY <2>1, AbsKept
<1> QED  BY <1>1, <1>2 DEF Depicts, With

\* A new object has been made, and pushed in place of the values on top.
LEMMA NewPut ==
  ASSUME NEW g, NEW m, Shown(g, m), NEW i \in Nat, i <= pc.temps, NEW p \in Cell, p \notin ReservedCell,
         NEW kind, NEW a, NEW d, NEW s, NEW at, at = Moved(i, 1), Goes(s, at),
         Made(g, pc.slots - i + 1, p, kind, a, d, s, at, vm.cont),
         NEW x, Shaped(x, kind, a, d), \A v \in Refs(x) : Inside(store, v)
  PROVE  Machine!Become(Machine!Put(Machine!Drop(Machine!Add(m, p, x), i), p))
<1>1. PICK l, n, t, k, S, T : /\ l = pc.slots /\ n = pc.slots - i /\ t = pc.temps /\ k = vm.cont
                              /\ S = store /\ T = With(S, p, x)
  OBVIOUS
<1>2. PICK u, h : /\ u.kind[p] = kind /\ u.car[p] = a /\ u.cdr[p] = d /\ OnlyObject(g, u, p)
                  /\ h.slot[NIL][n + 1] = p /\ OnlySlot(u, h, n + 1) /\ Pictured(s, at, k, h)
  BY <1>1 DEF Made
<1>3. l \in Nat /\ i <= l /\ n \in Nat /\ n = l - i /\ at.slots = n + 1 /\ at.temps = (t - i) + 1
  BY <1>1, ShownIs DEF Moved
<1>4. m = Pic(g, l, t, k, S) /\ Whole(m) /\ Depicts(S, g)
  BY <1>1 DEF Shown
<1>5. Machine!Add(m, p, x) = Pic(g, l, t, k, T) /\ Whole(Pic(g, l, t, k, T))
  <2>1. \A v \in Refs(x) : v = p \/ Inside(S, v)
    BY <1>1
  <2> QED  BY <1>1, <1>3, <1>4, <2>1, Added
<1>6. Depicts(T, u)
  BY <1>1, <1>2, <1>4, ObjectDepicted
<1>7. Pic(g, l, t, k, T) = Pic(u, l, t, k, T)
  <2>1. u.slot = g.slot /\ u.bottom = g.bottom
    BY <1>2 DEF OnlyObject
  <2>2. \A c \in ReservedCell : u.car[c] = g.car[c] /\ u.cdr[c] = g.cdr[c]
    BY <1>2 DEF OnlyObject, ReservedCell
  <2>3. Globals(u) = Globals(g)
    BY <2>2, GlobalsKept
  <2> QED  BY <2>1, <2>3, PicSame
<1>8. PICK e : e = Machine!Drop(Machine!Add(m, p, x), i)
  OBVIOUS
<1>9. e = Pic(u, n, t - i, k, T) /\ Whole(e)
  <2>1. Machine!Drop(Pic(u, l, t, k, T), i) = Pic(u, l - i, t - i, k, T)
    BY <1>3, Dropped
  <2>2. Whole(Pic(u, l - i, t - i, k, T))
    BY <1>3, <1>5, <1>7, Dropped
  <2> QED  BY <1>3, <1>5, <1>7, <1>8, <2>1, <2>2
<1>10. Inside(T, p)
  BY <1>1 DEF Inside, With
<1>11. PICK z : z = t - i
  OBVIOUS
<1>12. e = Pic(u, n, z, k, T) /\ at.temps = z + 1
  BY <1>3, <1>9, <1>11
<1>13. Machine!Become(Machine!Put(e, p))
  BY <1>2, <1>3, <1>6, <1>9, <1>10, <1>12, PutBecomes
<1> QED  BY <1>8, <1>13

\* The registers after the pops of the dispatcher.
LEMMA PopsAre ==
  /\ Pop1(vm).reg1 = TopOf(vm)
  /\ Pop2(vm).reg1 = Second(vm) /\ Pop2(vm).reg2 = TopOf(vm)
BY DEF Pop1, Pop2, Second, TopOf, pop, return_to_free_list

\* A new object, from i values on top of the stack, is one that the program has not yet.
LEMMA NewObjectPut ==
  ASSUME NEW g, NEW m, Shown(g, m), NEW i \in {1, 2}, i <= pc.temps, NEW p \in Cell,
         NEW R, TopOf(vm) \in R, i = 2 => Second(vm) \in R, Unheld(g, pc.slots - i, vm.cont, R, p),
         NEW kind, NEW a, NEW d, NEW s, NEW at, at = Moved(i, 1), Goes(s, at),
         Made(g, pc.slots - i + 1, p, kind, a, d, s, at, vm.cont),
         NEW x, Shaped(x, kind, a, d), \A v \in Refs(x) : Inside(store, v)
  PROVE  /\ p \in Machine!New(m)
         /\ Machine!Become(Machine!Put(Machine!Drop(Machine!Add(m, p, x), i), p))
<1>1. i \in Nat /\ i <= pc.slots /\ pc.slots \in Nat /\ pc.temps \in Nat /\ m.store = store /\ pc.temps > 0
  BY ShownIs
<1>2. /\ TopOf(vm) = g.slot[NIL][pc.slots]
      /\ pc.temps > 1 => Second(vm) = g.slot[NIL][pc.slots - 1]
  BY <1>1, TopIs DEF Shown
<1>3. \A j \in pc.slots - i + 1 .. pc.slots : g.slot[NIL][j] \in R
  <2>1. \A j \in pc.slots - i + 1 .. pc.slots : j = pc.slots \/ (i = 2 /\ j = pc.slots - 1)
    BY <1>1
  <2>2. i = 2 => pc.temps > 1
    BY <1>1
  <2> QED  BY <1>2, <2>1, <2>2
<1>4. p \notin DOMAIN store /\ p \notin ReservedCell
  BY <1>1, <1>3, NewIsUnheld
<1>5. Machine!Become(Machine!Put(Machine!Drop(Machine!Add(m, p, x), i), p))
  <2>1. PICK j : j = i
    OBVIOUS
  <2>2. j \in Nat /\ j <= pc.temps
    BY <1>1, <2>1
  <2>3. p \notin ReservedCell
    BY <1>4
  <2>4. at = Moved(j, 1) /\ Made(g, pc.slots - j + 1, p, kind, a, d, s, at, vm.cont)
    BY <2>1
  <2>5. Machine!Become(Machine!Put(Machine!Drop(Machine!Add(m, p, x), j), p))
    BY <2>2, <2>3, <2>4, NewPut
  <2> QED  BY <2>1, <2>5
<1> QED  BY <1>1, <1>4, <1>5 DEF Machine!New, Machine!Cell, Cell

\* PrimCons
LEMMA MakePairSeen ==
  ASSUME NEW g, NEW m, Shown(g, m), PrimCons
  PROVE  Machine!MakePair(m) \/ Machine!Halt
<1>1. PICK b, s, at : /\ b = Pop2(vm) /\ at = Moved(2, 1) /\ Do(s, at) /\ pc.temps > 1
                      /\ s = PushResult([new_pair(b, b.reg1, b.reg2) EXCEPT !.reg1 = Allocated(b), !.reg2 = NIL])
  BY DEF PrimCons
<1>2. PICK a, d, x : a = b.reg1 /\ d = b.reg2 /\ x = Pair(a, d)
  OBVIOUS
<1>3. ASSUME ~s.exhausted, Goes(s, at) PROVE Machine!MakePair(m)
  <2>1. \E p \in Cell : /\ Unheld(g, pc.slots - 2, vm.cont, {b.reg1, b.reg2}, p)
                        /\ Made(g, pc.slots - 1, p, CONS_TYPE, b.reg1, b.reg2, s, Moved(2, 1), vm.cont)
    BY <1>1, <1>3, PairIsMade DEF Shown
  <2>2. PICK i, kind, R : i = 2 /\ kind = CONS_TYPE /\ R = {a, d}
    OBVIOUS
  <2>3. pc.slots \in Nat /\ pc.temps \in Nat /\ m.temps = pc.temps
    BY ShownIs
  <2>4. pc.slots - i + 1 = pc.slots - 1 /\ i \in {1, 2} /\ i <= pc.temps /\ at = Moved(i, 1)
    BY <1>1, <2>2, <2>3
  <2>5. PICK p \in Cell : /\ Unheld(g, pc.slots - i, vm.cont, R, p)
                          /\ Made(g, pc.slots - i + 1, p, kind, a, d, s, at, vm.cont)
    BY <1>1, <1>2, <2>1, <2>2, <2>4
  <2>6. a = m.stack[2] /\ d = m.stack[1] /\ Inside(store, a) /\ Inside(store, d)
        /\ TopOf(vm) = d /\ Second(vm) = a
    BY <1>1, <1>2, <2>3, TopsAre, PopsAre
  <2>7. TopOf(vm) \in R /\ (i = 2 => Second(vm) \in R)
    BY <2>2, <2>6
  <2>8. Shaped(x, kind, a, d) /\ \A v \in Refs(x) : Inside(store, v)
    BY <1>2, <2>2, <2>6, RefsOf DEF Shaped
  <2>9. /\ p \in Machine!New(m)
        /\ Machine!Become(Machine!Put(Machine!Drop(Machine!Add(m, p, x), i), p))
    BY <1>3, <2>4, <2>5, <2>7, <2>8, NewObjectPut
  <2>10. x = Machine!Pair(m.stack[2], m.stack[1]) /\ m.temps > 1
    BY <1>1, <1>2, <2>3, <2>6 DEF Pair, Machine!Pair
  <2> QED  BY <2>2, <2>9, <2>10 DEF Machine!MakePair
<1> QED  BY <1>1, <1>3, DoCases

\* PrimListToString
LEMMA ListToStringSeen ==
  ASSUME NEW g, NEW m, Shown(g, m), PrimListToString
  PROVE  Machine!ListToString(m) \/ Machine!Halt
<1>1. PICK b, s, at : /\ b = Pop1(vm) /\ at = Moved(1, 1) /\ Do(s, at) /\ pc.temps > 0
                      /\ s = PushResult([new_string(b, b.reg1) EXCEPT !.reg1 = Allocated(b)])
                      /\ (TopOf(vm) = NIL \/ IsA(TopOf(vm), CONS_TYPE))
  BY DEF PrimListToString
<1>2. PICK a, x : a = b.reg1 /\ x = Str(a)
  OBVIOUS
<1>3. ASSUME ~s.exhausted, Goes(s, at) PROVE Machine!ListToString(m)
  <2>1. \E p \in Cell : \E y : /\ Unheld(g, pc.slots - 1, vm.cont, {b.reg1}, p)
                               /\ Made(g, pc.slots, p, STRING_TYPE, b.reg1, y, s, Moved(1, 1), vm.cont)
    BY <1>1, <1>3, StringIsMade DEF Shown
  <2>2. PICK i, kind, R : i = 1 /\ kind = STRING_TYPE /\ R = {a}
    OBVIOUS
  <2>3. pc.slots \in Nat /\ pc.temps \in Nat /\ m.temps = pc.temps
    BY ShownIs
  <2>4. pc.slots - i + 1 = pc.slots /\ i \in {1, 2} /\ i <= pc.temps /\ at = Moved(i, 1)
    BY <1>1, <2>2, <2>3
  <2>5. PICK p \in Cell : \E y : /\ Unheld(g, pc.slots - i, vm.cont, R, p)
                                 /\ Made(g, pc.slots - i + 1, p, kind, a, y, s, at, vm.cont)
    BY <1>1, <1>2, <2>1, <2>2, <2>4
  <2>6. PICK d : /\ Unheld(g, pc.slots - i, vm.cont, R, p)
                 /\ Made(g, pc.slots - i + 1, p, kind, a, d, s, at, vm.cont)
    BY <2>5
  <2>7. a = m.stack[1] /\ Inside(store, a) /\ TopOf(vm) = a
    BY <1>1, <1>2, TopsAre, PopsAre
  <2>8. TopOf(vm) \in R /\ (i = 2 => Second(vm) \in R)
    BY <2>2, <2>7
  <2>9. Shaped(x, kind, a, d) /\ \A v \in Refs(x) : Inside(store, v)
    BY <1>2, <2>2, <2>7, RefsOf DEF Shaped
  <2>10. /\ p \in Machine!New(m)
         /\ Machine!Become(Machine!Put(Machine!Drop(Machine!Add(m, p, x), i), p))
    BY <1>3, <2>4, <2>6, <2>8, <2>9, NewObjectPut
  <2>11. x = Machine!Str(m.stack[1]) /\ m.temps > 0
    BY <1>1, <1>2, <2>3, <2>7 DEF Str, Machine!Str
  <2>12. m.stack[1] = NIL \/ Machine!IsA(m, m.stack[1], "pair")
    BY <1>1, <2>7, KindFound
  <2> QED  BY <2>2, <2>10, <2>11, <2>12 DEF Machine!ListToString
<1> QED  BY <1>1, <1>3, DoCases

\* MakeClosure
LEMMA MakeClosureSeen ==
  ASSUME NEW g, NEW m, Shown(g, m), NEW entry \in Entries, MakeClosure(entry)
  PROVE  Machine!MakeClosure(m, entry) \/ Machine!Halt
<1>1. PICK cell, env, held, made, s, at :
        /\ cell = vm.env /\ env = vm.car[cell] /\ held = Holding(vm) /\ made = new_closure(held, env, entry)
        /\ s = Linked(made, cell, Allocated(held)) /\ at = Moved(0, 0) /\ Do(s, at)
        /\ pc.temps > 0 /\ (env = NIL \/ IsA(env, CONS_TYPE))
  BY DEF MakeClosure, Holding, Linked
<1>2. PICK x : x = Closure(env, entry)
  OBVIOUS
<1>3. ASSUME ~s.exhausted, Goes(s, at) PROVE Machine!MakeClosure(m, entry)
  <2>1. \E p \in Cell : /\ Unheld(g, pc.slots - 1, vm.cont, {env}, p)
                        /\ Made(g, pc.slots, p, CLOSURE_TYPE, env, entry, s, Moved(0, 0), vm.cont)
    BY <1>1, <1>3, ClosureIsMade DEF Shown
  <2>2. PICK i, kind, R : i = 1 /\ kind = CLOSURE_TYPE /\ R = {env}
    OBVIOUS
  <2>3. pc.slots \in Nat /\ pc.temps \in Nat /\ m.temps = pc.temps
    BY ShownIs
  <2>4. pc.slots - i + 1 = pc.slots /\ i \in {1, 2} /\ i <= pc.temps /\ at = Moved(i, 1)
    BY <1>1, <2>2, <2>3 DEF Moved
  <2>5. PICK p \in Cell : /\ Unheld(g, pc.slots - i, vm.cont, R, p)
                          /\ Made(g, pc.slots - i + 1, p, kind, env, entry, s, at, vm.cont)
    BY <1>1, <2>1, <2>2, <2>4
  <2>6. env = m.stack[1] /\ Inside(store, env) /\ TopOf(vm) = env
    BY <1>1, TopsAre DEF TopOf
  <2>7. TopOf(vm) \in R /\ (i = 2 => Second(vm) \in R)
    BY <2>2, <2>6
  <2>8. Shaped(x, kind, env, entry) /\ \A v \in Refs(x) : Inside(store, v)
    BY <1>2, <2>2, <2>6, RefsOf DEF Shaped
  <2>9. /\ p \in Machine!New(m)
        /\ Machine!Become(Machine!Put(Machine!Drop(Machine!Add(m, p, x), i), p))
    BY <1>3, <2>4, <2>5, <2>7, <2>8, NewObjectPut
  <2>10. x = Machine!Closure(m.stack[1], entry) /\ m.temps > 0
    BY <1>1, <1>2, <2>3, <2>6 DEF Closure, Machine!Closure
  <2>11. m.stack[1] = NIL \/ Machine!IsA(m, m.stack[1], "pair")
    BY <1>1, <2>6, KindFound
  <2> QED  BY <2>2, <2>9, <2>10, <2>11 DEF Machine!MakeClosure
<1> QED  BY <1>1, <1>3, DoCases

-----------------------------------------------------------------------------
(* The instructions that change a global or an object. *)

\* Another field is set.
LEMMA GlobalFieldSet ==
  ASSUME NEW a, NEW b, NEW c, NEW d, NEW e, NEW f, NEW i, NEW v
  PROVE  [Fields(a, b, c, d, e, f) EXCEPT !.globals[i] = v] = Fields(a, b, c, d, [e EXCEPT ![i] = v], f)
BY DEF Fields

\* The values of the cells of the globals change in pairs only.
LEMMA OneGlobalSet ==
  ASSUME NEW g, NEW h, NEW i \in GlobalVars, NEW p, p = i \div 2, NEW v, OnlyObject(g, h, p),
         h.car[p] = IF i % 2 = 1 THEN v ELSE g.car[p],
         h.cdr[p] = IF i % 2 = 1 THEN g.cdr[p] ELSE v
  PROVE  Globals(h) = [Globals(g) EXCEPT ![i] = v]
<1>1. ASSUME NEW j \in GlobalVars PROVE Globals(h)[j] = IF j = i THEN v ELSE Globals(g)[j]
  <2>0. i \in Nat /\ j \in Nat
    BY ReservedAssumption DEF GlobalVars
  <2>1. /\ j \div 2 \in Cell
        /\ i = 2 * (i \div 2) + (i % 2) /\ i % 2 \in {0, 1}
        /\ j = 2 * (j \div 2) + (j % 2) /\ j % 2 \in {0, 1}
    <3>1. j \div 2 \in Cell
      BY <2>0, ReservedAssumption, HeapEndAssumption DEF GlobalVars, Cell
    <3> QED  BY <2>0, <3>1
  <2>2. j # i /\ j \div 2 = p => j % 2 # i % 2
    BY <2>0, <2>1
  <2>3. j \div 2 # p => h.car[j \div 2] = g.car[j \div 2] /\ h.cdr[j \div 2] = g.cdr[j \div 2]
    BY <2>1 DEF OnlyObject
  <2>4. /\ Globals(h)[j] = IF j % 2 = 1 THEN h.car[j \div 2] ELSE h.cdr[j \div 2]
        /\ Globals(g)[j] = IF j % 2 = 1 THEN g.car[j \div 2] ELSE g.cdr[j \div 2]
    BY DEF Globals
  <2>5. PICK c, y, z : c = j \div 2 /\ y = i % 2 /\ z = j % 2
    OBVIOUS
  <2>6. /\ Globals(h)[j] = IF z = 1 THEN h.car[c] ELSE h.cdr[c]
        /\ Globals(g)[j] = IF z = 1 THEN g.car[c] ELSE g.cdr[c]
        /\ c # p => h.car[c] = g.car[c] /\ h.cdr[c] = g.cdr[c]
        /\ j # i /\ c = p => z # y
        /\ y \in {0, 1} /\ z \in {0, 1}
        /\ h.car[p] = IF y = 1 THEN v ELSE g.car[p]
        /\ h.cdr[p] = IF y = 1 THEN g.cdr[p] ELSE v
        /\ j = i => z = y /\ c = p
    BY <2>1, <2>2, <2>3, <2>4, <2>5
  <2> QED  BY <2>6
<1>2. DOMAIN Globals(h) = GlobalVars /\ DOMAIN Globals(g) = GlobalVars
  BY DEF Globals
<1>3. Globals(h) = [j \in GlobalVars |-> Globals(h)[j]]
  BY DEF Globals
<1> QED  BY <1>1, <1>2, <1>3

\* SetGlobal
LEMMA SetGlobalSeen ==
  ASSUME NEW g, NEW m, Shown(g, m), NEW i \in GlobalVars, SetGlobal(i)
  PROVE  Machine!SetGlobal(m, i) \/ Machine!Halt
<1>1. PICK v, s, at : /\ v = TopOf(vm) /\ at = Moved(1, 0) /\ Do(s, at) /\ pc.temps > 0
                      /\ s = GLOBAL_SET(pop(vm), i, TopOf(vm))
  BY DEF SetGlobal
<1>2. ASSUME Goes(s, at) PROVE Machine!SetGlobal(m, i)
  <2>1. PICK p, n, t, k, S, a : /\ p = i \div 2 /\ n = pc.slots /\ t = pc.temps /\ k = vm.cont
                                /\ S = store /\ a = 1
    OBVIOUS
  <2>2. /\ ObjectSet(g, p, g.kind[p], s.car[p], s.cdr[p], s, at, k)
        /\ s.car[p] = IF i % 2 = 1 THEN v ELSE g.car[p]
        /\ s.cdr[p] = IF i % 2 = 1 THEN g.cdr[p] ELSE v
        /\ p \in Cell
    BY <1>1, <2>1, GlobalIsSet DEF Shown
  <2>3. PICK h : /\ Pictured(s, at, k, h) /\ OnlyObject(g, h, p)
                 /\ h.car[p] = (IF i % 2 = 1 THEN v ELSE g.car[p])
                 /\ h.cdr[p] = (IF i % 2 = 1 THEN g.cdr[p] ELSE v)
    BY <2>2 DEF ObjectSet
  <2>4. /\ n \in Nat /\ a \in Nat /\ a <= n /\ m.temps = t /\ t > 0 /\ at.slots = n - a /\ at.temps = t - a
        /\ m.stack[1] = v /\ Inside(S, v)
    BY <1>1, <2>1, ShownIs, TopsAre DEF Moved
  <2>5. m = Pic(g, n, t, k, S) /\ Whole(m) /\ Depicts(S, g)
    BY <2>1 DEF Shown
  <2>6. p \notin DOMAIN S
    <3>1. PICK o : Sound(vm, o, pc.slots, 0)
      BY DEF Shown, Pictured
    <3>2. o.role[p] = "global"
      BY <2>1, <3>1, GlobalIs
    <3>3. p \in DOMAIN S => IsObject(o, p)
      BY <2>1, <3>1, StoreHolds
    <3> QED  BY <3>2, <3>3 DEF IsObject
  <2>7. Depicts(S, h)
    <3>1. \A c \in Cell : c # p => SameObject(g, h, c)
      BY <2>3 DEF OnlyObject, SameObject
    <3>2. \A c \in Cell : c # p => Abs(h, c) = Abs(g, c)
      BY <3>1, AbsKept
    <3> QED  BY <2>5, <2>6, <3>2 DEF Depicts
  <2>8. Globals(h) = [Globals(g) EXCEPT ![i] = v] /\ h.slot = g.slot /\ h.bottom = g.bottom
    <3>1. h.slot = g.slot /\ h.bottom = g.bottom
      BY <2>3 DEF OnlyObject
    <3> QED  BY <2>1, <2>3, <3>1, OneGlobalSet
  <2>9. PICK l, r : l = n - a /\ r = t - a
    OBVIOUS
  <2>10. PICK d, x : d = Machine!Drop(m, a) /\ x = [d EXCEPT !.globals[i] = v]
    OBVIOUS
  <2>11. d = Pic(g, l, r, k, S) /\ Whole(d) /\ l \in Nat
    BY <2>4, <2>5, <2>9, <2>10, Dropped
  <2>12. x = Pic(h, l, r, k, S)
    <3>1. PICK w, b, e : w = Stack(g, NIL, l) /\ b = g.bottom[NIL] /\ e = Globals(g)
      OBVIOUS
    <3>2. d = Fields(w, b, r, k, e, S)
      BY <2>11, <3>1 DEF Pic, Fields
    <3>3. x = [Fields(w, b, r, k, e, S) EXCEPT !.globals[i] = v]
      BY <2>10, <3>2
    <3>4. x = Fields(w, b, r, k, [e EXCEPT ![i] = v], S)
      BY <3>3, GlobalFieldSet, SMTT(30)
    <3>5. w = Stack(h, NIL, l) /\ b = h.bottom[NIL] /\ Globals(h) = [e EXCEPT ![i] = v]
      BY <2>8, <3>1 DEF Stack
    <3> QED  BY <3>4, <3>5 DEF Pic, Fields
  <2>13. Whole(x)
    <3>1. \A j \in GlobalVars : Inside(S, Globals(g)[j])
      BY <2>11, WholeIs
    <3>2. \A j \in GlobalVars : Inside(S, Globals(h)[j])
      <4>1. DOMAIN Globals(g) = GlobalVars
        BY DEF Globals
      <4>2. \A j \in GlobalVars : Globals(h)[j] = IF j = i THEN v ELSE Globals(g)[j]
        BY <2>8, <4>1
      <4> QED  BY <2>4, <3>1, <4>2
    <3>3. /\ \A j \in 1 .. l : Inside(S, h.slot[NIL][j])
          /\ Inside(S, h.bottom[NIL]) /\ Inside(S, k)
          /\ \A c \in DOMAIN S : \A w \in Refs(S[c]) : Inside(S, w)
      BY <2>8, <2>11, WholeIs
    <3> QED  BY <2>11, <2>12, <3>2, <3>3, WholeIs
  <2>14. x = Pic(h, at.slots, at.temps, k, S)
    BY <2>4, <2>9, <2>12
  <2>15. Machine!Become(x)
    BY <1>2, <2>3, <2>7, <2>13, <2>14, Becomes
  <2> QED  BY <2>1, <2>4, <2>10, <2>15 DEF Machine!SetGlobal
<1> QED  BY <1>1, <1>2, DoCases

\* One field of a pair of the program is set.
WithCar(x, p, v) == [x EXCEPT !.store[p].car = v]
WithCdr(x, p, v) == [x EXCEPT !.store[p].cdr = v]

\* The rest of the machine stays.
LEMMA PairFieldSet ==
  ASSUME NEW a, NEW b, NEW c, NEW d, NEW e, NEW f, NEW p \in DOMAIN f, \E y, z : f[p] = Pair(y, z), NEW v
  PROVE  /\ WithCar(Fields(a, b, c, d, e, f), p, v) = Fields(a, b, c, d, e, With(f, p, Pair(v, f[p].cdr)))
         /\ WithCdr(Fields(a, b, c, d, e, f), p, v) = Fields(a, b, c, d, e, With(f, p, Pair(f[p].car, v)))
<1> DEFINE x == Fields(a, b, c, d, e, f)
<1>1. x.store = f /\ \A u : [x EXCEPT !.store = u] = Fields(a, b, c, d, e, u)
  BY DEF Fields
<1> HIDE DEF x
<1>2. [f[p] EXCEPT !.car = v] = Pair(v, f[p].cdr) /\ [f[p] EXCEPT !.cdr = v] = Pair(f[p].car, v)
  BY DEF Pair
<1>3. \A w : [f EXCEPT ![p] = w] = With(f, p, w)
  BY DEF With
<1>4. WithCar(x, p, v) = [x EXCEPT !.store = [f EXCEPT ![p] = [f[p] EXCEPT !.car = v]]]
  BY <1>1 DEF WithCar
<1>5. WithCdr(x, p, v) = [x EXCEPT !.store = [f EXCEPT ![p] = [f[p] EXCEPT !.cdr = v]]]
  BY <1>1 DEF WithCdr
<1> QED  BY <1>1, <1>2, <1>3, <1>4, <1>5 DEF x

\* The machine of the program, with one field of a pair set, is what comes next.
LEMMA PairBecomes ==
  ASSUME NEW g, NEW m, Shown(g, m), pc.temps > 1, NEW p, p = Second(vm), IsA(p, CONS_TYPE),
         NEW y, NEW z, Inside(store, y), Inside(store, z),
         NEW s, NEW at, at = Moved(2, 0), Goes(s, at), ObjectSet(g, p, CONS_TYPE, y, z, s, at, vm.cont),
         NEW x, x = Pic(g, pc.slots - 2, pc.temps - 2, vm.cont, With(store, p, Pair(y, z)))
  PROVE  Machine!Become(x)
<1>1. PICK n, t, k, S, a, l, r, o, kind :
        /\ n = pc.slots /\ t = pc.temps /\ k = vm.cont /\ S = store /\ a = 2 /\ l = n - a /\ r = t - a
        /\ o = Pair(y, z) /\ kind = CONS_TYPE
  OBVIOUS
<1>2. PICK h : /\ Pictured(s, at, k, h) /\ OnlyObject(g, h, p)
               /\ h.kind[p] = kind /\ h.car[p] = y /\ h.cdr[p] = z
  BY <1>1 DEF ObjectSet
<1>3. n \in Nat /\ a \in Nat /\ a <= n /\ l \in Nat /\ at.slots = l /\ at.temps = r
  BY <1>1, ShownIs DEF Moved
<1>4. m = Pic(g, n, t, k, S) /\ Whole(m) /\ Depicts(S, g)
  BY <1>1 DEF Shown
<1>5. PICK T : T = With(S, p, o)
  OBVIOUS
<1>6. Depicts(T, h)
  <2>1. p \in Cell /\ Shaped(o, h.kind[p], h.car[p], h.cdr[p])
    BY <1>1, <1>2 DEF Shaped, IsA
  <2> QED  BY <1>2, <1>4, <1>5, <2>1, ObjectDepicted
<1>7. Pic(g, l, r, k, T) = Pic(h, l, r, k, T)
  <2>1. h.slot = g.slot /\ h.bottom = g.bottom
    BY <1>2 DEF OnlyObject
  <2>2. Globals(h) = Globals(g)
    <3>1. \A c \in ReservedCell : h.car[c] = g.car[c] /\ h.cdr[c] = g.cdr[c]
      BY <1>2 DEF OnlyObject, ReservedCell, IsA
    <3> QED  BY <3>1, GlobalsKept
  <2> QED  BY <2>1, <2>2, PicSame
<1>8. Whole(Pic(g, l, r, k, T))
  <2>1. Whole(Pic(g, l, r, k, S))
    BY <1>1, <1>3, <1>4, Dropped
  <2>2. \A v \in Refs(o) : v = p \/ Inside(S, v)
    BY <1>1, RefsOf
  <2> QED  BY <1>3, <1>5, <2>1, <2>2, Added
<1>9. x = Pic(h, at.slots, at.temps, k, T) /\ Whole(x)
  BY <1>1, <1>3, <1>5, <1>7, <1>8
<1> QED  BY <1>2, <1>6, <1>9, Becomes

\* PrimSetCar and PrimSetCdr
LEMMA SetCarSeen ==
  ASSUME NEW g, NEW m, Shown(g, m)
  PROVE  /\ PrimSetCar => Machine!SetCar(m) \/ Machine!Halt
         /\ PrimSetCdr => Machine!SetCdr(m) \/ Machine!Halt
<1>1. PICK n, t, k, S, a, b, p, v, y, z, at, e :
        /\ n = pc.slots /\ t = pc.temps /\ k = vm.cont /\ S = store /\ a = 2
        /\ b = Pop2(vm) /\ p = b.reg1 /\ v = b.reg2 /\ y = vm.car[p] /\ z = vm.cdr[p] /\ at = Moved(2, 0)
        /\ e = Machine!Drop(m, a)
  OBVIOUS
<1>2. ASSUME pc.temps > 1, IsA(p, CONS_TYPE)
      PROVE  /\ m.temps > 1 /\ m.stack[2] = p /\ m.stack[1] = v /\ Machine!IsA(m, m.stack[2], "pair")
             /\ g.kind[p] = CONS_TYPE /\ g.car[p] = y /\ g.cdr[p] = z
             /\ Inside(store, v) /\ Inside(store, y) /\ Inside(store, z) /\ p = Second(vm)
             /\ WithCar(e, p, v) = Pic(g, pc.slots - 2, pc.temps - 2, vm.cont, With(store, p, Pair(v, z)))
             /\ WithCdr(e, p, v) = Pic(g, pc.slots - 2, pc.temps - 2, vm.cont, With(store, p, Pair(y, v)))
  <2>1. /\ m.temps > 1 /\ m.stack[2] = p /\ m.stack[1] = v /\ Inside(store, p) /\ Inside(store, v) /\ p = Second(vm)
    BY <1>1, <1>2, TopsAre, ShownIs, PopsAre
  <2>2. PICK kind : kind = CONS_TYPE
    OBVIOUS
  <2>3. IsA(p, kind)
    BY <1>2, <2>2
  <2>4. /\ Machine!IsA(m, p, "pair") /\ m.store[p] = Pair(y, z) /\ Inside(store, y) /\ Inside(store, z)
        /\ p \in DOMAIN store /\ m.store = store
        /\ g.kind[p] = CONS_TYPE /\ g.car[p] = y /\ g.cdr[p] = z
    <3>1. kind # CONTINUATION_TYPE
      BY <2>2 DEF CONS_TYPE, CONTINUATION_TYPE
    <3>2. /\ p \in DOMAIN store /\ m.store = store
          /\ g.kind[p] = kind /\ g.car[p] = y /\ g.cdr[p] = z
      BY <1>1, <2>1, <2>3, <3>1, ObjectFound, ShownIs
    <3>3. /\ Machine!IsA(m, p, "pair") /\ m.store[p] = Pair(y, z) /\ Inside(store, y) /\ Inside(store, z)
      BY <1>1, <2>1, <2>2, <2>3, KindFound
    <3> QED  BY <2>2, <3>2, <3>3
  <2>5. n \in Nat /\ a \in Nat /\ a <= n /\ m = Pic(g, n, t, k, S)
    BY <1>1, <1>2, ShownIs DEF Shown
  <2>6. PICK l, r : l = n - a /\ r = t - a
    OBVIOUS
  <2>7. e = Pic(g, l, r, k, S)
    BY <1>1, <2>5, <2>6, Dropped
  <2>8. PICK w, c, d : w = Stack(g, NIL, l) /\ c = g.bottom[NIL] /\ d = Globals(g)
    OBVIOUS
  <2>9. \A f : Pic(g, l, r, k, f) = Fields(w, c, r, k, d, f)
    BY <2>8 DEF Pic, Fields
  <2>10. p \in DOMAIN S /\ S[p] = Pair(y, z)
    BY <1>1, <2>4
  <2>11. /\ WithCar(Fields(w, c, r, k, d, S), p, v) = Fields(w, c, r, k, d, With(S, p, Pair(v, z)))
         /\ WithCdr(Fields(w, c, r, k, d, S), p, v) = Fields(w, c, r, k, d, With(S, p, Pair(y, v)))
    <3>1. p \in DOMAIN S /\ (\E q, u : S[p] = Pair(q, u)) /\ S[p].car = y /\ S[p].cdr = z
      <4>1. S[p].car = y /\ S[p].cdr = z
        BY <2>10 DEF Pair
      <4> QED  BY <2>10, <4>1
    <3>2. /\ WithCar(Fields(w, c, r, k, d, S), p, v) = Fields(w, c, r, k, d, With(S, p, Pair(v, S[p].cdr)))
          /\ WithCdr(Fields(w, c, r, k, d, S), p, v) = Fields(w, c, r, k, d, With(S, p, Pair(S[p].car, v)))
      BY <3>1, PairFieldSet
    <3> QED  BY <3>1, <3>2
  <2>12. /\ WithCar(e, p, v) = Pic(g, l, r, k, With(S, p, Pair(v, z)))
         /\ WithCdr(e, p, v) = Pic(g, l, r, k, With(S, p, Pair(y, v)))
    BY <2>7, <2>9, <2>11
  <2> QED  BY <1>1, <2>1, <2>4, <2>6, <2>12
<1>3. ASSUME PrimSetCar PROVE Machine!SetCar(m) \/ Machine!Halt
  <2>1. PICK s : /\ s = CarSet(b)
                 /\ Do(s, at) /\ pc.temps > 1 /\ IsA(p, CONS_TYPE) /\ IsA(b.reg1, CONS_TYPE)
    BY <1>1, <1>3 DEF PrimSetCar, CarSet
  <2>2. ASSUME Goes(s, at) PROVE Machine!SetCar(m)
    <3>0. s = CarSet(b) \/ s = CdrSet(b)
      BY <2>1
    <3>1. /\ ObjectSet(g, p, g.kind[p], s.car[p], s.cdr[p], s, Moved(2, 0), vm.cont)
          /\ s.car[p] = b.reg2 /\ s.cdr[p] = g.cdr[p]
      <4>1. Pictured(vm, pc, vm.cont, g) /\ pc.temps > 1 /\ b = Pop2(vm) /\ IsA(b.reg1, CONS_TYPE) /\ p = b.reg1
        BY <1>1, <2>1 DEF Shown
      <4> QED  BY <2>1, <3>0, <4>1, PairIsSet
    <3>2. ObjectSet(g, p, CONS_TYPE, v, z, s, at, vm.cont)
      BY <1>1, <1>2, <2>1, <3>1
    <3>3. PICK x : x = WithCar(e, p, v)
      OBVIOUS
    <3>4. x = Pic(g, pc.slots - 2, pc.temps - 2, vm.cont, With(store, p, Pair(v, z)))
      BY <1>2, <2>1, <3>3
    <3>5. p = Second(vm) /\ Inside(store, v) /\ Inside(store, z)
      BY <1>2, <2>1
    <3>6. Machine!Become(x)
      BY <1>1, <2>1, <2>2, <3>2, <3>4, <3>5, PairBecomes
    <3> QED  BY <1>1, <1>2, <2>1, <3>3, <3>6 DEF Machine!SetCar, WithCar
  <2> QED  BY <2>1, <2>2, DoCases
<1>4. ASSUME PrimSetCdr PROVE Machine!SetCdr(m) \/ Machine!Halt
  <2>1. PICK s : /\ s = CdrSet(b)
                 /\ Do(s, at) /\ pc.temps > 1 /\ IsA(p, CONS_TYPE) /\ IsA(b.reg1, CONS_TYPE)
    BY <1>1, <1>4 DEF PrimSetCdr, CdrSet
  <2>2. ASSUME Goes(s, at) PROVE Machine!SetCdr(m)
    <3>0. s = CarSet(b) \/ s = CdrSet(b)
      BY <2>1
    <3>1. /\ ObjectSet(g, p, g.kind[p], s.car[p], s.cdr[p], s, Moved(2, 0), vm.cont)
          /\ s.car[p] = g.car[p] /\ s.cdr[p] = b.reg2
      <4>1. Pictured(vm, pc, vm.cont, g) /\ pc.temps > 1 /\ b = Pop2(vm) /\ IsA(b.reg1, CONS_TYPE) /\ p = b.reg1
        BY <1>1, <2>1 DEF Shown
      <4> QED  BY <2>1, <3>0, <4>1, PairIsSet
    <3>2. ObjectSet(g, p, CONS_TYPE, y, v, s, at, vm.cont)
      BY <1>1, <1>2, <2>1, <3>1
    <3>3. PICK x : x = WithCdr(e, p, v)
      OBVIOUS
    <3>4. x = Pic(g, pc.slots - 2, pc.temps - 2, vm.cont, With(store, p, Pair(y, v)))
      BY <1>2, <2>1, <3>3
    <3>5. p = Second(vm) /\ Inside(store, v) /\ Inside(store, y)
      BY <1>2, <2>1
    <3>6. Machine!Become(x)
      BY <1>1, <2>1, <2>2, <3>2, <3>4, <3>5, PairBecomes
    <3> QED  BY <1>1, <1>2, <2>1, <3>3, <3>6 DEF Machine!SetCdr, WithCdr
  <2> QED  BY <2>1, <2>2, DoCases
<1> QED  BY <1>3, <1>4

-----------------------------------------------------------------------------
(* The instructions that resume a continuation. *)

\* The frame of a continuation that has not been used is of some size.
LEMMA SavedIs ==
  ASSUME NEW o, NEW i, Sound(vm, o, i, 0), NEW g, Shows(vm, o, i, g), NEW c, IsObject(o, c),
         vm.type[c] = CONTINUATION_TYPE, c \notin vm.spent
  PROVE  g.saved[c].slots \in Nat
<1>1. c \in Cell /\ CellSound(vm, o, i, 0, c)
  BY DEF Sound, IsObject
<1>2. In(o, vm.cdr[c], "saved", c, 0)
  BY <1>1 DEF CellSound, ObjectSound, IsObject
<1>3. PICK p : p = vm.cdr[c]
  OBVIOUS
<1>4. /\ p \in Cell /\ o.role[p] = "saved" /\ o.of[p] = c
      /\ CellSound(vm, o, i, 0, p) /\ CellShows(vm, o, g, p)
  BY <1>2, <1>3 DEF In, Sound, Shows
<1>5. vm.cdr[p] = g.saved[c] /\ vm.cdr[p] \in Address
  BY <1>4 DEF CellShows, CellSound, SavedSound
<1> QED  BY <1>5 DEF Address

\* All fields are set but the globals, and one object is another.
AllSet(x, a, b, c, d, k, o) ==
  [x EXCEPT !.stack = a, !.closed = b, !.temps = c, !.cont = d, !.store[k] = o]

\* The machine then.
LEMMA AllFieldsSet ==
  ASSUME NEW a0, NEW b0, NEW c0, NEW d0, NEW e, NEW f, NEW k \in DOMAIN f, NEW a, NEW b, NEW c, NEW d, NEW o
  PROVE  AllSet(Fields(a0, b0, c0, d0, e, f), a, b, c, d, k, o) = Fields(a, b, c, d, e, With(f, k, o))
<1> DEFINE x == Fields(a0, b0, c0, d0, e, f)
<1>1. x.store = f /\ \A w : [x EXCEPT !.stack = a, !.closed = b, !.temps = c, !.cont = d, !.store = w]
                              = Fields(a, b, c, d, e, w)
  <2>1. x \in [stack : {a0}, closed : {b0}, temps : {c0}, cont : {d0}, globals : {e}, store : {f}]
    BY DEF Fields
  <2> HIDE DEF x
  <2>2. ASSUME NEW w, NEW y, y = [x EXCEPT !.stack = a, !.closed = b, !.temps = c, !.cont = d, !.store = w]
        PROVE  y = [stack |-> a, closed |-> b, temps |-> c, cont |-> d, globals |-> e, store |-> w]
    <3>1. y \in [stack : {a}, closed : {b}, temps : {c}, cont : {d}, globals : {e}, store : {w}]
      BY <2>1, <2>2
    <3> QED  BY <3>1
  <2> QED  BY <2>1, <2>2 DEF Fields
<1>2. [f EXCEPT ![k] = o] = With(f, k, o)
  BY DEF With
<1> HIDE DEF x
<1>3. AllSet(x, a, b, c, d, k, o)
        = [x EXCEPT !.stack = a, !.closed = b, !.temps = c, !.cont = d, !.store = [f EXCEPT ![k] = o]]
  BY <1>1, ZenonT(60) DEF AllSet
<1> QED  BY <1>1, <1>2, <1>3 DEF x

\* A value on top, by fields.
LEMMA FieldsPut ==
  ASSUME NEW a, NEW b, NEW c, NEW d, NEW e, NEW f, NEW v
  PROVE  Machine!Put(Fields(a, b, c, d, e, f), v) = Fields(<<v>> \o a, b, c + 1, d, e, f)
<1>1. PICK x, u, z : x = Fields(a, b, c, d, e, f) /\ u = <<v>> \o a /\ z = c + 1
  OBVIOUS
<1>2. x.stack = a /\ x.temps = c
  BY <1>1 DEF Fields
<1>3. Machine!Put(x, v) = OnStack(x, u, z)
  BY <1>1, <1>2 DEF Machine!Put, OnStack
<1>4. OnStack(x, u, z) = Fields(u, b, z, d, e, f)
  BY <1>1, TwoFieldsSet
<1> QED  BY <1>1, <1>3, <1>4

\* A continuation of the program has been given a value.
LEMMA ResumedSeen ==
  ASSUME NEW g, NEW m, Shown(g, m), NEW k, Inside(store, k), IsA(k, CONTINUATION_TYPE), k \notin vm.spent,
         NEW v, Inside(store, v), NEW s, NEW at, Goes(s, at), Resumed(g, k, v, s, at)
  PROVE  Machine!IsA(m, k, "cont") /\ Machine!Resume(m, k, v)
<1>1. PICK i, t, e, c, S, T, w : /\ i = g.saved[k].slots /\ t = g.saved[k].temps /\ e = g.bottom[k] /\ c = g.car[k]
                                 /\ S = store /\ T = With(S, k, Spent) /\ w = Stack(g, k, i)
  OBVIOUS
<1>2. PICK kind : kind = CONTINUATION_TYPE
  OBVIOUS
<1>3. /\ Machine!IsA(m, k, "cont") /\ m.store[k] = Frame(w, e, t, c)
      /\ (\A j \in 1 .. i : Inside(S, w[j])) /\ Inside(S, e) /\ Inside(S, c)
  <2>1. IsA(k, kind)
    BY <1>2
  <2> QED  BY <1>1, <1>2, <2>1, KindFound
<1>4. /\ k \in DOMAIN S /\ k \in Cell /\ k \notin ReservedCell /\ i \in Nat /\ m.store = S
      /\ m = Fields(m.stack, m.closed, m.temps, m.cont, Globals(g), S)
  <2>1. k \in DOMAIN S /\ \A o : Sound(vm, o, pc.slots, 0) => IsObject(o, k)
    <3>1. IsA(k, kind)
      BY <1>2
    <3> QED  BY <1>1, <3>1, ObjectFound
  <2>2. PICK o : Sound(vm, o, pc.slots, 0) /\ Shows(vm, o, pc.slots, g)
    BY DEF Shown, Pictured
  <2>3. i \in Nat
    <3>1. vm.type[k] = CONTINUATION_TYPE /\ IsObject(o, k)
      BY <2>1, <2>2 DEF IsA
    <3> QED  BY <1>1, <2>2, <3>1, SavedIs
  <2>4. m.store = S /\ m = Fields(m.stack, m.closed, m.temps, m.cont, Globals(g), S)
    BY <1>1 DEF Shown, Pic, Fields
  <2> QED  BY <2>1, <2>3, <2>4 DEF IsA
<1>5. PICK u, h : /\ OnlyResumed(g, u, k) /\ h.slot[NIL][at.slots] = v /\ OnlySlot(u, h, at.slots)
                  /\ Pictured(s, at, c, h)
  BY <1>1 DEF Resumed
<1>6. at.slots = i + 1 /\ at.temps = t + 1
  BY <1>1 DEF Resumed
<1>7. PICK d : d = Pic(u, i, t, c, T)
  OBVIOUS
<1>8. Globals(u) = Globals(g)
  <2>1. \A q \in ReservedCell : u.car[q] = g.car[q] /\ u.cdr[q] = g.cdr[q]
    BY <1>4, <1>5 DEF OnlyResumed, ReservedCell
  <2> QED  BY <2>1, GlobalsKept
<1>9. u.slot[NIL] = g.slot[k] /\ u.bottom[NIL] = e
  BY <1>1, <1>5 DEF OnlyResumed
<1>10. d = Fields(w, e, t, c, Globals(g), T)
  <2>1. Stack(u, NIL, i) = w
    BY <1>1, <1>9 DEF Stack
  <2> QED  BY <1>7, <1>8, <1>9, <2>1 DEF Pic, Fields
<1>11. Depicts(T, u)
  <2>1. \A q \in Cell : q # k => SameObject(g, u, q)
    BY <1>5, NilAssumption DEF OnlyResumed, SameObject, Value
  <2>2. \A q \in Cell : q # k => Abs(u, q) = Abs(g, q)
    BY <2>1, AbsKept
  <2>3. Abs(u, k) = Spent
    BY <1>5, AbsIs DEF OnlyResumed
  <2>4. Depicts(S, g)
    BY <1>1 DEF Shown
  <2> QED  BY <1>1, <1>4, <2>2, <2>3, <2>4 DEF Depicts, With
<1>12. DOMAIN T = DOMAIN S /\ T[k] = Spent /\ \A q \in DOMAIN S : q # k => T[q] = S[q]
  BY <1>1, <1>4 DEF With
<1>13. \A y : Inside(T, y) <=> Inside(S, y)
  BY <1>12 DEF Inside
<1>14. Whole(d)
  <2>1. \A j \in 1 .. i : Inside(T, u.slot[NIL][j])
    <3> SUFFICES ASSUME NEW j \in 1 .. i PROVE Inside(T, u.slot[NIL][j])
      OBVIOUS
    <3>1. i - j + 1 \in 1 .. i /\ i - (i - j + 1) + 1 = j
      BY <1>4
    <3>2. w[i - j + 1] = g.slot[k][j]
      BY <1>1, <3>1 DEF Stack
    <3> QED  BY <1>3, <1>9, <1>13, <3>1, <3>2
  <2>2. Inside(T, u.bottom[NIL]) /\ Inside(T, c)
    BY <1>3, <1>9, <1>13
  <2>3. \A j \in GlobalVars : Inside(T, Globals(u)[j])
    BY <1>1, <1>8, <1>13, ShownIs
  <2>4. \A q \in DOMAIN T : \A y \in Refs(T[q]) : Inside(T, y)
    <3>1. \A q \in DOMAIN S : \A y \in Refs(S[q]) : Inside(S, y)
      BY <1>1, ShownIs
    <3> QED  BY <1>12, <1>13, <3>1, RefsOf
  <2> QED  BY <1>4, <1>7, <2>1, <2>2, <2>3, <2>4, WholeIs
<1>15. Inside(T, v)
  BY <1>1, <1>13
<1>16. Machine!Become(Machine!Put(d, v))
  <2>1. h.slot[NIL][i + 1] = v /\ OnlySlot(u, h, i + 1)
    BY <1>5, <1>6
  <2> QED  BY <1>4, <1>5, <1>6, <1>7, <1>11, <1>14, <1>15, <2>1, PutBecomes
<1>17. PICK x : x = AllSet(m, <<v>> \o w, e, t + 1, c, k, Spent)
  OBVIOUS
<1>18. x = Machine!Put(d, v)
  <2>1. PICK a, b, z : a = <<v>> \o w /\ b = Globals(g) /\ z = t + 1
    OBVIOUS
  <2>2. PICK a0, b0, c0, d0 : a0 = m.stack /\ b0 = m.closed /\ c0 = m.temps /\ d0 = m.cont
    OBVIOUS
  <2>3. m = Fields(a0, b0, c0, d0, b, S)
    BY <1>4, <2>1, <2>2
  <2>4. AllSet(Fields(a0, b0, c0, d0, b, S), a, e, z, c, k, Spent) = Fields(a, e, z, c, b, With(S, k, Spent))
    BY <1>4, AllFieldsSet
  <2>5. Machine!Put(Fields(w, e, t, c, b, T), v) = Fields(<<v>> \o w, e, t + 1, c, b, T)
    BY FieldsPut
  <2> QED  BY <1>1, <1>10, <1>17, <2>1, <2>3, <2>4, <2>5
<1>19. Machine!Resume(m, k, v)
  <2>1. /\ m.store[k].stack = w /\ m.store[k].closed = e /\ m.store[k].temps = t /\ m.store[k].parent = c
    BY <1>3 DEF Frame
  <2>2. Machine!Spent = Spent
    BY DEF Machine!Spent, Spent
  <2> QED  BY <1>16, <1>17, <1>18, <2>1, <2>2 DEF Machine!Resume, AllSet
<1> QED  BY <1>3, <1>19

\* PrimReturn
LEMMA ReturnSeen ==
  ASSUME OneShot, NEW g, NEW m, Shown(g, m), PrimReturn
  PROVE  Machine!Return(m) \/ Machine!Halt
<1>1. PICK k, v, s, at : /\ k = vm.cont /\ v = TopOf(vm) /\ at = Back(k) /\ Do(s, at) /\ pc.temps > 0 /\ IsUsable(k)
                         /\ s = PushResult(Resume(Pop1(vm), k))
  BY DEF PrimReturn
<1>2. ASSUME ~s.exhausted, Goes(s, at) PROVE Machine!Return(m)
  <2>1. Resumed(g, k, v, s, at)
    BY <1>1, <1>2, Returns DEF Shown
  <2>2. /\ m.temps > 0 /\ m.stack[1] = v /\ m.cont = k /\ Inside(store, v) /\ Inside(store, k)
        /\ IsA(k, CONTINUATION_TYPE) /\ k \notin vm.spent
    BY <1>1, ShownIs, TopsAre DEF IsUsable
  <2>3. Machine!IsA(m, k, "cont") /\ Machine!Resume(m, k, v)
    BY <1>2, <2>1, <2>2, ResumedSeen
  <2> QED  BY <2>2, <2>3 DEF Machine!Return
<1> QED  BY <1>1, <1>2, DoCases

\* PrimReturnToCont
LEMMA ReturnToContSeen ==
  ASSUME OneShot, NEW g, NEW m, Shown(g, m), PrimReturnToCont
  PROVE  Machine!ReturnToCont(m) \/ Machine!Halt
<1>1. PICK b, k, v, s, at :
        /\ b = Pop2(vm) /\ k = Second(vm) /\ v = TopOf(vm) /\ at = Back(k) /\ Do(s, at) /\ pc.temps > 1 /\ IsUsable(k)
        /\ s = PushResult(Resume([b EXCEPT !.reg1 = b.reg2], b.reg1))
  BY DEF PrimReturnToCont
<1>2. ASSUME ~s.exhausted, Goes(s, at) PROVE Machine!ReturnToCont(m)
  <2>1. Resumed(g, k, v, s, at)
    BY <1>1, <1>2, ReturnsToCont DEF Shown
  <2>2. /\ m.temps > 1 /\ m.stack[1] = v /\ m.stack[2] = k /\ Inside(store, v) /\ Inside(store, k)
        /\ IsA(k, CONTINUATION_TYPE) /\ k \notin vm.spent
    BY <1>1, ShownIs, TopsAre DEF IsUsable
  <2>3. Machine!IsA(m, k, "cont") /\ Machine!Resume(m, k, v)
    BY <1>2, <2>1, <2>2, ResumedSeen
  <2> QED  BY <2>2, <2>3 DEF Machine!ReturnToCont
<1> QED  BY <1>1, <1>2, DoCases

-----------------------------------------------------------------------------
(* Pushing a slot or a closed variable. *)

\* The walk of the machine of the program along its closed variables.
NextClosed(m, v) == IF Machine!IsA(m, v, "pair") THEN m.store[v].cdr ELSE NIL
ClosedWalk(m, i) == CHOOSE h : h = [j \in 0 .. i |-> IF j = 0 THEN m.closed ELSE NextClosed(m, h[j - 1])]

\* It goes where the links lead.
LEMMA ClosedWalkIs ==
  ASSUME NEW m, NEW i \in Nat, NEW w, w = [j \in 0 .. i |-> IF j = 0 THEN m.closed ELSE NextClosed(m, w[j - 1])]
  PROVE  ClosedWalk(m, i)[i] = w[i]
<1> DEFINE Loop(h) == [j \in 0 .. i |-> IF j = 0 THEN m.closed ELSE NextClosed(m, h[j - 1])]
           f == ClosedWalk(m, i)
<1>1. f = CHOOSE h : h = Loop(h)
  BY DEF ClosedWalk
<1>2. w = Loop(w)
  OBVIOUS
<1>3. f = Loop(f)
  BY <1>1, <1>2
<1>4. \A j \in 0 .. i : Loop(f)[j] = (IF j = 0 THEN m.closed ELSE NextClosed(m, f[j - 1]))
                        /\ Loop(w)[j] = (IF j = 0 THEN m.closed ELSE NextClosed(m, w[j - 1]))
  OBVIOUS
<1> HIDE DEF f, Loop
<1> DEFINE T == {j \in 0 .. i : f[j] = w[j]}
<1>5. \A j \in 0 .. i : /\ f[j] = (IF j = 0 THEN m.closed ELSE NextClosed(m, f[j - 1]))
                        /\ w[j] = (IF j = 0 THEN m.closed ELSE NextClosed(m, w[j - 1]))
  BY <1>2, <1>3, <1>4
<1>6. 0 \in T
  BY <1>5
<1>7. ASSUME NEW j \in 0 .. i - 1, j \in T PROVE j + 1 \in T
  <2>1. j + 1 \in 0 .. i /\ j + 1 # 0 /\ (j + 1) - 1 = j
    OBVIOUS
  <2> QED  BY <1>5, <1>7, <2>1
<1>8. \A j \in 0 .. i : j \in T
  <2> HIDE DEF T
  <2> QED  BY <1>6, <1>7, EveryRoundTo
<1> QED  BY <1>8 DEF f

\* A slot, or a closed variable, is the same for the program.
LEMMA SlotFound ==
  ASSUME NEW g, NEW m, Shown(g, m), NEW n \in Nat, IsBound(n)
  PROVE  /\ Len(m.stack) = pc.slots /\ Inside(store, Nth(vm, n))
         /\ n < pc.slots => Nth(vm, n) = m.stack[n + 1]
         /\ n >= pc.slots => /\ Machine!IsA(m, ClosedWalk(m, n - pc.slots)[n - pc.slots], "pair")
                             /\ m.store[ClosedWalk(m, n - pc.slots)[n - pc.slots]].car = Nth(vm, n)
<1>1. PICK k, e, f, i : k = pc.slots /\ e = vm.env /\ f = Walk(vm, e, n) /\ i = n - k
  OBVIOUS
<1>2. PICK o : Sound(vm, o, k, 0)
  BY <1>1 DEF Shown, Pictured
<1>3. vm \in Machines /\ e \in Word /\ k \in Nat
  BY <1>1, <1>2 DEF Sound, Machines, Word
<1>4. /\ f[0] = e
      /\ \A j \in 1 .. n : f[j] = Follow(vm, f[j - 1])
  BY <1>1, <1>3, WalkIs
<1>5. NthCell(vm, n) = f[n]
  BY <1>1, NthCellIs
<1>6. Len(m.stack) = k
  <2>1. m.stack = Stack(g, NIL, k)
    BY <1>1, ShownIs
  <2> QED  BY <1>3, <2>1 DEF Stack
<1>7. m.stack = stack /\ m.closed = frame[k] /\ frame = Walk(vm, e, k) /\ m.store = store
  <2>1. stack = Stack(g, NIL, pc.slots) /\ frame[pc.slots] = g.bottom[NIL]
    BY MachineShown DEF Shown
  <2>2. frame = Walk(vm, e, k)
    BY <1>1, SpineIsWalk DEF frame
  <2> QED  BY <1>1, <2>1, <2>2, ShownIs
<1>8. ASSUME n < k PROVE Inside(store, Nth(vm, n)) /\ Nth(vm, n) = m.stack[n + 1]
  <2>1. frame[n] = f[n]
    <3>1. Walk(vm, e, n)[n] = Walk(vm, e, k)[n]
      BY <1>3, <1>8, WalkPrefix
    <3> QED  BY <1>1, <1>7, <3>1
  <2>2. n + 1 \in 1 .. k /\ (n + 1) - 1 = n
    BY <1>3, <1>8
  <2>3. stack[n + 1] = IF frame[n] \in Cell THEN vm.car[frame[n]] ELSE NIL
    BY <1>1, <2>2 DEF stack, Slots
  <2>4. Nth(vm, n) = m.stack[n + 1]
    BY <1>5, <1>7, <2>1, <2>3 DEF Nth
  <2>5. Inside(store, m.stack[n + 1])
    <3>1. k - (n + 1) + 1 \in 1 .. k
      BY <1>3, <1>8
    <3> QED  BY <1>1, <2>2, <3>1, ShownIs
  <2> QED  BY <2>4, <2>5
<1>9. ASSUME n >= k
      PROVE  /\ Inside(store, Nth(vm, n)) /\ Machine!IsA(m, ClosedWalk(m, i)[i], "pair")
             /\ m.store[ClosedWalk(m, i)[i]].car = Nth(vm, n)
  <2>0. i \in Nat /\ k + i = n
    BY <1>1, <1>3, <1>9
  <2>1. m.closed = f[k] /\ Inside(store, f[k])
    <3>1. Walk(vm, e, k)[k] = Walk(vm, e, n)[k]
      BY <1>3, <1>9, WalkPrefix
    <3>2. Inside(store, m.closed)
      BY ShownIs
    <3> QED  BY <1>1, <1>7, <3>1, <3>2
  <2>2. \A j \in 0 .. i : IsA(f[k + j], CONS_TYPE)
    <3> SUFFICES ASSUME NEW j \in 0 .. i PROVE IsA(f[k + j], CONS_TYPE)
      OBVIOUS
    <3>1. k + j \in pc.slots .. n /\ k + j \in Nat /\ k + j <= n /\ ~(n < pc.slots)
      BY <1>1, <1>3, <1>9, <2>0
    <3>2. IsA(NthCell(vm, k + j), CONS_TYPE)
      BY <3>1 DEF IsBound
    <3>3. PICK l : l = k + j
      OBVIOUS
    <3>4. NthCell(vm, l) = Walk(vm, e, l)[l]
      BY <1>1, NthCellIs
    <3>5. Walk(vm, e, l)[l] = Walk(vm, e, n)[l]
      BY <1>3, <3>1, <3>3, WalkPrefix
    <3> QED  BY <1>1, <3>2, <3>3, <3>4, <3>5
  <2>3. ASSUME NEW j \in 0 .. i, Inside(store, f[k + j])
        PROVE  /\ Machine!IsA(m, f[k + j], "pair") /\ m.store[f[k + j]] = Pair(vm.car[f[k + j]], vm.cdr[f[k + j]])
               /\ Inside(store, vm.car[f[k + j]]) /\ Inside(store, vm.cdr[f[k + j]])
               /\ j < i => f[k + (j + 1)] = vm.cdr[f[k + j]]
    <3>1. PICK v, kind : v = f[k + j] /\ kind = CONS_TYPE
      OBVIOUS
    <3>2. Inside(store, v) /\ IsA(v, kind)
      BY <2>2, <2>3, <3>1
    <3>3. /\ Machine!IsA(m, v, "pair") /\ m.store[v] = Pair(vm.car[v], vm.cdr[v])
          /\ Inside(store, vm.car[v]) /\ Inside(store, vm.cdr[v])
      BY <3>1, <3>2, KindFound
    <3>4. j < i => f[k + (j + 1)] = vm.cdr[v]
      <4> SUFFICES ASSUME j < i PROVE f[k + (j + 1)] = vm.cdr[v]
        OBVIOUS
      <4>1. k + (j + 1) \in 1 .. n /\ (k + (j + 1)) - 1 = k + j
        BY <1>3, <2>0
      <4>2. f[k + (j + 1)] = Follow(vm, f[k + j])
        BY <1>4, <4>1
      <4> QED  BY <3>1, <3>2, <4>2 DEF Follow, IsA
    <3> QED  BY <3>1, <3>3, <3>4
  <2> DEFINE T == {j \in 0 .. i : Inside(store, f[k + j])}
  <2>4. 0 \in T
    BY <1>3, <2>0, <2>1
  <2>5. ASSUME NEW j \in 0 .. i - 1, j \in T PROVE j + 1 \in T
    <3>1. j \in 0 .. i /\ j < i /\ j + 1 \in 0 .. i
      BY <2>0
    <3>2. f[k + (j + 1)] = vm.cdr[f[k + j]] /\ Inside(store, vm.cdr[f[k + j]])
      BY <2>3, <2>5, <3>1
    <3> QED  BY <3>1, <3>2
  <2>6. \A j \in 0 .. i : j \in T
    <3> HIDE DEF T
    <3> QED  BY <2>0, <2>4, <2>5, EveryRoundTo
  <2> DEFINE w == [j \in 0 .. i |-> f[k + j]]
  <2>7. w = [j \in 0 .. i |-> IF j = 0 THEN m.closed ELSE NextClosed(m, w[j - 1])]
    <3>1. ASSUME NEW j \in 0 .. i PROVE w[j] = IF j = 0 THEN m.closed ELSE NextClosed(m, w[j - 1])
      <4>1. CASE j = 0
        BY <1>3, <2>1, <4>1
      <4>2. CASE j # 0
        <5>1. PICK l : l = j - 1
          OBVIOUS
        <5>2. l \in 0 .. i /\ l < i /\ l + 1 = j /\ l \in T
          BY <2>0, <2>6, <4>2, <5>1
        <5>3. /\ Machine!IsA(m, f[k + l], "pair") /\ m.store[f[k + l]] = Pair(vm.car[f[k + l]], vm.cdr[f[k + l]])
              /\ f[k + (l + 1)] = vm.cdr[f[k + l]]
          BY <2>3, <5>2
        <5>4. w[j] = vm.cdr[f[k + l]] /\ w[l] = f[k + l]
          BY <5>2, <5>3
        <5>5. NextClosed(m, w[l]) = vm.cdr[f[k + l]]
          BY <5>3, <5>4 DEF NextClosed, Pair
        <5> QED  BY <4>2, <5>1, <5>4, <5>5
      <4> QED  BY <4>1, <4>2
    <3> DEFINE z == [j \in 0 .. i |-> IF j = 0 THEN m.closed ELSE NextClosed(m, w[j - 1])]
    <3>2. \A j \in 0 .. i : w[j] = z[j]
      BY <3>1
    <3>3. w = [j \in 0 .. i |-> w[j]] /\ z = [j \in 0 .. i |-> z[j]]
      OBVIOUS
    <3> HIDE DEF w, z
    <3>4. w = z
      BY <3>2, <3>3
    <3> QED  BY <3>4 DEF z
  <2>8. w[i] = f[n]
    BY <2>0
  <2> HIDE DEF w
  <2>9. ClosedWalk(m, i)[i] = f[n]
    BY <2>0, <2>7, <2>8, ClosedWalkIs
  <2>10. /\ Machine!IsA(m, f[n], "pair") /\ m.store[f[n]] = Pair(vm.car[f[n]], vm.cdr[f[n]])
         /\ Inside(store, vm.car[f[n]])
    <3>1. i \in 0 .. i /\ Inside(store, f[k + i])
      BY <2>0, <2>6
    <3> QED  BY <2>0, <2>3, <3>1
  <2>11. Nth(vm, n) = vm.car[f[n]]
    <3>1. i \in 0 .. i
      BY <2>0
    <3>2. f[n] \in Cell
      BY <2>0, <2>2, <3>1 DEF IsA
    <3> QED  BY <1>5, <3>2 DEF Nth
  <2> QED  BY <2>9, <2>10, <2>11 DEF Pair
<1>10. n < k \/ n >= k
  BY <1>3
<1> QED  BY <1>1, <1>6, <1>8, <1>9, <1>10

\* PushStack
LEMMA PushStackSeen ==
  ASSUME NEW g, NEW m, Shown(g, m), NEW n \in 0 .. MaxIndex, PushStack(n)
  PROVE  Machine!PushStack(m, n) \/ Machine!Halt
<1>1. PICK v, s, at : /\ v = Nth(vm, n) /\ at = Moved(0, 1) /\ Do(s, at) /\ IsBound(n)
                      /\ s = [Push([vm EXCEPT !.reg1 = NthCell(vm, n)], Nth(vm, n)) EXCEPT !.reg1 = NIL]
  BY DEF PushStack
<1>2. ASSUME ~s.exhausted, Goes(s, at) PROVE Machine!PushStack(m, n)
  <2>0. n \in Nat
    OBVIOUS
  <2>1. SlotSet(g, pc.slots + 1, v, s, at, vm.cont)
    BY <1>1, <1>2, <2>0, SlotIsPushed DEF Shown
  <2>2. PICK i : i = n - pc.slots
    OBVIOUS
  <2>3. /\ Len(m.stack) = pc.slots /\ Inside(store, v)
        /\ n < pc.slots => v = m.stack[n + 1]
        /\ n >= pc.slots => /\ Machine!IsA(m, ClosedWalk(m, i)[i], "pair")
                            /\ m.store[ClosedWalk(m, i)[i]].car = v
    BY <1>1, <2>0, <2>2, SlotFound
  <2>4. Machine!Become(Machine!Put(m, v))
    BY <1>1, <1>2, <2>1, <2>3, SlotPut
  <2>5. pc.slots \in Nat
    BY ShownIs
  <2>6. CASE n < pc.slots
    <3>1. n - Len(m.stack) < 0 /\ v = m.stack[n + 1]
      BY <2>3, <2>5, <2>6
    <3> QED  BY <2>4, <3>1 DEF Machine!PushStack
  <2>7. CASE n >= pc.slots
    <3>1. n - Len(m.stack) = i /\ i >= 0
      BY <2>2, <2>3, <2>5, <2>7
    <3>2. /\ Machine!IsA(m, ClosedWalk(m, i)[i], "pair")
          /\ Machine!Become(Machine!Put(m, m.store[ClosedWalk(m, i)[i]].car))
      BY <2>3, <2>4, <2>7
    <3> QED  BY <3>1, <3>2 DEF Machine!PushStack, ClosedWalk, NextClosed
  <2> QED  BY <2>5, <2>6, <2>7
<1> QED  BY <1>1, <1>2, DoCases

-----------------------------------------------------------------------------
(* Entering a procedure. *)

\* The n slots on top of l are the arguments of a call, as the program holds them.
Arguments(g, l, n) == [j \in 1 .. n |-> g.slot[NIL][l - j + 1]]

\* They are ready, and those that are listed were no objects of the program.
Readying(g, S, l, n, entry, end, o, u, ids) ==
  /\ l \in Nat /\ n \in Nat /\ n <= l /\ entry \in [params : Nat, rest : BOOLEAN]
  /\ Handing(g, l, n, entry, end, o, u, ids)
  /\ Depicts(S, g)
  /\ Fixed(entry, n) # n => /\ \A c \in DOMAIN S : IsObject(o, c)
                            /\ \A c \in ReservedCell : o.role[c] = "global"

\* The store of the program, and what a view shows of the cells of a list.
ListStore(S, u, ids, i) == [c \in {ids[j] : j \in 1 .. i} \cup DOMAIN S |-> Abs(u, c)]

\* What that says of the list.
LEMMA ListIs ==
  ASSUME NEW g, NEW S, NEW l, NEW n, NEW entry, NEW end, NEW o, NEW u, NEW ids,
         Readying(g, S, l, n, entry, end, o, u, ids), NEW i, i = n - Fixed(entry, n)
  PROVE  /\ i \in Nat /\ i <= n /\ Fixed(entry, n) \in Nat /\ Fixed(entry, n) + i = n
         /\ (~entry.rest => i = 0) /\ entry.rest \in BOOLEAN
         /\ ids \in [1 .. i -> Cell] /\ \A j, d \in 1 .. i : ids[j] = ids[d] => j = d
         /\ \A j \in 1 .. i : ids[j] \notin DOMAIN S /\ ids[j] \notin ReservedCell
         /\ \A j \in 1 .. i : Abs(u, ids[j]) = Pair(g.slot[NIL][l - j + 1], IF j = 1 THEN NIL ELSE ids[j - 1])
         /\ \A c \in DOMAIN S : c \in Cell /\ Abs(u, c) = S[c]
         /\ Globals(u) = Globals(g) /\ u.slot = g.slot /\ u.bottom = g.bottom /\ u.rest = end
         /\ entry.rest => u.arg[1] = IF i = 0 THEN NIL ELSE ids[i]
<1>1. /\ i \in Nat /\ i <= n /\ Fixed(entry, n) \in Nat /\ Fixed(entry, n) + i = n
      /\ (~entry.rest => i = 0) /\ entry.rest \in BOOLEAN
  <2>1. /\ Fixed(entry, n) \in Nat /\ Fixed(entry, n) <= n
        /\ ~entry.rest => Fixed(entry, n) = n
    BY FixedIs DEF Readying
  <2>2. n \in Nat /\ entry.rest \in BOOLEAN
    BY DEF Readying
  <2> QED  BY <2>1, <2>2
<1>2. /\ ids \in [1 .. i -> Cell]
      /\ \A j \in 1 .. i : In(o, ids[j], "frame", NIL, l - j + 1)
      /\ Paired(g, u, ids, l, i)
      /\ \A c \in Cell : (\A j \in 1 .. i : ids[j] # c)
           => u.kind[c] = g.kind[c] /\ u.car[c] = g.car[c] /\ u.cdr[c] = g.cdr[c]
      /\ u.slot = g.slot /\ u.bottom = g.bottom /\ u.saved = g.saved /\ u.rest = end
  BY DEF Readying, Handing, Readied
<1>3. entry.rest => u.arg[1] = IF i = 0 THEN NIL ELSE ids[i]
  <2>1. entry.rest => u.arg[1] = IF n = Fixed(entry, n) THEN NIL ELSE ids[n - Fixed(entry, n)]
    BY DEF Readying, Handing, Readied
  <2>2. n = Fixed(entry, n) <=> i = 0
    BY <1>1
  <2> QED  BY <2>1, <2>2
<1>4. ASSUME NEW j \in 1 .. i, NEW d \in 1 .. i, ids[j] = ids[d] PROVE j = d
  <2>1. o.at[ids[j]] = l - j + 1 /\ o.at[ids[d]] = l - d + 1
    BY <1>2 DEF In
  <2>2. l \in Nat
    BY DEF Readying
  <2> QED  BY <1>1, <1>4, <2>1, <2>2
<1>5. ASSUME NEW j \in 1 .. i PROVE ids[j] \notin DOMAIN S /\ ids[j] \notin ReservedCell
  <2>1. o.role[ids[j]] = "frame" /\ Fixed(entry, n) # n
    BY <1>1, <1>2 DEF In
  <2> QED  BY <2>1 DEF Readying, IsObject
<1>6. ASSUME NEW j \in 1 .. i
      PROVE  Abs(u, ids[j]) = Pair(g.slot[NIL][l - j + 1], IF j = 1 THEN NIL ELSE ids[j - 1])
  <2>1. PICK c : c = ids[j]
    OBVIOUS
  <2>2. u.kind[c] = CONS_TYPE /\ u.car[c] = g.slot[NIL][l - j + 1]
        /\ u.cdr[c] = IF j = 1 THEN NIL ELSE ids[j - 1]
    BY <1>2, <2>1 DEF Paired
  <2>3. Abs(u, c) = Pair(u.car[c], u.cdr[c])
    BY <2>2, AbsIs
  <2> QED  BY <2>1, <2>2, <2>3
<1>7. ASSUME NEW c \in DOMAIN S PROVE c \in Cell /\ Abs(u, c) = S[c]
  <2>1. c \in Cell /\ S[c] = Abs(g, c)
    BY DEF Readying, Depicts
  <2>2. SameObject(g, u, c)
    BY <1>2, <1>5, <2>1 DEF SameObject
  <2> QED  BY <2>1, <2>2, AbsKept
<1>8. Globals(u) = Globals(g)
  <2>1. \A c \in ReservedCell : u.car[c] = g.car[c] /\ u.cdr[c] = g.cdr[c]
    BY <1>2, <1>5 DEF ReservedCell
  <2> QED  BY <2>1, GlobalsKept
<1> QED  BY <1>1, <1>2, <1>3, <1>4, <1>5, <1>6, <1>7, <1>8

\* The slots that a procedure is entered with, as it sees them.
LEMMA SlotsEntered ==
  ASSUME NEW g, NEW S, NEW l, NEW n, NEW entry, NEW end, NEW o, NEW u, NEW ids,
         Readying(g, S, l, n, entry, end, o, u, ids), NEW i, i = n - Fixed(entry, n),
         NEW h, h.slot[NIL] = u.arg, NEW k, k = Fixed(entry, n) + Rests(entry)
  PROVE  /\ k \in Nat
         /\ \A j \in 1 .. Fixed(entry, n) : h.slot[NIL][k - j + 1] = g.slot[NIL][l - n + j]
         /\ entry.rest => h.slot[NIL][1] = IF i = 0 THEN NIL ELSE ids[i]
<1>1. /\ i \in Nat /\ i <= n /\ Fixed(entry, n) \in Nat /\ Fixed(entry, n) + i = n
      /\ entry.rest \in BOOLEAN /\ (entry.rest => u.arg[1] = IF i = 0 THEN NIL ELSE ids[i])
  BY ListIs
<1>2. k \in Nat /\ Rests(entry) \in {0, 1} /\ l \in Nat /\ n \in Nat
  BY <1>1 DEF Rests, Readying
<1>3. ASSUME NEW j \in 1 .. Fixed(entry, n) PROVE h.slot[NIL][k - j + 1] = g.slot[NIL][l - n + j]
  <2>1. PICK f, d : f = Fixed(entry, n) /\ d = f - j + 1
    OBVIOUS
  <2>2. d \in 1 .. f /\ Rests(entry) + d = k - j + 1 /\ l - i - d + 1 = l - n + j
    BY <1>1, <1>2, <2>1
  <2>3. u.arg[Rests(entry) + d] = g.slot[NIL][l - i - d + 1]
    BY <2>1, <2>2 DEF Readying, Handing, Handed
  <2> QED  BY <2>2, <2>3
<1> QED  BY <1>1, <1>2, <1>3

\* The slots that a procedure is entered with, as the machine of the program puts them.
LEMMA StackEntered ==
  ASSUME NEW g, NEW S, NEW l, NEW n, NEW entry, NEW end, NEW o, NEW u, NEW ids,
         Readying(g, S, l, n, entry, end, o, u, ids), NEW i, i = n - Fixed(entry, n),
         NEW h, h.slot[NIL] = u.arg, NEW k, k = Fixed(entry, n) + Rests(entry),
         NEW args, args = Arguments(g, l, n)
  PROVE  Machine!Reverse(SubSeq(args, i + 1, Len(args)))
           \o (IF entry.rest THEN <<IF i = 0 THEN NIL ELSE ids[i]>> ELSE <<>>) = Stack(h, NIL, k)
<1>1. PICK f, x : f = Fixed(entry, n) /\ x = IF i = 0 THEN NIL ELSE ids[i]
  OBVIOUS
<1>2. i \in Nat /\ i <= n /\ f \in Nat /\ f + i = n /\ entry.rest \in BOOLEAN /\ n \in Nat /\ l \in Nat
  BY <1>1, ListIs DEF Readying
<1>3. /\ k \in Nat /\ \A j \in 1 .. f : h.slot[NIL][k - j + 1] = g.slot[NIL][l - n + j]
      /\ entry.rest => h.slot[NIL][1] = x
  BY <1>1, SlotsEntered
<1>4. Len(args) = n /\ \A j \in 1 .. n : args[j] = g.slot[NIL][l - j + 1]
  BY <1>2 DEF Arguments
<1>5. PICK s : s = SubSeq(args, i + 1, n)
  OBVIOUS
<1>6. s = [j \in 1 .. f |-> args[i + j]]
  <2>1. args = [j \in 1 .. n |-> args[j]]
    BY <1>4 DEF Arguments
  <2>2. n - i = f /\ (i + 1) + f - 1 = n
    BY <1>2
  <2>3. s = [j \in 1 .. (n - i) |-> args[i + j]]
    BY <1>2, <1>5, <2>1, SMTT(30)
  <2> QED  BY <2>2, <2>3
<1>7. PICK r : r = Machine!Reverse(s)
  OBVIOUS
<1>8. DOMAIN r = 1 .. f /\ Len(r) = f /\ r = [j \in 1 .. f |-> r[j]]
  <2>1. Len(s) = f
    BY <1>2, <1>6
  <2>2. r = [j \in 1 .. Len(s) |-> s[(Len(s) - j) + 1]]
    BY <1>7 DEF Machine!Reverse
  <2> QED  BY <1>2, <2>1, <2>2
<1>9. ASSUME NEW j \in 1 .. f PROVE r[j] = g.slot[NIL][l - n + j]
  <2>1. Len(s) = f
    BY <1>2, <1>6
  <2>2. r = [d \in 1 .. Len(s) |-> s[(Len(s) - d) + 1]]
    BY <1>7 DEF Machine!Reverse
  <2>3. r[j] = s[(f - j) + 1]
    BY <2>1, <2>2
  <2>4. (f - j) + 1 \in 1 .. f /\ i + ((f - j) + 1) \in 1 .. n /\ l - (i + ((f - j) + 1)) + 1 = l - n + j
    BY <1>2
  <2>5. s[(f - j) + 1] = args[i + ((f - j) + 1)]
    BY <1>6, <2>4
  <2> QED  BY <1>4, <2>3, <2>4, <2>5
<1>10. PICK y : y = Stack(h, NIL, k)
  OBVIOUS
<1>11. y = [j \in 1 .. k |-> h.slot[NIL][k - j + 1]]
  BY <1>10 DEF Stack
<1>12. CASE entry.rest
  <2>0. k = f + 1
    BY <1>1, <1>12 DEF Rests
  <2>1. k = f + 1 /\ f + 1 \in 1 .. k /\ k - (f + 1) + 1 = 1
    BY <1>2, <2>0
  <2>2. PICK w : w = r \o <<x>>
    OBVIOUS
  <2>3. w = [j \in 1 .. f + 1 |-> IF j <= f THEN r[j] ELSE x]
    <3>1. w = [j \in 1 .. Len(r) + 1 |-> IF j <= Len(r) THEN r[j] ELSE <<x>>[j - Len(r)]]
      BY <1>2, <1>8, <2>2
    <3> QED  BY <1>2, <1>8, <3>1
  <2>4. ASSUME NEW j \in 1 .. f + 1 PROVE w[j] = y[j]
    <3>1. CASE j <= f
      <4>1. j \in 1 .. f /\ j \in 1 .. k
        BY <1>2, <2>1, <3>1
      <4>2. w[j] = r[j] /\ y[j] = h.slot[NIL][k - j + 1]
        BY <1>11, <2>3, <3>1, <4>1
      <4> QED  BY <1>3, <1>9, <4>1, <4>2
    <3>2. CASE ~(j <= f)
      <4>1. j = f + 1
        BY <1>2, <3>2
      <4>2. w[j] = x
        BY <2>3, <3>2
      <4>3. y[j] = h.slot[NIL][1]
        BY <1>11, <2>1, <4>1
      <4> QED  BY <1>3, <1>12, <4>2, <4>3
    <3> QED  BY <3>1, <3>2
  <2>5. w = y
    <3>1. w = [j \in 1 .. f + 1 |-> w[j]]
      BY <2>3
    <3>2. y = [j \in 1 .. f + 1 |-> y[j]]
      BY <1>11, <2>1
    <3> QED  BY <2>4, <3>1, <3>2
  <2> QED  BY <1>1, <1>4, <1>5, <1>7, <1>10, <1>12, <2>2, <2>5
<1>13. CASE ~entry.rest
  <2>1. k = f
    BY <1>1, <1>2, <1>13 DEF Rests
  <2>2. \A j \in 1 .. f : r[j] = y[j]
    BY <1>3, <1>9, <1>11, <2>1
  <2>3. r = y
    <3>1. y = [j \in 1 .. f |-> y[j]]
      BY <1>11, <2>1
    <3> QED  BY <1>8, <2>2, <3>1
  <2>4. r \o <<>> = r
    BY <1>8
  <2> QED  BY <1>4, <1>5, <1>7, <1>10, <1>13, <2>3, <2>4
<1> QED  BY <1>2, <1>12, <1>13

\* The store of the program with a list.
GatheredAs(z, S, args, i, ids) ==
  /\ z = [c \in DOMAIN z |-> z[c]] /\ \A c : c \in DOMAIN z <=> c \in DOMAIN S \/ \E j \in 1 .. i : c = ids[j]
  /\ \A j \in 1 .. i : z[ids[j]] = Pair(args[j], IF j = 1 THEN NIL ELSE ids[j - 1])
  /\ \A c \in DOMAIN S : (\A j \in 1 .. i : ids[j] # c) => z[c] = S[c]

\* It is made so.
LEMMA GatheredIs ==
  ASSUME NEW S, NEW args, NEW i \in Nat, NEW ids, \A j, d \in 1 .. i : ids[j] = ids[d] => j = d
  PROVE  GatheredAs(Machine!Gathered(S, args, i, ids), S, args, i, ids)
<1> DEFINE pos(c) == CHOOSE j \in 1 .. i : ids[j] = c
           cell(j) == Machine!Pair(args[j], IF j = 1 THEN NIL ELSE ids[j - 1])
           list == {ids[j] : j \in 1 .. i}
           z == Machine!Gathered(S, args, i, ids)
<1>1. z = [c \in list \cup DOMAIN S |-> IF c \in list THEN cell(pos(c)) ELSE S[c]]
  BY DEF Machine!Gathered
<1>2. \A j \in 1 .. i : pos(ids[j]) = j /\ ids[j] \in list
  OBVIOUS
<1>3. \A j \in 1 .. i : cell(j) = Pair(args[j], IF j = 1 THEN NIL ELSE ids[j - 1])
  BY DEF Pair, Machine!Pair
<1> HIDE DEF pos, cell, z
<1>5. \A j \in 1 .. i : z[ids[j]] = Pair(args[j], IF j = 1 THEN NIL ELSE ids[j - 1])
  <2> HIDE DEF list
  <2> QED  BY <1>1, <1>2, <1>3
<1>6. \A c \in DOMAIN S : c \notin list => z[c] = S[c]
  <2> HIDE DEF list
  <2> QED  BY <1>1
<1>7. z = [c \in DOMAIN z |-> z[c]] /\ DOMAIN z = list \cup DOMAIN S
  <2> HIDE DEF list
  <2> QED  BY <1>1
<1> QED  BY <1>5, <1>6, <1>7 DEF GatheredAs, z

\* The machine of the program that has entered a procedure.
LEMMA EnteredIs ==
  ASSUME NEW g, NEW S, NEW l, NEW n, NEW entry, NEW end, NEW o, NEW u, NEW ids,
         Readying(g, S, l, n, entry, end, o, u, ids), NEW i, i = n - Fixed(entry, n),
         NEW h, h.slot[NIL] = u.arg, NEW k, k = Fixed(entry, n) + Rests(entry),
         NEW args, args = Arguments(g, l, n), NEW a, NEW b, NEW t, NEW d, NEW e,
         NEW x, x = Fields(a, b, t, d, e, S)
  PROVE  Machine!Entered(x, args, entry, end, ids) = Fields(Stack(h, NIL, k), end, 0, d, e, ListStore(S, u, ids, i))
<1>1. PICK T, r, y : /\ T = ListStore(S, u, ids, i) /\ y = Stack(h, NIL, k)
                     /\ r = IF entry.rest THEN <<IF i = 0 THEN NIL ELSE ids[i]>> ELSE <<>>
  OBVIOUS
<1>2. Machine!Reverse(SubSeq(args, i + 1, Len(args))) \o r = y
  BY <1>1, StackEntered
<1>3. Machine!Listed(args, entry) = i /\ n \in Nat
  <2>1. n \in Nat
    BY DEF Readying
  <2>2. Len(args) = n
    BY <2>1 DEF Arguments
  <2> QED  BY <2>1, <2>2 DEF Machine!Listed, Machine!Fixed, Fixed
<1>4. x.store = S /\ DOMAIN x.store = DOMAIN S /\ x = Fields(a, b, t, d, e, S)
  BY DEF Fields
<1>5. PICK z : z = Machine!Gathered(S, args, i, ids)
  OBVIOUS
<1>6. Machine!Entered(x, args, entry, end, ids)
        = [x EXCEPT !.stack = y, !.closed = end, !.temps = 0, !.store = z]
  BY <1>1, <1>2, <1>3, <1>4, <1>5 DEF Machine!Entered
<1>7. z = T
  <2>1. /\ \A j \in 1 .. i : Abs(u, ids[j]) = Pair(g.slot[NIL][l - j + 1], IF j = 1 THEN NIL ELSE ids[j - 1])
        /\ \A j, q \in 1 .. i : ids[j] = ids[q] => j = q
        /\ \A c \in DOMAIN S : c \in Cell /\ Abs(u, c) = S[c]
        /\ i \in Nat /\ i <= n
    BY ListIs
  <2>2. T = [c \in DOMAIN T |-> Abs(u, c)] /\ DOMAIN T = {ids[j] : j \in 1 .. i} \cup DOMAIN S
    BY <1>1 DEF ListStore
  <2>3. /\ z = [c \in DOMAIN z |-> z[c]] /\ \A c : c \in DOMAIN z <=> c \in DOMAIN S \/ \E j \in 1 .. i : c = ids[j]
        /\ \A j \in 1 .. i : z[ids[j]] = Pair(args[j], IF j = 1 THEN NIL ELSE ids[j - 1])
        /\ \A c \in DOMAIN S : (\A j \in 1 .. i : ids[j] # c) => z[c] = S[c]
    <3>1. i \in Nat /\ \A j, q \in 1 .. i : ids[j] = ids[q] => j = q
      BY <2>1
    <3>2. GatheredAs(z, S, args, i, ids)
      BY <1>5, <3>1, GatheredIs
    <3> QED  BY <3>2 DEF GatheredAs
  <2>4. ASSUME NEW c \in DOMAIN z PROVE z[c] = Abs(u, c)
    <3>1. CASE \E j \in 1 .. i : c = ids[j]
      <4>1. PICK j \in 1 .. i : c = ids[j]
        BY <3>1
      <4>2. args[j] = g.slot[NIL][l - j + 1]
        BY <1>3, <2>1 DEF Arguments
      <4> QED  BY <2>1, <2>3, <4>1, <4>2
    <3>2. CASE \A j \in 1 .. i : ids[j] # c
      BY <2>1, <2>3, <3>2
    <3> QED  BY <3>1, <3>2
  <2>5. DOMAIN z = DOMAIN T
    BY <2>2, <2>3
  <2> QED  BY <2>2, <2>3, <2>4, <2>5
<1>8. [x EXCEPT !.stack = y, !.closed = end, !.temps = 0, !.store = T] = Fields(y, end, 0, d, e, T)
  <2>1. x \in [stack : {a}, closed : {b}, temps : {t}, cont : {d}, globals : {e}, store : {S}]
    BY <1>4 DEF Fields
  <2>2. PICK w : w = [x EXCEPT !.stack = y, !.closed = end, !.temps = 0, !.store = T]
    OBVIOUS
  <2>3. w \in [stack : {y}, closed : {end}, temps : {0}, cont : {d}, globals : {e}, store : {T}]
    BY <2>1, <2>2
  <2>4. w = [stack |-> y, closed |-> end, temps |-> 0, cont |-> d, globals |-> e, store |-> T]
    BY <2>3
  <2> QED  BY <2>2, <2>4 DEF Fields
<1> QED  BY <1>1, <1>6, <1>7, <1>8

\* The store with the list is shown, and its objects are new.
LEMMA ListShownNew ==
  ASSUME NEW g, NEW S, NEW l, NEW n, NEW entry, NEW end, NEW o, NEW u, NEW ids,
         Readying(g, S, l, n, entry, end, o, u, ids), NEW i, i = n - Fixed(entry, n),
         NEW T, T = ListStore(S, u, ids, i), NEW args, args = Arguments(g, l, n), NEW x, x.store = S
  PROVE  Depicts(T, u) /\ ids \in Machine!NewList(x, Machine!Listed(args, entry))
<1>1. /\ i \in Nat /\ ids \in [1 .. i -> Cell] /\ \A j, d \in 1 .. i : ids[j] = ids[d] => j = d
      /\ \A j \in 1 .. i : ids[j] \notin DOMAIN S
      /\ \A c \in DOMAIN S : c \in Cell
  BY ListIs
<1>2. Depicts(T, u)
  <2>1. DOMAIN T = {ids[j] : j \in 1 .. i} \cup DOMAIN S /\ \A c \in DOMAIN T : T[c] = Abs(u, c)
    BY DEF ListStore
  <2>2. DOMAIN T \subseteq Cell
    BY <1>1, <2>1
  <2> QED  BY <2>1, <2>2 DEF Depicts
<1>3. Machine!Listed(args, entry) = i
  <2>1. n \in Nat
    BY DEF Readying
  <2>2. Len(args) = n
    BY <2>1 DEF Arguments
  <2> QED  BY <2>1, <2>2 DEF Machine!Listed, Machine!Fixed, Fixed
<1>4. ids \in [1 .. i -> Machine!New(x)]
  <2>1. Machine!New(x) = Cell \ DOMAIN S
    BY DEF Machine!New, Machine!Cell, Cell
  <2> QED  BY <1>1, <2>1
<1>5. Machine!IsInjective(ids)
  BY <1>1 DEF Machine!IsInjective
<1>6. ids \in Machine!NewList(x, i)
  BY <1>4, <1>5 DEF Machine!NewList
<1> QED  BY <1>2, <1>3, <1>6

\* Nothing leads out of the objects, from the slots and from the procedure to enter.
Enclosed(g, S, l, end, k) ==
  /\ \A j \in 1 .. l : Inside(S, g.slot[NIL][j])
  /\ Inside(S, end) /\ Inside(S, k)
  /\ \A i \in GlobalVars : Inside(S, Globals(g)[i])
  /\ \A c \in DOMAIN S : \A v \in Refs(S[c]) : Inside(S, v)

\* Nor after it has been entered.
LEMMA WholeEntered ==
  ASSUME NEW g, NEW S, NEW l, NEW n, NEW entry, NEW end, NEW o, NEW u, NEW ids,
         Readying(g, S, l, n, entry, end, o, u, ids), NEW i, i = n - Fixed(entry, n),
         NEW T, T = ListStore(S, u, ids, i), NEW d, Enclosed(g, S, l, end, d),
         NEW h, h.slot[NIL] = u.arg, h.bottom[NIL] = end, Globals(h) = Globals(g),
         NEW k, k = Fixed(entry, n) + Rests(entry), NEW t
  PROVE  Whole(Pic(h, k, t, d, T))
<1>1. /\ i \in Nat /\ i <= n /\ Fixed(entry, n) \in Nat /\ Fixed(entry, n) + i = n /\ entry.rest \in BOOLEAN
      /\ \A j \in 1 .. i : Abs(u, ids[j]) = Pair(g.slot[NIL][l - j + 1], IF j = 1 THEN NIL ELSE ids[j - 1])
      /\ \A c \in DOMAIN S : c \in Cell /\ Abs(u, c) = S[c]
  BY ListIs
<1>2. /\ k \in Nat
      /\ \A j \in 1 .. Fixed(entry, n) : h.slot[NIL][k - j + 1] = g.slot[NIL][l - n + j]
      /\ entry.rest => h.slot[NIL][1] = IF i = 0 THEN NIL ELSE ids[i]
  BY SlotsEntered
<1>3. n \in Nat /\ l \in Nat /\ n <= l
  BY DEF Readying
<1>4. /\ \A v : Inside(S, v) => Inside(T, v)
      /\ \A j \in 1 .. i : Inside(T, ids[j])
      /\ \A c \in DOMAIN T : T[c] = Abs(u, c) /\ (c \in DOMAIN S \/ \E j \in 1 .. i : c = ids[j])
  BY DEF Inside, ListStore
<1>5. ASSUME NEW j \in 1 .. k PROVE Inside(T, h.slot[NIL][j])
  <2>1. PICK f, q : f = Fixed(entry, n) /\ q = k - j + 1
    OBVIOUS
  <2>2. (Rests(entry) = 1 /\ entry.rest) \/ (Rests(entry) = 0 /\ ~entry.rest)
    BY <1>1 DEF Rests
  <2>3. j = k - q + 1 /\ (q \in 1 .. f \/ (j = 1 /\ entry.rest))
    <3>1. j = k - q + 1 /\ f \in Nat /\ k = f + Rests(entry)
      BY <1>1, <1>2, <2>1
    <3>2. CASE Rests(entry) = 1 /\ entry.rest
      <4>1. q \in 1 .. f \/ j = 1
        BY <2>1, <3>1, <3>2
      <4> QED  BY <3>1, <3>2, <4>1
    <3>3. CASE Rests(entry) = 0 /\ ~entry.rest
      <4>1. q \in 1 .. f
        BY <2>1, <3>1, <3>3
      <4> QED  BY <3>1, <4>1
    <3> QED  BY <2>2, <3>2, <3>3
  <2>4. CASE q \in 1 .. f
    <3>1. l - n + q \in 1 .. l
      BY <1>1, <1>3, <2>1, <2>4
    <3>2. h.slot[NIL][j] = g.slot[NIL][l - n + q]
      BY <1>2, <2>1, <2>3, <2>4
    <3> QED  BY <1>4, <3>1, <3>2 DEF Enclosed
  <2>5. CASE j = 1 /\ entry.rest
    <3>1. i # 0 => i \in 1 .. i
      BY <1>1
    <3> QED  BY <1>2, <1>4, <2>5, <3>1 DEF Inside
  <2> QED  BY <2>3, <2>4, <2>5
<1>6. ASSUME NEW c \in DOMAIN T, NEW v \in Refs(T[c]) PROVE Inside(T, v)
  <2>1. CASE c \in DOMAIN S
    BY <1>1, <1>4, <1>6, <2>1 DEF Enclosed
  <2>2. CASE \E j \in 1 .. i : c = ids[j]
    <3>1. PICK j \in 1 .. i : c = ids[j]
      BY <2>2
    <3>2. PICK a, b : a = g.slot[NIL][l - j + 1] /\ b = IF j = 1 THEN NIL ELSE ids[j - 1]
      OBVIOUS
    <3>3. T[c] = Pair(a, b)
      BY <1>1, <1>4, <3>1, <3>2
    <3>4. v \in {a, b}
      BY <1>6, <3>3, RefsOf
    <3>5. l - j + 1 \in 1 .. l /\ (j # 1 => j - 1 \in 1 .. i)
      BY <1>1, <1>3
    <3>6. Inside(T, a)
      BY <1>4, <3>2, <3>5 DEF Enclosed
    <3>7. Inside(T, b)
      BY <1>4, <3>2, <3>5 DEF Inside
    <3> QED  BY <3>4, <3>6, <3>7
  <2> QED  BY <1>4, <2>1, <2>2
<1>7. Inside(T, h.bottom[NIL]) /\ Inside(T, d) /\ \A j \in GlobalVars : Inside(T, Globals(h)[j])
  BY <1>4 DEF Enclosed
<1> QED  BY <1>2, <1>5, <1>6, <1>7, WholeIs

\* A procedure has been entered by a jump.
LEMMA EnterSeen ==
  ASSUME NEW g, NEW S, NEW l, NEW n, NEW entry, NEW end, NEW o, NEW u, NEW ids,
         Readying(g, S, l, n, entry, end, o, u, ids), NEW d, Enclosed(g, S, l, end, d),
         NEW s, NEW at, Goes(s, at), at.slots = Fixed(entry, n) + Rests(entry), at.temps = 0,
         JumpedWith(u, s, at, d), NEW args, args = Arguments(g, l, n), NEW a, NEW b, NEW t,
         NEW x, x = Fields(a, b, t, d, Globals(g), S)
  PROVE  Machine!Enter(x, args, entry, end)
<1>1. PICK h : Enters(u, h) /\ Pictured(s, at, d, h)
  BY DEF JumpedWith
<1>2. PICK i, k, T, e, y : /\ i = n - Fixed(entry, n) /\ k = Fixed(entry, n) + Rests(entry)
                           /\ T = ListStore(S, u, ids, i) /\ e = Globals(g) /\ y = Pic(h, k, 0, d, T)
  OBVIOUS
<1>3. Globals(u) = Globals(g) /\ u.rest = end
  BY <1>2, ListIs
<1>4. h.slot[NIL] = u.arg /\ h.bottom[NIL] = end /\ Globals(h) = Globals(g)
  BY <1>1, <1>3 DEF Enters, OnlyFrame, Globals
<1>5. x.store = S
  BY DEF Fields
<1>6. Depicts(T, u) /\ ids \in Machine!NewList(x, Machine!Listed(args, entry))
  BY <1>2, <1>5, ListShownNew
<1>7. Depicts(T, h)
  <2>1. \A c \in Cell : SameObject(u, h, c)
    BY <1>1, NilAssumption DEF Enters, OnlyFrame, SameObject, Value
  <2> QED  BY <1>6, <2>1, AbsKept DEF Depicts
<1>8. Whole(y)
  <2>1. PICK z : z = 0
    OBVIOUS
  <2>2. Whole(Pic(h, k, z, d, T))
    BY <1>2, <1>4, WholeEntered
  <2> QED  BY <1>2, <2>1, <2>2
<1>9. Machine!Become(y)
  <2>1. y = Pic(h, at.slots, at.temps, d, T)
    BY <1>2
  <2> QED  BY <1>1, <1>7, <1>8, <2>1, Becomes
<1>10. Machine!Entered(x, args, entry, end, ids) = y
  <2>1. Machine!Entered(x, args, entry, end, ids) = Fields(Stack(h, NIL, k), end, 0, d, e, ListStore(S, u, ids, i))
    BY <1>2, <1>4, EnteredIs
  <2> QED  BY <1>2, <1>4, <2>1 DEF Fields, Pic
<1> QED  BY <1>6, <1>9, <1>10 DEF Machine!Enter

-----------------------------------------------------------------------------
(* Saving the frame in a continuation. *)

\* The cell that a continuation gets is none that the program could still find.
LEMMA SavedIsNew ==
  ASSUME NEW g, NEW u, u.slot = g.slot, u.bottom = g.bottom, Globals(u) = Globals(g),
         NEW n \in Nat, NEW a \in Nat, NEW d, NEW c \in Cell, SavedWith(u, n, a, d, c),
         NEW h, h.slot[NIL] = u.arg, h.bottom[NIL] = u.rest, Globals(h) = Globals(g),
         NEW T, Depicts(T, u), NEW t, NEW z, NEW S, NEW x, x = Pic(g, n, t, d, S), NEW y, y = Pic(h, a, z, d, T)
  PROVE  c \notin ReservedCell /\ c \notin Machine!Referred(T, Machine!Values(x) \cup Machine!Values(y))
<1>1. PICK b, r : /\ Sound(b, r, n, a) /\ Shows(b, r, n, u) /\ ~Held(b, r, c) /\ b.cont = d
                  /\ Chain(b, r, b.reg1, "args", NIL, a) /\ (a = 0 => b.reg1 = u.rest)
  BY DEF SavedWith
<1>2. /\ \A j \in 1 .. n : LiveRef(b, r, u.slot[NIL][j])
      /\ LiveRef(b, r, u.bottom[NIL]) /\ LiveRef(b, r, d)
      /\ \A i \in GlobalVars : LiveRef(b, r, Globals(u)[i])
  BY <1>1, StartsLive
<1>3. (\A j \in 1 .. a : LiveRef(b, r, u.arg[j])) /\ LiveRef(b, r, u.rest)
  BY <1>1, ArgsLive
<1>4. PICK R : R = Machine!Values(x) \cup Machine!Values(y)
  OBVIOUS
<1>5. ASSUME NEW v \in R PROVE LiveRef(b, r, v)
  <2>1. v \in Machine!Values(x) \/ v \in Machine!Values(y)
    BY <1>4
  <2>2. v \in Machine!Values(x) => \/ \E j \in 1 .. n : v = g.slot[NIL][j]
                                   \/ v = g.bottom[NIL] \/ v = d
                                   \/ \E i \in GlobalVars : v = Globals(g)[i]
    BY ValuesAre
  <2>3. v \in Machine!Values(y) => \/ \E j \in 1 .. a : v = h.slot[NIL][j]
                                   \/ v = h.bottom[NIL] \/ v = d
                                   \/ \E i \in GlobalVars : v = Globals(h)[i]
    BY ValuesAre
  <2>4. v \in Machine!Values(x) => LiveRef(b, r, v)
    BY <1>2, <2>2
  <2>5. v \in Machine!Values(y) => LiveRef(b, r, v)
    BY <1>2, <1>3, <2>3
  <2> QED  BY <2>1, <2>4, <2>5
<1>6. \A q \in Referred(T, R) : q \in DOMAIN T /\ IsObject(r, q) /\ q \in Live(b)
  BY <1>1, <1>5, FoundLive
<1>7. c \notin Referred(T, R)
  BY <1>1, <1>6 DEF Held, IsObject
<1>8. c \notin ReservedCell
  <2>1. c \in ReservedCell => c \in Live(b)
    BY LiveIs
  <2>2. c \in ReservedCell => r.role[c] = "global"
    BY <1>1 DEF Sound, CellSound, GlobalSound
  <2> QED  BY <1>1, <2>1, <2>2 DEF Held
<1> QED  BY <1>4, <1>7, <1>8, SameReferred

\* The frame of the running procedure is in a continuation.
Saved(x, c, o) == [Machine!Add(x, c, o) EXCEPT !.cont = c]

\* The machine then.
LEMMA SavedFields ==
  ASSUME NEW a, NEW b, NEW t, NEW d, NEW e, NEW S, NEW c, NEW o, NEW x, x = Fields(a, b, t, d, e, S)
  PROVE  Saved(x, c, o) = Fields(a, b, t, c, e, With(S, c, o))
<1>1. PICK y, T : y = Machine!Add(x, c, o) /\ T = With(S, c, o)
  OBVIOUS
<1>2. y = Fields(a, b, t, d, e, T)
  BY <1>1 DEF Machine!Add, Fields, With
<1>3. y \in [stack : {a}, closed : {b}, temps : {t}, cont : {d}, globals : {e}, store : {T}]
  BY <1>2 DEF Fields
<1>4. PICK w : w = [y EXCEPT !.cont = c]
  OBVIOUS
<1>5. w \in [stack : {a}, closed : {b}, temps : {t}, cont : {c}, globals : {e}, store : {T}]
  BY <1>3, <1>4
<1>6. w = [stack |-> a, closed |-> b, temps |-> t, cont |-> c, globals |-> e, store |-> T]
  BY <1>5
<1> QED  BY <1>1, <1>4, <1>6 DEF Saved, Fields

\* Nothing leads out of the objects when there is one more.
LEMMA WholeSaved ==
  ASSUME NEW h, NEW k \in Nat, NEW t, NEW d, NEW T, Whole(Pic(h, k, t, d, T)), NEW c,
         NEW x, \A v \in Refs(x) : Inside(T, v), NEW z
  PROVE  Whole(Pic(h, k, z, c, With(T, c, x)))
<1>1. PICK Z : Z = With(T, c, x)
  OBVIOUS
<1>2. DOMAIN Z = {c} \cup DOMAIN T /\ Z[c] = x /\ \A q \in DOMAIN T : q # c => Z[q] = T[q]
  BY <1>1 DEF With
<1>3. /\ \A j \in 1 .. k : Inside(T, h.slot[NIL][j])
      /\ Inside(T, h.bottom[NIL])
      /\ \A i \in GlobalVars : Inside(T, Globals(h)[i])
      /\ \A q \in DOMAIN T : \A v \in Refs(T[q]) : Inside(T, v)
  BY WholeIs
<1>4. Inside(Z, c) /\ \A v : Inside(T, v) => Inside(Z, v)
  BY <1>2 DEF Inside
<1>5. \A q \in DOMAIN Z : \A v \in Refs(Z[q]) : Inside(Z, v)
  BY <1>2, <1>3, <1>4
<1>6. Whole(Pic(h, k, z, c, Z))
  BY <1>3, <1>4, <1>5, WholeIs
<1> QED  BY <1>1, <1>6

\* A procedure has been entered by a call.
LEMMA SaveAndEnterSeen ==
  ASSUME NEW g, NEW S, NEW l, NEW n, NEW entry, NEW end, NEW o, NEW u, NEW ids,
         Readying(g, S, l, n, entry, end, o, u, ids), NEW d, Enclosed(g, S, l, end, d),
         Inside(S, g.bottom[NIL]), NEW back, back.slots \in Nat, back.slots <= l,
         NEW s, NEW at, Goes(s, at), at.slots = Fixed(entry, n) + Rests(entry), at.temps = 0,
         CalledWith(u, back, s, at, d), NEW args, args = Arguments(g, l, n),
         NEW x, x = Pic(g, back.slots, back.temps, d, S)
  PROVE  Machine!SaveAndEnter(x, args, entry, end)
<1>1. PICK c \in Cell : \E p : /\ SavedAndEntered(u, p, c, d, back) /\ Pictured(s, at, c, p)
                               /\ SavedWith(u, back.slots, at.slots, d, c)
  BY DEF CalledWith
<1>2. PICK h : /\ SavedAndEntered(u, h, c, d, back) /\ Pictured(s, at, c, h)
               /\ SavedWith(u, back.slots, at.slots, d, c)
  BY <1>1
<1>3. PICK w : OnlyCont(u, w, c, d, back) /\ Enters(w, h)
  BY <1>2 DEF SavedAndEntered
<1>4. PICK i, k, T, e, b, t, q : /\ i = n - Fixed(entry, n) /\ k = at.slots /\ T = ListStore(S, u, ids, i)
                                 /\ e = Globals(g) /\ b = back.slots /\ t = back.temps /\ q = g.bottom[NIL]
  OBVIOUS
<1>5. PICK f, y, Z : f = Frame(Stack(g, NIL, b), q, t, d) /\ y = Pic(h, k, 0, d, T) /\ Z = With(T, c, f)
  OBVIOUS
<1>6. Globals(u) = Globals(g) /\ u.rest = end /\ u.slot = g.slot /\ u.bottom = g.bottom
  BY <1>4, ListIs
<1>7. h.slot[NIL] = u.arg /\ h.bottom[NIL] = end
  BY <1>3, <1>6 DEF Enters, OnlyCont
<1>8. k = Fixed(entry, n) + Rests(entry) /\ k \in Nat
  <2>1. k = Fixed(entry, n) + Rests(entry)
    BY <1>4
  <2> QED  BY <1>4, <1>7, <2>1, SlotsEntered
<1>9. x.store = S
  BY DEF Pic
<1>10. Depicts(T, u) /\ ids \in Machine!NewList(x, Machine!Listed(args, entry))
  BY <1>4, <1>9, ListShownNew
<1>11. c \notin ReservedCell
  <2>1. PICK r, p : Sound(r, p, b, k) /\ ~Held(r, p, c)
    BY <1>2, <1>4 DEF SavedWith
  <2>2. c \in ReservedCell => c \in Live(r)
    BY LiveIs
  <2>3. c \in ReservedCell => p.role[c] = "global"
    BY <2>1 DEF Sound, CellSound, GlobalSound
  <2> QED  BY <2>1, <2>2, <2>3 DEF Held
<1>12. Globals(h) = Globals(g)
  <2>1. \A p \in ReservedCell : h.car[p] = u.car[p] /\ h.cdr[p] = u.cdr[p]
    BY <1>3, <1>11 DEF OnlyCont, Enters, OnlyFrame, ReservedCell
  <2> QED  BY <1>6, <2>1, GlobalsKept
<1>13. c \notin Machine!Referred(T, Machine!Values(x) \cup Machine!Values(y))
  <2>1. SavedWith(u, b, k, d, c) /\ b \in Nat /\ x = Pic(g, b, t, d, S) /\ h.bottom[NIL] = u.rest
    BY <1>2, <1>4, <1>6, <1>7
  <2>2. PICK z : z = 0
    OBVIOUS
  <2>3. y = Pic(h, k, z, d, T)
    BY <1>5, <2>2
  <2> QED  BY <1>6, <1>7, <1>8, <1>10, <1>12, <2>1, <2>3, SavedIsNew
<1>14. Depicts(Z, h)
  <2>1. \A p \in Cell : p # c => SameObject(u, h, p)
    BY <1>3, NilAssumption DEF Enters, OnlyCont, OnlyFrame, SameObject, Value
  <2>2. \A p \in Cell : p # c => Abs(h, p) = Abs(u, p)
    BY <2>1, AbsKept
  <2>3. /\ h.kind[c] = CONTINUATION_TYPE /\ h.car[c] = d /\ h.slot[c] = g.slot[NIL]
        /\ h.bottom[c] = g.bottom[NIL] /\ h.saved[c] = back
    BY <1>3, <1>6, NilAssumption DEF Enters, OnlyCont, OnlyFrame, Value
  <2>4. Stack(h, c, back.slots) = Stack(g, NIL, b)
    BY <1>4, <2>3 DEF Stack
  <2>5. Abs(h, c) = f
    BY <1>4, <1>5, <2>3, <2>4, AbsIs
  <2> QED  BY <1>5, <1>10, <2>2, <2>5 DEF Depicts, With
<1>15. \A v \in Refs(f) : Inside(T, v)
  <2>1. \A v : Inside(S, v) => Inside(T, v)
    BY <1>4 DEF Inside, ListStore
  <2>2. PICK m : m = Stack(g, NIL, b)
    OBVIOUS
  <2>3. DOMAIN m = 1 .. b /\ \A j \in 1 .. b : Inside(S, m[j])
    <3>1. DOMAIN m = 1 .. b /\ \A j \in 1 .. b : m[j] = g.slot[NIL][b - j + 1]
      BY <2>2 DEF Stack
    <3>2. \A j \in 1 .. b : b - j + 1 \in 1 .. l
      BY <1>4 DEF Readying
    <3> QED  BY <3>1, <3>2 DEF Enclosed
  <2>4. Refs(f) = {m[j] : j \in DOMAIN m} \cup {q, d}
    BY <1>5, <2>2, RefsOf
  <2>5. Inside(S, q) /\ Inside(S, d)
    BY <1>4 DEF Enclosed
  <2> QED  BY <2>1, <2>3, <2>4, <2>5
<1>16. Whole(Pic(h, k, 0, c, Z))
  <2>1. PICK z : z = 0
    OBVIOUS
  <2>2. Whole(Pic(h, k, z, d, T))
    BY <1>4, <1>7, <1>8, <1>12, WholeEntered
  <2>3. Whole(Pic(h, k, z, c, With(T, c, f)))
    BY <1>8, <1>15, <2>2, WholeSaved
  <2> QED  BY <1>5, <2>1, <2>3
<1>17. Machine!Become(Pic(h, k, 0, c, Z))
  <2>1. PICK r : r = Pic(h, k, 0, c, Z)
    OBVIOUS
  <2>2. r = Pic(h, at.slots, at.temps, c, Z) /\ Whole(r)
    BY <1>4, <1>16, <2>1
  <2> QED  BY <1>2, <1>14, <2>1, <2>2, Becomes
<1>18. Machine!Entered(x, args, entry, end, ids) = y
  <2>1. PICK a0 : a0 = Stack(g, NIL, b)
    OBVIOUS
  <2>2. x = Fields(a0, q, t, d, e, S)
    BY <1>4, <2>1 DEF Pic, Fields
  <2>3. Machine!Entered(x, args, entry, end, ids) = Fields(Stack(h, NIL, k), end, 0, d, e, ListStore(S, u, ids, i))
    BY <1>4, <1>7, <1>8, <2>2, EnteredIs
  <2> QED  BY <1>4, <1>5, <1>7, <1>12, <2>3 DEF Fields, Pic
<1>19. Saved(y, c, f) = Pic(h, k, 0, c, Z)
  <2>1. PICK a0, z : a0 = Stack(h, NIL, k) /\ z = 0
    OBVIOUS
  <2>2. y = Fields(a0, end, z, d, e, T)
    BY <1>4, <1>5, <1>7, <1>12, <2>1 DEF Pic, Fields
  <2>3. Saved(y, c, f) = Fields(a0, end, z, c, e, With(T, c, f))
    BY <2>2, SavedFields
  <2> QED  BY <1>4, <1>5, <1>7, <1>12, <2>1, <2>3 DEF Pic, Fields
<1>20. f = Machine!Frame(x.stack, x.closed, x.temps, x.cont)
  BY <1>4, <1>5 DEF Pic, Frame, Machine!Frame
<1>21. y.store = T /\ c \in Machine!Cell
  BY <1>5 DEF Pic, Machine!Cell, Cell
<1>22. Machine!Become([Machine!Add(y, c, Machine!Frame(x.stack, x.closed, x.temps, x.cont)) EXCEPT !.cont = c])
  BY <1>17, <1>19, <1>20 DEF Saved
<1> QED  BY <1>10, <1>13, <1>18, <1>21, <1>22, ZenonT(60) DEF Machine!SaveAndEnter

-----------------------------------------------------------------------------
(* Calls and jumps. *)

\* The arguments are the slots on top, or those after the first one.
LEMMA ArgumentsAre ==
  ASSUME NEW g, NEW l \in Nat, NEW n \in Nat
  PROVE  /\ n <= l => SubSeq(Stack(g, NIL, l), 1, n) = Arguments(g, l, n)
         /\ 1 + n <= l => SubSeq(Stack(g, NIL, l), 2, n + 1) = Arguments(g, l - 1, n)
<1>1. PICK w : w = Stack(g, NIL, l)
  OBVIOUS
<1>2. w = [j \in 1 .. l |-> g.slot[NIL][l - j + 1]] /\ Len(w) = l
  BY <1>1 DEF Stack
<1>3. ASSUME NEW i \in Nat, i + n <= l PROVE SubSeq(w, i + 1, i + n) = Arguments(g, l - i, n)
  <2>1. SubSeq(w, i + 1, i + n) = [j \in 1 .. n |-> w[i + j]]
    <3>1. SubSeq(w, i + 1, i + n) = [j \in 1 .. ((i + n) - i) |-> w[i + j]]
      BY <1>2
    <3>2. (i + n) - i = n
      OBVIOUS
    <3> QED  BY <3>1, <3>2
  <2>2. ASSUME NEW j \in 1 .. n PROVE w[i + j] = g.slot[NIL][(l - i) - j + 1]
    <3>1. i + j \in 1 .. l /\ l - (i + j) + 1 = (l - i) - j + 1
      BY <1>3
    <3> QED  BY <1>2, <3>1
  <2>3. [j \in 1 .. n |-> w[i + j]] = [j \in 1 .. n |-> g.slot[NIL][(l - i) - j + 1]]
    BY <2>2
  <2> QED  BY <2>1, <2>3 DEF Arguments
<1>4. n <= l => SubSeq(w, 1, n) = Arguments(g, l, n)
  <2>1. 0 \in Nat /\ 0 + n = n /\ 0 + 1 = 1 /\ l - 0 = l
    OBVIOUS
  <2> QED  BY <1>3, <2>1
<1>5. 1 + n <= l => SubSeq(w, 2, n + 1) = Arguments(g, l - 1, n)
  <2>1. 1 \in Nat /\ 1 + n = n + 1 /\ 1 + 1 = 2
    OBVIOUS
  <2> QED  BY <1>3, <2>1
<1> QED  BY <1>1, <1>4, <1>5

\* Entry points have parameters.
LEMMA EntriesAre == \A entry \in Entries : entry \in [params : Nat, rest : BOOLEAN]
BY VmAssumption

\* The arguments of a call are ready in the machine of the program.
LEMMA CallReady ==
  ASSUME NEW g, NEW m, Shown(g, m), NEW o, Sound(vm, o, pc.slots, 0),
         NEW l \in Nat, l <= pc.slots, NEW n \in Nat, n <= l, NEW entry \in [params : Nat, rest : BOOLEAN],
         NEW end, Inside(store, end), NEW u, NEW ids, Handing(g, l, n, entry, end, o, u, ids),
         NEW d, d = vm.cont
  PROVE  Readying(g, store, l, n, entry, end, o, u, ids) /\ Enclosed(g, store, l, end, d)
<1>1. \A c \in DOMAIN store : IsObject(o, c)
  BY StoreHolds
<1>2. \A c \in ReservedCell : o.role[c] = "global"
  <2>1. \A c \in ReservedCell : c \in Cell
    BY DEF ReservedCell
  <2>2. \A c \in Cell : CellSound(vm, o, pc.slots, 0, c)
    BY DEF Sound
  <2> QED  BY <2>1, <2>2 DEF CellSound, GlobalSound
<1>3. Depicts(store, g)
  BY DEF Shown
<1>4. Readying(g, store, l, n, entry, end, o, u, ids)
  BY <1>1, <1>2, <1>3 DEF Readying
<1>5. Enclosed(g, store, l, end, d)
  <2>1. /\ pc.slots \in Nat /\ \A j \in 1 .. pc.slots : Inside(store, g.slot[NIL][j])
        /\ Inside(store, vm.cont)
        /\ \A i \in GlobalVars : Inside(store, Globals(g)[i])
        /\ \A c \in DOMAIN store : \A v \in Refs(store[c]) : Inside(store, v)
    BY ShownIs
  <2>2. \A j \in 1 .. l : j \in 1 .. pc.slots
    BY <2>1
  <2> QED  BY <2>1, <2>2 DEF Enclosed
<1> QED  BY <1>4, <1>5

\* A closure of the program, on top.
LEMMA ClosureSeen ==
  ASSUME NEW g, NEW m, Shown(g, m), pc.temps > 0, NEW v, v = TopOf(vm), IsA(v, CLOSURE_TYPE)
  PROVE  /\ m.stack[1] = v /\ Machine!IsA(m, v, "closure")
         /\ m.store[v].entry = vm.cdr[v] /\ m.store[v].env = vm.car[v] /\ Inside(store, vm.car[v])
         /\ vm.cdr[v] \in Entries /\ vm.cdr[v] \in [params : Nat, rest : BOOLEAN]
<1>1. m.stack[1] = v /\ Inside(store, v)
  BY TopsAre
<1>2. PICK kind : kind = CLOSURE_TYPE
  OBVIOUS
<1>3. IsA(v, kind)
  BY <1>2
<1>4. Machine!IsA(m, v, "closure") /\ m.store[v] = Closure(vm.car[v], vm.cdr[v]) /\ Inside(store, vm.car[v])
  BY <1>1, <1>2, <1>3, KindFound
<1>5. PICK o : Sound(vm, o, pc.slots, 0)
  BY DEF Shown, Pictured
<1>6. IsObject(o, v)
  BY <1>1, <1>3, <1>5, ObjectFound
<1>7. CellSound(vm, o, pc.slots, 0, v) /\ vm.type[v] = CLOSURE_TYPE
  BY <1>5, <1>6 DEF Sound, IsObject, IsA
<1>8. vm.cdr[v] \in Entries
  BY <1>6, <1>7 DEF CellSound, ObjectSound, IsObject
<1> QED  BY <1>1, <1>4, <1>8, EntriesAre DEF Closure

\* CallClosure
LEMMA CallClosureSeen ==
  ASSUME NEW g, NEW m, Shown(g, m), NEW n \in 0 .. MaxArgs, CallClosure(n)
  PROVE  Machine!CallClosure(m, n) \/ Machine!Halt
<1>1. PICK v, entry, end, back, s, at :
        /\ v = TopOf(vm) /\ entry = vm.cdr[v] /\ end = vm.car[v] /\ back = Moved(n + 1, 0)
        /\ s = Enter(save_cont(Prepared(vm, n), back)) /\ at = FrameOf(entry, n)
        /\ pc.temps > n /\ IsA(v, CLOSURE_TYPE) /\ Do(s, at)
  BY DEF CallClosure
<1>2. ASSUME ~s.exhausted, Goes(s, at) PROVE Machine!CallClosure(m, n)
  <2>1. PICK L, l, d : L = pc.slots /\ l = pc.slots - 1 /\ d = vm.cont
    OBVIOUS
  <2>2. /\ pc.slots \in Nat /\ pc.temps \in Nat /\ pc.temps <= pc.slots /\ m.temps = pc.temps
        /\ m.stack = Stack(g, NIL, pc.slots) /\ Inside(store, g.bottom[NIL])
    BY ShownIs
  <2>3. n \in Nat /\ l \in Nat /\ l <= pc.slots /\ n <= l /\ 1 + n <= L /\ L \in Nat /\ pc.temps > 0
    BY <1>1, <2>1, <2>2
  <2>4. Pictured(vm, pc, vm.cont, g)
    BY DEF Shown
  <2>5. \E o, u, ids : /\ Sound(vm, o, pc.slots, 0)
                       /\ Handing(g, pc.slots - 1, n, entry, vm.car[TopOf(vm)], o, u, ids)
                       /\ CalledWith(u, back, s, FrameOf(entry, n), vm.cont)
    BY <1>1, <1>2, <2>3, <2>4, ClosureIsCalled
  <2>6. PICK o, u, ids : /\ Sound(vm, o, pc.slots, 0) /\ Handing(g, l, n, entry, end, o, u, ids)
                         /\ CalledWith(u, back, s, at, d)
    BY <1>1, <2>1, <2>5
  <2>7. /\ m.stack[1] = v /\ Machine!IsA(m, v, "closure")
        /\ m.store[v].entry = entry /\ m.store[v].env = end /\ Inside(store, end)
        /\ entry \in [params : Nat, rest : BOOLEAN]
    BY <1>1, <2>3, ClosureSeen
  <2>8. PICK S : S = store
    OBVIOUS
  <2>9. Readying(g, S, l, n, entry, end, o, u, ids) /\ Enclosed(g, S, l, end, d)
    BY <2>1, <2>3, <2>6, <2>7, <2>8, CallReady
  <2>10. /\ back.slots = L - (n + 1) /\ back.temps = pc.temps - (n + 1) /\ back.slots \in Nat /\ back.slots <= l
         /\ at.slots = Fixed(entry, n) + Rests(entry) /\ at.temps = 0
    <3>1. back.slots = pc.slots - (n + 1) + 0 /\ back.temps = pc.temps - (n + 1) + 0
      BY <1>1 DEF Moved
    <3>2. at.slots = Fixed(entry, n) + Rests(entry) /\ at.temps = 0
      BY <1>1 DEF FrameOf, Rests
    <3> QED  BY <2>1, <2>2, <2>3, <3>1, <3>2
  <2>11. PICK x, args, k : x = Machine!Drop(m, n + 1) /\ args = SubSeq(m.stack, 2, n + 1) /\ k = n + 1
    OBVIOUS
  <2>12. args = Arguments(g, l, n)
    <3>1. SubSeq(Stack(g, NIL, L), 2, n + 1) = Arguments(g, L - 1, n)
      BY <2>3, ArgumentsAre
    <3> QED  BY <2>1, <2>2, <2>11, <3>1
  <2>13. x = Pic(g, back.slots, back.temps, d, S)
    <3>1. PICK t : t = pc.temps
      OBVIOUS
    <3>2. m = Pic(g, L, t, d, S)
      BY <2>1, <2>8, <3>1 DEF Shown
    <3>3. k \in Nat /\ k <= L
      BY <2>3, <2>11
    <3>4. Machine!Drop(Pic(g, L, t, d, S), k) = Pic(g, L - k, t - k, d, S)
      BY <2>3, <3>3, Dropped
    <3> QED  BY <2>10, <2>11, <3>1, <3>2, <3>4
  <2>14. Machine!SaveAndEnter(x, args, entry, end)
    <3>1. Inside(S, g.bottom[NIL])
      BY <2>2, <2>8
    <3> QED  BY <1>2, <2>6, <2>9, <2>10, <2>12, <2>13, <3>1, SaveAndEnterSeen
  <2> QED  BY <1>1, <2>2, <2>7, <2>11, <2>14 DEF Machine!CallClosure
<1> QED  BY <1>1, <1>2, DoCases

\* JumpClosure
LEMMA JumpClosureSeen ==
  ASSUME NEW g, NEW m, Shown(g, m), NEW n \in 0 .. MaxArgs, JumpClosure(n)
  PROVE  Machine!JumpClosure(m, n) \/ Machine!Halt
<1>1. PICK v, entry, end, s, at :
        /\ v = TopOf(vm) /\ entry = vm.cdr[v] /\ end = vm.car[v]
        /\ s = Enter(Prepared(vm, n)) /\ at = FrameOf(entry, n)
        /\ pc.temps > n /\ IsA(v, CLOSURE_TYPE) /\ Do(s, at)
  BY DEF JumpClosure
<1>2. ASSUME ~s.exhausted, Goes(s, at) PROVE Machine!JumpClosure(m, n)
  <2>1. PICK L, l, d : L = pc.slots /\ l = pc.slots - 1 /\ d = vm.cont
    OBVIOUS
  <2>2. /\ pc.slots \in Nat /\ pc.temps \in Nat /\ pc.temps <= pc.slots /\ m.temps = pc.temps
        /\ m.stack = Stack(g, NIL, pc.slots)
    BY ShownIs
  <2>3. n \in Nat /\ l \in Nat /\ l <= pc.slots /\ n <= l /\ 1 + n <= L /\ L \in Nat /\ pc.temps > 0
    BY <1>1, <2>1, <2>2
  <2>4. Pictured(vm, pc, vm.cont, g)
    BY DEF Shown
  <2>5. \E o, u, ids : /\ Sound(vm, o, pc.slots, 0)
                       /\ Handing(g, pc.slots - 1, n, entry, vm.car[TopOf(vm)], o, u, ids)
                       /\ JumpedWith(u, s, FrameOf(entry, n), vm.cont)
    BY <1>1, <2>3, <2>4, ClosureIsJumpedTo
  <2>6. PICK o, u, ids : /\ Sound(vm, o, pc.slots, 0) /\ Handing(g, l, n, entry, end, o, u, ids)
                         /\ JumpedWith(u, s, at, d)
    BY <1>1, <2>1, <2>5
  <2>7. /\ m.stack[1] = v /\ Machine!IsA(m, v, "closure")
        /\ m.store[v].entry = entry /\ m.store[v].env = end /\ Inside(store, end)
        /\ entry \in [params : Nat, rest : BOOLEAN]
    BY <1>1, <2>3, ClosureSeen
  <2>8. PICK S : S = store
    OBVIOUS
  <2>9. Readying(g, S, l, n, entry, end, o, u, ids) /\ Enclosed(g, S, l, end, d)
    BY <2>1, <2>3, <2>6, <2>7, <2>8, CallReady
  <2>10. at.slots = Fixed(entry, n) + Rests(entry) /\ at.temps = 0
    BY <1>1 DEF FrameOf, Rests
  <2>11. PICK args : args = SubSeq(m.stack, 2, n + 1)
    OBVIOUS
  <2>12. args = Arguments(g, l, n)
    <3>1. SubSeq(Stack(g, NIL, L), 2, n + 1) = Arguments(g, L - 1, n)
      BY <2>3, ArgumentsAre
    <3> QED  BY <2>1, <2>2, <2>11, <3>1
  <2>13. PICK a, b, t : m = Fields(a, b, t, d, Globals(g), S)
    BY <2>1, <2>8 DEF Shown, Pic, Fields
  <2>14. Machine!Enter(m, args, entry, end)
    BY <1>2, <2>6, <2>9, <2>10, <2>12, <2>13, EnterSeen
  <2> QED  BY <1>1, <2>2, <2>7, <2>11, <2>14 DEF Machine!JumpClosure
<1> QED  BY <1>1, <1>2, DoCases

\* CallToplevel
LEMMA CallToplevelSeen ==
  ASSUME NEW g, NEW m, Shown(g, m), NEW n \in 0 .. MaxArgs, CallToplevel(n)
  PROVE  Machine!CallToplevel(m, n) \/ Machine!Halt
<1>1. PICK entry, b, back, s, at :
        /\ entry = [params |-> n, rest |-> FALSE] /\ b = build_environment([vm EXCEPT !.reg1 = NIL], n)
        /\ back = Moved(n, 0) /\ s = Enter(save_cont(b, back)) /\ at = [slots |-> n, temps |-> 0]
        /\ pc.temps >= n /\ Do(s, at)
  BY DEF CallToplevel
<1>2. ASSUME ~s.exhausted, Goes(s, at) PROVE Machine!CallToplevel(m, n)
  <2>1. PICK l, d, end, S : l = pc.slots /\ d = vm.cont /\ end = NIL /\ S = store
    OBVIOUS
  <2>2. /\ pc.slots \in Nat /\ pc.temps \in Nat /\ pc.temps <= pc.slots /\ m.temps = pc.temps
        /\ m.stack = Stack(g, NIL, pc.slots) /\ Inside(store, g.bottom[NIL])
    BY ShownIs
  <2>3. n \in Nat /\ l \in Nat /\ l <= pc.slots /\ n <= l
    BY <1>1, <2>1, <2>2
  <2>4. Pictured(vm, pc, vm.cont, g)
    BY DEF Shown
  <2>5. \E o, u, ids : /\ Sound(vm, o, pc.slots, 0) /\ Handing(g, pc.slots, n, entry, NIL, o, u, ids)
                       /\ CalledWith(u, back, s, at, vm.cont)
    BY <1>1, <1>2, <2>3, <2>4, ToplevelIsCalled
  <2>6. PICK o, u, ids : /\ Sound(vm, o, pc.slots, 0) /\ Handing(g, l, n, entry, end, o, u, ids)
                         /\ CalledWith(u, back, s, at, d)
    BY <2>1, <2>5
  <2>7. entry \in [params : Nat, rest : BOOLEAN] /\ Fixed(entry, n) = n /\ Rests(entry) = 0
        /\ entry = Machine!Toplevel(n)
    BY <1>1, <2>3 DEF Fixed, Rests, Machine!Toplevel
  <2>8. Inside(store, end)
    BY <2>1 DEF Inside
  <2>9. Readying(g, S, l, n, entry, end, o, u, ids) /\ Enclosed(g, S, l, end, d)
    BY <2>1, <2>3, <2>6, <2>7, <2>8, CallReady
  <2>10. /\ back.slots = l - n /\ back.temps = pc.temps - n /\ back.slots \in Nat /\ back.slots <= l
         /\ at.slots = Fixed(entry, n) + Rests(entry) /\ at.temps = 0
    <3>1. back.slots = pc.slots - n + 0 /\ back.temps = pc.temps - n + 0
      BY <1>1 DEF Moved
    <3>2. at.slots = n /\ at.temps = 0
      BY <1>1
    <3> QED  BY <2>1, <2>2, <2>3, <2>7, <3>1, <3>2
  <2>11. PICK x, args : x = Machine!Drop(m, n) /\ args = SubSeq(m.stack, 1, n)
    OBVIOUS
  <2>12. args = Arguments(g, l, n)
    BY <2>1, <2>2, <2>3, <2>11, ArgumentsAre, ZenonT(60)
  <2>13. x = Pic(g, back.slots, back.temps, d, S)
    <3>1. PICK t, k : t = pc.temps /\ k = n
      OBVIOUS
    <3>2. m = Pic(g, l, t, d, S)
      BY <2>1, <3>1 DEF Shown
    <3>3. k \in Nat /\ k <= l
      BY <2>3, <3>1
    <3>4. Machine!Drop(Pic(g, l, t, d, S), k) = Pic(g, l - k, t - k, d, S)
      BY <2>3, <3>3, Dropped
    <3> QED  BY <2>10, <2>11, <3>1, <3>2, <3>4
  <2>14. Machine!SaveAndEnter(x, args, entry, end)
    <3>1. Inside(S, g.bottom[NIL])
      BY <2>1, <2>2
    <3> QED  BY <1>2, <2>6, <2>9, <2>10, <2>12, <2>13, <3>1, SaveAndEnterSeen
  <2> QED  BY <1>1, <2>1, <2>2, <2>7, <2>11, <2>14 DEF Machine!CallToplevel
<1> QED  BY <1>1, <1>2, DoCases

\* JumpToplevel
LEMMA JumpToplevelSeen ==
  ASSUME NEW g, NEW m, Shown(g, m), NEW n \in 0 .. MaxArgs, JumpToplevel(n)
  PROVE  Machine!JumpToplevel(m, n) \/ Machine!Halt
<1>1. PICK entry, b, s, at :
        /\ entry = [params |-> n, rest |-> FALSE] /\ b = build_environment([vm EXCEPT !.reg1 = NIL], n)
        /\ s = Enter(b) /\ at = [slots |-> n, temps |-> 0] /\ pc.temps >= n /\ Do(s, at)
  BY DEF JumpToplevel
<1>2. ASSUME ~s.exhausted, Goes(s, at) PROVE Machine!JumpToplevel(m, n)
  <2>1. PICK l, d, end, S : l = pc.slots /\ d = vm.cont /\ end = NIL /\ S = store
    OBVIOUS
  <2>2. /\ pc.slots \in Nat /\ pc.temps \in Nat /\ pc.temps <= pc.slots /\ m.temps = pc.temps
        /\ m.stack = Stack(g, NIL, pc.slots)
    BY ShownIs
  <2>3. n \in Nat /\ l \in Nat /\ l <= pc.slots /\ n <= l
    BY <1>1, <2>1, <2>2
  <2>4. Pictured(vm, pc, vm.cont, g)
    BY DEF Shown
  <2>5. \E o, u, ids : /\ Sound(vm, o, pc.slots, 0) /\ Handing(g, pc.slots, n, entry, NIL, o, u, ids)
                       /\ JumpedWith(u, s, at, vm.cont)
    BY <1>1, <2>3, <2>4, ToplevelIsJumpedTo
  <2>6. PICK o, u, ids : /\ Sound(vm, o, pc.slots, 0) /\ Handing(g, l, n, entry, end, o, u, ids)
                         /\ JumpedWith(u, s, at, d)
    BY <2>1, <2>5
  <2>7. entry \in [params : Nat, rest : BOOLEAN] /\ Fixed(entry, n) = n /\ Rests(entry) = 0
        /\ entry = Machine!Toplevel(n)
    BY <1>1, <2>3 DEF Fixed, Rests, Machine!Toplevel
  <2>8. Inside(store, end)
    BY <2>1 DEF Inside
  <2>9. Readying(g, S, l, n, entry, end, o, u, ids) /\ Enclosed(g, S, l, end, d)
    BY <2>1, <2>3, <2>6, <2>7, <2>8, CallReady
  <2>10. at.slots = Fixed(entry, n) + Rests(entry) /\ at.temps = 0
    <3>1. at.slots = n /\ at.temps = 0
      BY <1>1
    <3> QED  BY <2>3, <2>7, <3>1
  <2>11. PICK args : args = SubSeq(m.stack, 1, n)
    OBVIOUS
  <2>12. args = Arguments(g, l, n)
    BY <2>1, <2>2, <2>3, <2>11, ArgumentsAre, ZenonT(60)
  <2>13. PICK a, c, t : m = Fields(a, c, t, d, Globals(g), S)
    BY <2>1 DEF Shown, Pic, Fields
  <2>14. Machine!Enter(m, args, entry, end)
    BY <1>2, <2>6, <2>9, <2>10, <2>12, <2>13, EnterSeen
  <2> QED  BY <1>1, <2>1, <2>2, <2>7, <2>11, <2>14 DEF Machine!JumpToplevel
<1> QED  BY <1>1, <1>2, DoCases

\* PrimGraftToCont
LEMMA GraftToContSeen ==
  ASSUME OneShot, NEW g, NEW m, Shown(g, m), PrimGraftToCont
  PROVE  Machine!GraftToCont(m) \/ Machine!Halt
<1>1. PICK b, t, k, v, entry, end, s, at :
        /\ b = Pop2(vm) /\ t = Push([b EXCEPT !.cont = b.reg1, !.reg1 = b.reg2], b.reg2)
        /\ k = Second(vm) /\ v = TopOf(vm) /\ entry = vm.cdr[v] /\ end = vm.car[v]
        /\ s = Enter(Prepared(t, 0)) /\ at = FrameOf(entry, 0)
        /\ pc.temps > 1 /\ IsUsable(k) /\ IsA(v, CLOSURE_TYPE) /\ Do(s, at)
  BY DEF PrimGraftToCont
<1>2. ASSUME ~s.exhausted, Goes(s, at) PROVE Machine!GraftToCont(m)
  <2>1. PICK l, n, S : l = pc.slots - 2 /\ n = 0 /\ S = store
    OBVIOUS
  <2>2. /\ pc.slots \in Nat /\ pc.temps \in Nat /\ pc.temps <= pc.slots /\ m.temps = pc.temps
        /\ \A j \in 1 .. pc.slots : Inside(store, g.slot[NIL][j])
        /\ \A i \in GlobalVars : Inside(store, Globals(g)[i])
        /\ \A c \in DOMAIN store : \A y \in Refs(store[c]) : Inside(store, y)
    BY ShownIs
  <2>3. n \in Nat /\ l \in Nat /\ l <= pc.slots /\ n <= l /\ pc.temps > 0 /\ pc.slots - 1 \notin 1 .. l
        /\ \A j \in 1 .. l : j \in 1 .. pc.slots
    BY <1>1, <2>1, <2>2
  <2>4. Pictured(vm, pc, vm.cont, g) /\ Depicts(S, g)
    BY <2>1 DEF Shown
  <2>5. \E o, w, u, ids : /\ OnlySlot(g, w, pc.slots - 1)
                          /\ Handing(w, pc.slots - 2, 0, entry, vm.car[TopOf(vm)], o, u, ids)
                          /\ JumpedWith(u, s, FrameOf(entry, 0), Second(vm))
    BY <1>1, <1>2, <2>4, ThunkIsGrafted
  <2>6. PICK o, w, u, ids : /\ OnlySlot(g, w, pc.slots - 1) /\ Handing(w, l, n, entry, end, o, u, ids)
                            /\ JumpedWith(u, s, at, k)
    BY <1>1, <2>1, <2>5
  <2>7. /\ m.stack[1] = v /\ Machine!IsA(m, v, "closure")
        /\ m.store[v].entry = entry /\ m.store[v].env = end /\ Inside(store, end)
        /\ entry \in [params : Nat, rest : BOOLEAN]
    BY <1>1, <2>3, ClosureSeen
  <2>8. Inside(store, k) /\ m.stack[2] = k /\ Machine!IsA(m, k, "cont")
    <3>1. Inside(store, k) /\ m.stack[2] = k
      BY <1>1, TopsAre
    <3>2. PICK kind : kind = CONTINUATION_TYPE
      OBVIOUS
    <3>3. IsA(k, kind) /\ k \notin vm.spent
      BY <1>1, <3>2 DEF IsUsable
    <3> QED  BY <3>1, <3>2, <3>3, KindFound
  <2>9. Fixed(entry, n) = n
    BY <2>1, <2>7 DEF Fixed
  <2>10. Readying(w, S, l, n, entry, end, o, u, ids)
    <3>1. Depicts(S, w)
      <4>1. PICK i : i = pc.slots - 1
        OBVIOUS
      <4>2. OnlySlot(g, w, i)
        BY <2>6, <4>1
      <4> QED  BY <2>4, <4>2, SlotDepicts
    <3> QED  BY <2>3, <2>6, <2>7, <2>9, <3>1 DEF Readying
  <2>11. Globals(w) = Globals(g) /\ \A j \in 1 .. l : w.slot[NIL][j] = g.slot[NIL][j]
    <3>1. \A j \in 1 .. l : j \in Nat /\ j # pc.slots - 1
      BY <2>3
    <3> QED  BY <2>6, <3>1 DEF OnlySlot, Globals
  <2>12. Enclosed(w, S, l, end, k)
    BY <2>1, <2>2, <2>3, <2>7, <2>8, <2>11 DEF Enclosed
  <2>13. at.slots = Fixed(entry, n) + Rests(entry) /\ at.temps = 0
    BY <1>1, <2>1 DEF FrameOf, Rests
  <2>14. PICK args : args = <<>>
    OBVIOUS
  <2>15. args = Arguments(w, l, n)
    BY <2>1, <2>14 DEF Arguments
  <2>16. PICK x : x = [m EXCEPT !.cont = k]
    OBVIOUS
  <2>17. \E a, c, z : x = Fields(a, c, z, k, Globals(w), S)
    <3>1. m.store = S /\ m.globals = Globals(w)
      BY <2>1, <2>11, ShownIs
    <3>2. PICK a, c, z, y, e : a = m.stack /\ c = m.closed /\ z = m.temps /\ y = m.cont /\ e = Globals(w)
      OBVIOUS
    <3>3. m \in [stack : {a}, closed : {c}, temps : {z}, cont : {y}, globals : {e}, store : {S}]
      BY <2>11, <3>1, <3>2 DEF Shown, Pic
    <3>4. x \in [stack : {a}, closed : {c}, temps : {z}, cont : {k}, globals : {e}, store : {S}]
      BY <2>16, <3>3
    <3>5. x = Fields(a, c, z, k, e, S)
      BY <3>4 DEF Fields
    <3> QED  BY <3>2, <3>5
  <2>18. PICK a, c, z : x = Fields(a, c, z, k, Globals(w), S)
    BY <2>17
  <2>19. Machine!Enter(x, args, entry, end)
    BY <1>2, <2>6, <2>10, <2>12, <2>13, <2>15, <2>18, EnterSeen
  <2> QED  BY <1>1, <2>2, <2>7, <2>8, <2>14, <2>16, <2>19 DEF Machine!GraftToCont
<1> QED  BY <1>1, <1>2, DoCases

-----------------------------------------------------------------------------
(* The refinement. *)

\* The program starts where its machine does.
LEMMA StartSeen == Init => Machine!SInit
<1> SUFFICES ASSUME Init PROVE Machine!SInit
  OBVIOUS
<1>1. PICK g : Pictured(vm, pc, vm.cont, g)
  <2>1. Sane(vm, pc)
    BY StartSane DEF IInv
  <2> QED  BY <2>1, SaneIsPictured
<1>2. PICK m : m = Machine!machine
  OBVIOUS
<1>3. Shown(g, m)
  BY <1>1, <1>2, MachineIs
<1>4. pc.slots = 0 /\ pc.temps = 0 /\ vm.cont = NIL /\ halted = FALSE
  BY DEF Init
<1>5. stack = <<>>
  BY <1>4 DEF stack, Slots
<1>6. frame[pc.slots] = NIL
  <2>1. PICK e, n : e = vm.env /\ n = pc.slots
    OBVIOUS
  <2>2. vm \in Machines /\ e \in Word /\ n \in Nat /\ e = NIL
    <3>1. vm \in Machines
      BY <1>1 DEF Pictured, Sound
    <3>2. e = NIL /\ n = 0
      BY <1>4, <2>1 DEF Init
    <3> QED  BY <3>1, <3>2 DEF Word, Value
  <2>3. Walk(vm, e, n)[0] = e
    BY <2>2, WalkIs
  <2> QED  BY <1>4, <2>1, <2>2, <2>3, SpineIsWalk DEF frame
<1>7. \A i \in GlobalVars : globals[i] = NIL
  <2> SUFFICES ASSUME NEW i \in GlobalVars PROVE Global(vm, i) = NIL
    BY DEF globals
  <2>1. i \div 2 \in Cell /\ i \div 2 \in ReservedCell
    BY HeapEndAssumption, ReservedAssumption DEF GlobalVars, ReservedCell, Cell
  <2>2. vm.car[i \div 2] = NIL /\ vm.cdr[i \div 2] = NIL
    BY <2>1 DEF Init
  <2> QED  BY <2>2 DEF Global
<1>8. Machine!GlobalVars = GlobalVars
  BY DEF Machine!GlobalVars, GlobalVars
<1>9. globals = [i \in GlobalVars |-> NIL]
  BY <1>7 DEF globals
<1>10. store = <<>>
  <2>1. /\ m.stack = <<>> /\ m.closed = NIL /\ m.cont = NIL /\ m.globals = globals
    BY <1>2, <1>4, <1>5, <1>6 DEF Machine!machine
  <2>2. \A v \in Machine!Values(m) : v = NIL
    BY <1>7, <1>8, <2>1 DEF Machine!Values, Machine!ToSet
  <2>3. DOMAIN store \subseteq Referred(store, Machine!Values(m)) /\ DOMAIN store \subseteq Cell
    BY <1>3, StoreFound, SameReferred DEF Shown, Depicts
  <2>4. PICK R : R = Machine!Values(m)
    OBVIOUS
  <2>5. R \cap DOMAIN store \subseteq {}
    BY <2>2, <2>3, <2>4, NilAssumption
  <2>6. PICK N : N = {}
    OBVIOUS
  <2>7. R \cap DOMAIN store \subseteq N /\ \A c \in N \cap DOMAIN store : Refs(store[c]) \cap DOMAIN store \subseteq N
    BY <2>5, <2>6
  <2>8. Referred(store, R) \subseteq N
    BY <2>7, ReferredInside
  <2>9. DOMAIN store = {}
    BY <2>3, <2>4, <2>6, <2>8
  <2>10. PICK f, D : store = [c \in D |-> f[c]]
    BY StoreIs DEF Seen
  <2> QED  BY <2>9, <2>10
<1> QED  BY <1>4, <1>5, <1>6, <1>8, <1>9, <1>10 DEF Machine!SInit

\* Every instruction is one of the machine's.
LEMMA NextSeen ==
  ASSUME OneShot, IInv, Next
  PROVE  Machine!SNext
<1>1. PICK g : Pictured(vm, pc, vm.cont, g)
  BY SaneIsPictured DEF IInv
<1>2. PICK m : m = Machine!machine
  OBVIOUS
<1>3. Shown(g, m)
  BY <1>1, <1>2, MachineIs
<1>4. ASSUME Machine!Halt PROVE Machine!SNext
  BY <1>4 DEF Machine!SNext
<1>5. Machine!GlobalVars = GlobalVars
  BY DEF Machine!GlobalVars, GlobalVars
<1>6. CASE PushConstant
  <2>1. Machine!PushConstant(m) \/ Machine!Halt
    BY <1>3, <1>6, PushConstantSeen
  <2> QED  BY <1>2, <1>4, <2>1 DEF Machine!SNext
<1>7. CASE PrimPop
  <2>1. Machine!Pop(m) \/ Machine!Halt
    BY <1>3, <1>7, PopSeen
  <2> QED  BY <1>2, <1>4, <2>1 DEF Machine!SNext
<1>8. CASE PrimReturn
  <2>1. Machine!Return(m) \/ Machine!Halt
    BY <1>3, <1>8, ReturnSeen
  <2> QED  BY <1>2, <1>4, <2>1 DEF Machine!SNext
<1>9. CASE PrimGetCont
  <2>1. Machine!GetCont(m) \/ Machine!Halt
    BY <1>3, <1>9, GetContSeen
  <2> QED  BY <1>2, <1>4, <2>1 DEF Machine!SNext
<1>10. CASE PrimReturnToCont
  <2>1. Machine!ReturnToCont(m) \/ Machine!Halt
    BY <1>3, <1>10, ReturnToContSeen
  <2> QED  BY <1>2, <1>4, <2>1 DEF Machine!SNext
<1>11. CASE PrimGraftToCont
  <2>1. Machine!GraftToCont(m) \/ Machine!Halt
    BY <1>3, <1>11, GraftToContSeen
  <2> QED  BY <1>2, <1>4, <2>1 DEF Machine!SNext
<1>12. CASE PrimCons
  <2>1. Machine!MakePair(m) \/ Machine!Halt
    BY <1>3, <1>12, MakePairSeen
  <2> QED  BY <1>2, <1>4, <2>1 DEF Machine!SNext
<1>13. CASE PrimCar
  <2>1. Machine!Car(m) \/ Machine!Halt
    BY <1>3, <1>13, CarSeen
  <2> QED  BY <1>2, <1>4, <2>1 DEF Machine!SNext
<1>14. CASE PrimCdr
  <2>1. Machine!Cdr(m) \/ Machine!Halt
    BY <1>3, <1>14, CarSeen
  <2> QED  BY <1>2, <1>4, <2>1 DEF Machine!SNext
<1>15. CASE PrimSetCar
  <2>1. Machine!SetCar(m) \/ Machine!Halt
    BY <1>3, <1>15, SetCarSeen
  <2> QED  BY <1>2, <1>4, <2>1 DEF Machine!SNext
<1>16. CASE PrimSetCdr
  <2>1. Machine!SetCdr(m) \/ Machine!Halt
    BY <1>3, <1>16, SetCarSeen
  <2> QED  BY <1>2, <1>4, <2>1 DEF Machine!SNext
<1>17. CASE PrimTest
  <2>1. Machine!Test(m) \/ Machine!Halt
    BY <1>3, <1>17, TestSeen
  <2> QED  BY <1>2, <1>4, <2>1 DEF Machine!SNext
<1>18. CASE PrimListToString
  <2>1. Machine!ListToString(m) \/ Machine!Halt
    BY <1>3, <1>18, ListToStringSeen
  <2> QED  BY <1>2, <1>4, <2>1 DEF Machine!SNext
<1>19. CASE PrimStringToList
  <2>1. Machine!StringToList(m) \/ Machine!Halt
    BY <1>3, <1>19, StringToListSeen
  <2> QED  BY <1>2, <1>4, <2>1 DEF Machine!SNext
<1>20. CASE PrimHalt
  <2>1. vm' = vm /\ pc' = pc /\ ~halted /\ halted' = TRUE
    BY <1>20 DEF PrimHalt
  <2> QED  BY <1>4, <2>1, Stopped
<1>21. ASSUME NEW i \in 0 .. MaxIndex, PushStack(i) PROVE Machine!SNext
  <2>1. Machine!PushStack(m, i) \/ Machine!Halt
    BY <1>3, <1>21, PushStackSeen
  <2> QED  BY <1>2, <1>4, <1>5, <2>1 DEF Machine!SNext
<1>22. ASSUME NEW i \in GlobalVars, PushGlobal(i) PROVE Machine!SNext
  <2>1. Machine!PushGlobal(m, i) \/ Machine!Halt
    BY <1>3, <1>22, PushGlobalSeen
  <2> QED  BY <1>2, <1>4, <1>5, <2>1 DEF Machine!SNext
<1>23. ASSUME NEW i \in GlobalVars, SetGlobal(i) PROVE Machine!SNext
  <2>1. Machine!SetGlobal(m, i) \/ Machine!Halt
    BY <1>3, <1>23, SetGlobalSeen
  <2> QED  BY <1>2, <1>4, <1>5, <2>1 DEF Machine!SNext
<1>24. ASSUME NEW i \in 0 .. MaxArgs, CallClosure(i) PROVE Machine!SNext
  <2>1. Machine!CallClosure(m, i) \/ Machine!Halt
    BY <1>3, <1>24, CallClosureSeen
  <2> QED  BY <1>2, <1>4, <1>5, <2>1 DEF Machine!SNext
<1>25. ASSUME NEW i \in 0 .. MaxArgs, JumpClosure(i) PROVE Machine!SNext
  <2>1. Machine!JumpClosure(m, i) \/ Machine!Halt
    BY <1>3, <1>25, JumpClosureSeen
  <2> QED  BY <1>2, <1>4, <1>5, <2>1 DEF Machine!SNext
<1>26. ASSUME NEW i \in 0 .. MaxArgs, CallToplevel(i) PROVE Machine!SNext
  <2>1. Machine!CallToplevel(m, i) \/ Machine!Halt
    BY <1>3, <1>26, CallToplevelSeen
  <2> QED  BY <1>2, <1>4, <1>5, <2>1 DEF Machine!SNext
<1>27. ASSUME NEW i \in 0 .. MaxArgs, JumpToplevel(i) PROVE Machine!SNext
  <2>1. Machine!JumpToplevel(m, i) \/ Machine!Halt
    BY <1>3, <1>27, JumpToplevelSeen
  <2> QED  BY <1>2, <1>4, <1>5, <2>1 DEF Machine!SNext
<1>28. ASSUME NEW i \in Entries, MakeClosure(i) PROVE Machine!SNext
  <2>1. Machine!MakeClosure(m, i) \/ Machine!Halt
    BY <1>3, <1>28, MakeClosureSeen
  <2> QED  BY <1>2, <1>4, <1>5, <2>1 DEF Machine!SNext
<1> QED  BY <1>6, <1>7, <1>8, <1>9, <1>10, <1>11, <1>12, <1>13, <1>14, <1>15, <1>16,
              <1>17, <1>18, <1>19, <1>20, <1>21, <1>22, <1>23, <1>24, <1>25, <1>26, <1>27, <1>28 DEF Next

\* Nothing is seen of a step that changes nothing.
LEMMA StutterSeen ==
  ASSUME UNCHANGED vars
  PROVE  UNCHANGED Machine!svars
<1>1. vm' = vm /\ pc' = pc /\ halted' = halted
  BY DEF vars
<1>2. stack' = stack /\ (frame[pc.slots])' = frame[pc.slots]
  BY <1>1 DEF stack, frame, Slots, Spine
<1>3. globals' = globals /\ vm.cont' = vm.cont /\ pc.temps' = pc.temps
  BY <1>1 DEF globals, Global
<1>4. store' = store
  BY <1>1 DEF store, stack, frame, Slots, Spine, globals, Global, Live, Followed, Object, Registers,
         Holds, SavedFrame, IsA, Free, FreeList, SavedAt, SavedSpine, Referred
<1> QED  BY <1>1, <1>2, <1>3, <1>4 DEF Machine!svars

(***************************************************************************)
(* The virtual machine implements the machine that a compiled program      *)
(* believes it runs on (ImplementsMachine): the instructions of            *)
(* interpreter.c on cells that are shared, reused and collected do what    *)
(* the same instructions do on frames that nothing shares, for any heap,   *)
(* any globals and any procedures, when each continuation is used once.    *)
(***************************************************************************)
THEOREM VmImplementsStackMachine == ASSUME OneShot PROVE Spec => ImplementsMachine
<1>1. Init => Machine!SInit
  BY StartSeen
<1>2. IInv /\ [Next]_vars => [Machine!SNext]_Machine!svars
  BY NextSeen, StutterSeen
<1> QED  BY <1>1, <1>2, CellsHaveRoles, PTL DEF Spec, ImplementsMachine, Machine!SSpec
=============================================================================
