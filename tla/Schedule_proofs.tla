--------------------------- MODULE Schedule_proofs ---------------------------
(***************************************************************************)
(* Proofs about Schedule: for any well-formed blocks, linearize appends to *)
(* the list that it takes labels from, and every block that is referred to *)
(* is emitted, once.                                                       *)
(***************************************************************************)
EXTENDS Schedule, FiniteSetTheorems, WellFoundedInduction, SequenceTheorems, TLAPS

-----------------------------------------------------------------------------
(***************************************************************************)
(* Loops. Schedule writes a loop of the code as a function of the number   *)
(* of its rounds, which refers to itself; that there is such a function,   *)
(* and that what each round preserves holds in the end, follows from the   *)
(* fact that a set of numbers has a least element.                         *)
(***************************************************************************)

\* A set of numbers has a least element.
LEMMA LeastNumber ==
  ASSUME NEW S, S \subseteq Nat, S # {}
  PROVE  \E n \in S : \A m \in S : n <= m
<1>1. IsWellFoundedOn(OpToRel(<, Nat), Nat)
  BY NatLessThanWellFounded
<1>2. PICK n \in S : \A m \in S : ~(<<m, n>> \in OpToRel(<, Nat))
  BY <1>1, WFMin
<1>3. \A m \in S : ~(m < n)
  BY <1>2 DEF OpToRel
<1> QED  BY <1>3

\* What holds at first and is kept by each round of a loop holds in every round.
\* (The set S stands for a property.)
LEMMA EveryRoundTo ==
  ASSUME NEW N \in Nat, NEW S, 0 \in S, \A n \in 0 .. N - 1 : n \in S => n + 1 \in S
  PROVE  \A n \in 0 .. N : n \in S
<1> SUFFICES ASSUME NEW k \in 0 .. N, k \notin S PROVE FALSE
  OBVIOUS
<1> DEFINE T == (0 .. N) \ S
<1>1. T \subseteq Nat /\ T # {}
  OBVIOUS
<1>2. PICK n \in T : \A m \in T : n <= m
  <2> HIDE DEF T
  <2> QED  BY <1>1, LeastNumber
<1>3. n # 0 /\ n - 1 \in 0 .. N - 1 /\ n - 1 \notin T
  BY <1>2
<1>4. (n - 1) + 1 \in S
  BY <1>3
<1> QED  BY <1>2, <1>4

\* g is a loop of N rounds from x on that has a step of its own in each.
IsRun(g, x, step, N) == g[0] = x /\ \A n \in 1 .. N : g[n] = step[n][g[n - 1]]

\* There is one for any steps.
LEMMA NumberedRounds ==
  ASSUME NEW S, NEW x \in S, NEW N \in Nat, NEW step \in [1 .. N -> [S -> S]]
  PROVE  \E g \in [0 .. N -> S] : IsRun(g, x, step, N)
<1> DEFINE Possible == {k \in 0 .. N : \E g \in [0 .. N -> S] : IsRun(g, x, step, k)}
<1>1. 0 \in Possible
  <2> DEFINE g == [n \in 0 .. N |-> x]
  <2>1. g \in [0 .. N -> S] /\ IsRun(g, x, step, 0)
    BY DEF IsRun
  <2> HIDE DEF g
  <2> QED  BY <2>1
<1>2. ASSUME NEW k \in 0 .. N - 1, k \in Possible PROVE k + 1 \in Possible
  <2>1. PICK g \in [0 .. N -> S] : IsRun(g, x, step, k)
    BY <1>2
  <2> DEFINE h == [g EXCEPT ![k + 1] = step[k + 1][g[k]]]
  <2>2. step[k + 1][g[k]] \in S
    <3>1. g[k] \in S /\ step[k + 1] \in [S -> S]
      OBVIOUS
    <3> QED  BY <3>1
  <2>3. h \in [0 .. N -> S] /\ h[0] = x
    BY <2>1, <2>2 DEF IsRun
  <2>4. ASSUME NEW n \in 1 .. k + 1 PROVE h[n] = step[n][h[n - 1]]
    <3>1. h[n - 1] = g[n - 1]
      OBVIOUS
    <3>2. CASE n = k + 1
      BY <3>1, <3>2
    <3>3. CASE n # k + 1
      BY <2>1, <3>1, <3>3 DEF IsRun
    <3> QED  BY <3>2, <3>3
  <2>5. IsRun(h, x, step, k + 1)
    BY <2>3, <2>4 DEF IsRun
  <2> HIDE DEF h
  <2> QED  BY <2>3, <2>5
<1>3. \A k \in 0 .. N : k \in Possible
  <2> HIDE DEF Possible
  <2> QED  BY <1>1, <1>2, EveryRoundTo
<1>4. N \in Possible
  <2> HIDE DEF Possible
  <2> QED  BY <1>3
<1> QED  BY <1>4

\* g is a loop of N rounds from x on that does the same step in each.
IsLoop(g, x, step, N) == g[0] = x /\ \A n \in 1 .. N : g[n] = step[g[n - 1]]

\* There is one for any step.
LEMMA Rounds ==
  ASSUME NEW S, NEW x \in S, NEW step \in [S -> S], NEW N \in Nat
  PROVE  \E g \in [0 .. N -> S] : IsLoop(g, x, step, N)
<1> DEFINE steps == [n \in 1 .. N |-> step]
<1>1. steps \in [1 .. N -> [S -> S]]
  OBVIOUS
<1>2. PICK g \in [0 .. N -> S] : IsRun(g, x, steps, N)
  <2> HIDE DEF steps
  <2> QED  BY <1>1, NumberedRounds
<1>3. IsLoop(g, x, step, N)
  BY <1>2 DEF IsRun, IsLoop
<1> QED  BY <1>3

\* A step that only adds to a set.
Grows(f, S) == \A X \in SUBSET S : X \subseteq f[X]

\* A loop whose step only adds to a set comes to rest in as many rounds as the set may have elements.
LEMMA ComesToRest ==
  ASSUME NEW S, IsFiniteSet(S), NEW N \in Nat, Cardinality(S) <= N,
         NEW P, P = SUBSET S, NEW f \in [P -> P], Grows(f, S),
         NEW x, NEW g \in [0 .. N -> P], IsLoop(g, x, f, N)
  PROVE  f[g[N]] = g[N]
<1> \A n \in 1 .. N : g[n] = f[g[n - 1]]
  BY DEF IsLoop
<1>0. \A n \in 0 .. N : g[n] \in SUBSET S /\ IsFiniteSet(g[n]) /\ Cardinality(g[n]) \in Nat
                        /\ Cardinality(g[n]) <= Cardinality(S)
  <2> SUFFICES ASSUME NEW n \in 0 .. N
               PROVE  /\ g[n] \in SUBSET S /\ IsFiniteSet(g[n]) /\ Cardinality(g[n]) \in Nat
                      /\ Cardinality(g[n]) <= Cardinality(S)
    OBVIOUS
  <2>1. g[n] \in SUBSET S
    OBVIOUS
  <2> QED  BY <2>1, FS_Subset, FS_CardinalityType
<1>1. CASE \E n \in 1 .. N : g[n] = g[n - 1]
  <2>1. PICK k \in 1 .. N : g[k] = g[k - 1]
    BY <1>1
  <2> DEFINE T == {n \in 0 .. N : n >= k => g[n] = g[k]}
  <2>2. \A n \in 0 .. N - 1 : n \in T => n + 1 \in T
    <3> SUFFICES ASSUME NEW n \in 0 .. N - 1, n \in T, n + 1 >= k PROVE g[n + 1] = g[k]
      OBVIOUS
    <3>1. CASE n + 1 = k
      BY <3>1
    <3>2. CASE n >= k
      <4>1. g[n + 1] = f[g[(n + 1) - 1]] /\ g[k] = f[g[k - 1]]
        OBVIOUS
      <4> QED  BY <2>1, <3>2, <4>1
    <3> QED  BY <3>1, <3>2
  <2>3. N \in T
    <3>1. 0 \in T
      OBVIOUS
    <3>2. \A n \in 0 .. N : n \in T
      <4> HIDE DEF T
      <4> QED  BY <2>2, <3>1, EveryRoundTo
    <3> HIDE DEF T
    <3> QED  BY <3>2
  <2>4. g[N] = g[k] /\ g[k] = f[g[k - 1]]
    BY <2>3
  <2> QED  BY <2>1, <2>4
<1>2. CASE \A n \in 1 .. N : g[n] # g[n - 1]
  <2> DEFINE T == {n \in 0 .. N : Cardinality(g[n]) >= n}
  <2>1. 0 \in T
    BY <1>0
  <2>2. \A n \in 0 .. N - 1 : n \in T => n + 1 \in T
    <3> SUFFICES ASSUME NEW n \in 0 .. N - 1, n \in T PROVE Cardinality(g[n + 1]) >= n + 1
      OBVIOUS
    <3>1. g[n + 1] = f[g[(n + 1) - 1]] /\ g[n + 1] # g[(n + 1) - 1]
      BY <1>2
    <3>2. g[n] \subseteq g[n + 1] /\ g[n] # g[n + 1]
      BY <3>1, <1>0 DEF Grows
    <3>3. Cardinality(g[n]) <= Cardinality(g[n + 1]) /\ Cardinality(g[n]) # Cardinality(g[n + 1])
      <4>1. g[n] \in SUBSET g[n + 1] /\ IsFiniteSet(g[n + 1])
        BY <1>0, <3>2
      <4> QED  BY <3>2, <4>1, FS_Subset
    <3> QED  BY <1>0, <3>3
  <2>3. N \in T
    <3> HIDE DEF T
    <3>1. \A n \in 0 .. N : n \in T
      BY <2>1, <2>2, EveryRoundTo
    <3> QED  BY <3>1
  <2>4. Cardinality(g[N]) = Cardinality(S)
    BY <1>0, <2>3, FS_CardinalityType
  <2>5. g[N] = S
    BY <1>0, <2>4, FS_Subset
  <2>6. S \in SUBSET S /\ f[S] \in SUBSET S /\ S \subseteq f[S]
    BY DEF Grows
  <2> QED  BY <2>5, <2>6
<1> QED  BY <1>1, <1>2

-----------------------------------------------------------------------------
(* Sequences whose elements may be anything. *)

IsList(s) == Len(s) \in Nat /\ s = [i \in 1 .. Len(s) |-> s[i]]

LEMMA ListIs == ASSUME NEW S, NEW s \in Seq(S) PROVE IsList(s) /\ DOMAIN s = 1 .. Len(s)
BY LenProperties DEF IsList

LEMMA IsSequence ==
  ASSUME NEW s, IsList(s)
  PROVE  s \in Seq({s[i] : i \in 1 .. Len(s)}) /\ DOMAIN s = 1 .. Len(s)
BY DEF IsList

\* Two sequences one behind the other.
LEMMA Joined ==
  ASSUME NEW s, NEW t, IsList(s), IsList(t)
  PROVE  /\ IsList(s \o t) /\ Len(s \o t) = Len(s) + Len(t)
         /\ \A i \in 1 .. Len(s) : (s \o t)[i] = s[i]
         /\ \A i \in 1 .. Len(t) : (s \o t)[Len(s) + i] = t[i]
<1> DEFINE S == {s[i] : i \in 1 .. Len(s)} \cup {t[i] : i \in 1 .. Len(t)}
<1>1. s \in Seq(S) /\ t \in Seq(S)
  <2>1. s \in Seq({s[i] : i \in 1 .. Len(s)}) /\ t \in Seq({t[i] : i \in 1 .. Len(t)})
    BY IsSequence
  <2> QED  BY <2>1, SeqMonotonic
<1> HIDE DEF S
<1>2. /\ s \o t \in Seq(S) /\ Len(s \o t) = Len(s) + Len(t)
      /\ \A i \in 1 .. Len(s) + Len(t) : (s \o t)[i] = IF i <= Len(s) THEN s[i] ELSE t[i - Len(s)]
  BY <1>1, ConcatProperties
<1>3. Len(s) \in Nat /\ Len(t) \in Nat
  BY DEF IsList
<1>4. ASSUME NEW i \in 1 .. Len(t) PROVE (s \o t)[Len(s) + i] = t[i]
  <2>1. Len(s) + i \in 1 .. Len(s) + Len(t) /\ ~(Len(s) + i <= Len(s)) /\ (Len(s) + i) - Len(s) = i
    BY <1>3
  <2> QED  BY <1>2, <2>1
<1>5. ASSUME NEW i \in 1 .. Len(s) PROVE (s \o t)[i] = s[i]
  <2>1. i \in 1 .. Len(s) + Len(t) /\ i <= Len(s)
    BY <1>3
  <2> QED  BY <1>2, <2>1
<1>6. IsList(s \o t)
  BY <1>2, ListIs
<1> QED  BY <1>2, <1>4, <1>5, <1>6

LEMMA ListSet ==
  ASSUME NEW s, IsList(s)
  PROVE  /\ \A i \in 1 .. Len(s) : s[i] \in ToSet(s)
         /\ \A x \in ToSet(s) : \E i \in 1 .. Len(s) : x = s[i]
<1>1. DOMAIN s = 1 .. Len(s)
  BY IsSequence
<1> QED  BY <1>1 DEF ToSet

\* What is in two sequences one behind the other.
LEMMA JoinedSet ==
  ASSUME NEW s, NEW t, IsList(s), IsList(t)
  PROVE  ToSet(s \o t) = ToSet(s) \cup ToSet(t)
<1>1. Len(s) \in Nat /\ Len(t) \in Nat
  BY DEF IsList
<1>2. IsList(s \o t) /\ Len(s \o t) = Len(s) + Len(t)
  BY Joined
<1>3. ASSUME NEW i \in 1 .. Len(s) + Len(t) PROVE (s \o t)[i] \in ToSet(s) \cup ToSet(t)
  <2>1. CASE i \in 1 .. Len(s)
    <3>1. (s \o t)[i] = s[i]
      BY <2>1, Joined
    <3> QED  BY <2>1, <3>1, ListSet
  <2>2. CASE i \notin 1 .. Len(s)
    <3>1. i - Len(s) \in 1 .. Len(t) /\ i = Len(s) + (i - Len(s))
      BY <1>1, <2>2
    <3>2. (s \o t)[i] = t[i - Len(s)]
      BY <3>1, Joined
    <3> QED  BY <3>1, <3>2, ListSet
  <2> QED  BY <2>1, <2>2
<1>4. ASSUME NEW i \in 1 .. Len(s) PROVE s[i] \in ToSet(s \o t)
  <2>1. i \in 1 .. Len(s \o t) /\ (s \o t)[i] = s[i]
    BY <1>1, <1>2, Joined
  <2> QED  BY <1>2, <2>1, ListSet
<1>5. ASSUME NEW i \in 1 .. Len(t) PROVE t[i] \in ToSet(s \o t)
  <2>1. Len(s) + i \in 1 .. Len(s \o t) /\ (s \o t)[Len(s) + i] = t[i]
    BY <1>1, <1>2, Joined
  <2> QED  BY <1>2, <2>1, ListSet
<1>6. ToSet(s \o t) \subseteq ToSet(s) \cup ToSet(t)
  <2> SUFFICES ASSUME NEW x \in ToSet(s \o t) PROVE x \in ToSet(s) \cup ToSet(t)
    OBVIOUS
  <2>1. PICK i \in 1 .. Len(s \o t) : x = (s \o t)[i]
    BY <1>2, ListSet
  <2> QED  BY <1>2, <1>3, <2>1
<1>7. ToSet(s) \subseteq ToSet(s \o t) /\ ToSet(t) \subseteq ToSet(s \o t)
  BY <1>4, <1>5, ListSet
<1> QED  BY <1>6, <1>7

LEMMA OneIs == ASSUME NEW x PROVE IsList(<<x>>) /\ Len(<<x>>) = 1 /\ ToSet(<<x>>) = {x} /\ <<x>>[1] = x
BY DEF IsList, ToSet

LEMMA NoneIs == IsList(<<>>) /\ Len(<<>>) = 0 /\ ToSet(<<>>) = {}
BY DEF IsList, ToSet

-----------------------------------------------------------------------------
(* Instructions and blocks. *)

\* The labels of an instruction.
Leads(instr) ==
  CASE instr.op = "goto" \/ instr.op \in Calls -> {instr.arg}
    [] instr.op = "goto-if-false" -> {instr.arg[1], instr.arg[2]}
    [] OTHER -> {}

LEMMA LabelsAre ==
  ASSUME NEW instr, IsInstruction(instr)
  PROVE  ToSet(Labels(instr)) = Leads(instr) /\ IsList(Labels(instr)) /\ DOMAIN Labels(instr) = 1 .. Len(Labels(instr))
<1>1. CASE instr.op = "goto" \/ instr.op \in Calls
  <2>1. Labels(instr) = <<instr.arg>> /\ Leads(instr) = {instr.arg}
    BY <1>1 DEF Labels, Leads, Calls
  <2> QED  BY <2>1, OneIs, IsSequence
<1>2. CASE instr.op = "goto-if-false"
  <2>1. Labels(instr) = instr.arg /\ Leads(instr) = {instr.arg[1], instr.arg[2]}
    BY <1>2 DEF Labels, Leads, Calls
  <2>2. instr.arg = <<instr.arg[1], instr.arg[2]>>
    BY <1>2 DEF IsInstruction
  <2> DEFINE x == instr.arg[1]
             y == instr.arg[2]
  <2>3. IsList(<<x, y>>) /\ ToSet(<<x, y>>) = {x, y} /\ DOMAIN <<x, y>> = 1 .. Len(<<x, y>>)
    <3> HIDE DEF x, y
    <3> QED  BY DEF IsList, ToSet
  <2> QED  BY <2>1, <2>2, <2>3
<1>3. CASE ~(instr.op = "goto" \/ instr.op \in Calls) /\ instr.op # "goto-if-false"
  <2>1. Labels(instr) = <<>> /\ Leads(instr) = {}
    BY <1>3 DEF Labels, Leads
  <2> QED  BY <2>1, NoneIs, IsSequence
<1> QED  BY <1>1, <1>2, <1>3

\* An instruction with new labels.
LEMMA Fixed ==
  ASSUME NEW instr, IsInstruction(instr), NEW new, Leads(instr) \subseteq DOMAIN new
  PROVE  /\ IsInstruction(Fix(instr, new)) /\ Fix(instr, new).op = instr.op
         /\ Leads(Fix(instr, new)) = {new[l] : l \in Leads(instr)}
<1>0. instr = [field \in DOMAIN instr |-> instr[field]] /\ {"op", "arg"} \subseteq DOMAIN instr
  BY DEF IsInstruction
<1>1. ASSUME NEW v PROVE /\ [instr EXCEPT !.arg = v].op = instr.op /\ [instr EXCEPT !.arg = v].arg = v
                         /\ DOMAIN [instr EXCEPT !.arg = v] = DOMAIN instr
                         /\ [instr EXCEPT !.arg = v] = [f \in DOMAIN instr |-> [instr EXCEPT !.arg = v][f]]
  <2>1. [instr EXCEPT !.arg = v] = [f \in DOMAIN instr |-> IF f = "arg" THEN v ELSE instr[f]]
    OBVIOUS
  <2>2. \A f \in DOMAIN instr : [instr EXCEPT !.arg = v][f] = IF f = "arg" THEN v ELSE instr[f]
    BY <2>1
  <2> QED  BY <1>0, <2>1, <2>2
<1>2. CASE instr.op = "goto" \/ instr.op \in Calls
  <2>1. Fix(instr, new) = [instr EXCEPT !.arg = new[instr.arg]]
    BY <1>2 DEF Fix, Calls
  <2> DEFINE fixed == [instr EXCEPT !.arg = new[instr.arg]]
  <2>2. /\ fixed.op = instr.op /\ fixed.arg = new[instr.arg] /\ DOMAIN fixed = DOMAIN instr
        /\ fixed = [f \in DOMAIN instr |-> fixed[f]]
    BY <1>1
  <2> HIDE DEF fixed
  <2>3. IsInstruction(fixed)
    BY <1>2, <2>2, <1>0 DEF IsInstruction, Calls
  <2>4. Leads(fixed) = {fixed.arg} /\ Leads(instr) = {instr.arg}
    BY <1>2, <2>2 DEF Leads, Calls
  <2> QED  BY <2>1, <2>2, <2>3, <2>4 DEF fixed
<1>3. CASE instr.op = "goto-if-false"
  <2>1. Fix(instr, new) = [instr EXCEPT !.arg = <<new[instr.arg[1]], new[instr.arg[2]]>>]
    BY <1>3 DEF Fix, Calls
  <2> DEFINE fixed == [instr EXCEPT !.arg = <<new[instr.arg[1]], new[instr.arg[2]]>>]
  <2>2. /\ fixed.op = instr.op /\ fixed.arg = <<new[instr.arg[1]], new[instr.arg[2]]>> /\ DOMAIN fixed = DOMAIN instr
        /\ fixed = [f \in DOMAIN instr |-> fixed[f]]
    BY <1>1
  <2> HIDE DEF fixed
  <2>3. IsInstruction(fixed)
    BY <1>3, <2>2, <1>0 DEF IsInstruction
  <2>4. Leads(fixed) = {fixed.arg[1], fixed.arg[2]} /\ Leads(instr) = {instr.arg[1], instr.arg[2]}
    BY <1>3, <2>2 DEF Leads, Calls
  <2> QED  BY <2>1, <2>2, <2>3, <2>4 DEF fixed
<1>4. CASE ~(instr.op = "goto" \/ instr.op \in Calls) /\ instr.op # "goto-if-false"
  <2>1. Fix(instr, new) = instr /\ Leads(instr) = {}
    BY <1>4 DEF Fix, Leads
  <2> QED  BY <2>1
<1> QED  BY <1>2, <1>3, <1>4

LEMMA TargetsAre ==
  ASSUME NEW b, IsBlock(Instrs(b))
  PROVE  Targets(b) = UNION {Leads(Instrs(b)[i]) : i \in 1 .. Len(Instrs(b))}
<1>1. DOMAIN Instrs(b) = 1 .. Len(Instrs(b))
  BY DEF IsBlock
<1>2. \A i \in 1 .. Len(Instrs(b)) : ToSet(Labels(Instrs(b)[i])) = Leads(Instrs(b)[i])
  BY LabelsAre DEF IsBlock
<1> QED  BY <1>1, <1>2 DEF Targets

-----------------------------------------------------------------------------
(* New labels for the blocks. *)

\* The blocks that are kept get different labels, and lead to each other only.
Numbering(new) ==
  /\ DOMAIN new \subseteq DOMAIN bbs /\ 0 \in DOMAIN new /\ new[0] = 0
  /\ \A b \in DOMAIN new : new[b] \in Nat /\ Targets(b) \subseteq DOMAIN new
  /\ \A b, c \in DOMAIN new : new[b] = new[c] => b = c

LEMMA BlockFixed ==
  ASSUME WellFormed, NEW new, Numbering(new), bbs' = renumber_labels(new), NEW b \in DOMAIN new
  PROVE  /\ new[b] \in DOMAIN bbs' /\ IsBlock(Instrs(new[b])')
         /\ Targets(new[b])' = {new[c] : c \in Targets(b)}
<1> DEFINE old == Instrs(b)
           now == bbs'[new[b]].instrs
<1>1. new[b] \in DOMAIN bbs' /\ now = [i \in DOMAIN old |-> Fix(old[i], new)]
  <2>1. new[b] \in {new[c] : c \in DOMAIN new}
    OBVIOUS
  <2>2. (CHOOSE c \in DOMAIN new : new[c] = new[b]) = b
    BY DEF Numbering
  <2>3. DOMAIN bbs' = {new[c] : c \in DOMAIN new}
    BY DEF renumber_labels
  <2>4. bbs'[new[b]].instrs = [i \in DOMAIN old |-> Fix(old[i], new)]
    BY <2>1, <2>2 DEF renumber_labels
  <2> QED  BY <2>1, <2>3, <2>4
<1>2. /\ Len(old) \in Nat \ {0} /\ old = [i \in 1 .. Len(old) |-> old[i]] /\ DOMAIN old = 1 .. Len(old)
      /\ \A i \in 1 .. Len(old) :
           /\ IsInstruction(old[i])
           /\ old[i].op \in {"goto", "goto-if-false", "jump-toplevel"} => i = Len(old)
           /\ old[i].op \in {"closure", "call-toplevel"} => i < Len(old)
  BY DEF Numbering, WellFormed, IsBlock
<1>3. Targets(b) = UNION {Leads(old[i]) : i \in 1 .. Len(old)} /\ Targets(b) \subseteq DOMAIN new
  BY TargetsAre DEF Numbering, WellFormed
<1> HIDE DEF old, now
<1>4. \A i \in 1 .. Len(old) : Leads(old[i]) \subseteq DOMAIN new
  BY <1>3
<1>5. Len(now) = Len(old) /\ now = [i \in 1 .. Len(old) |-> now[i]] /\ \A i \in 1 .. Len(old) : now[i] = Fix(old[i], new)
  BY <1>1, <1>2
<1>6. ASSUME NEW i \in 1 .. Len(old)
      PROVE  /\ IsInstruction(now[i]) /\ now[i].op = old[i].op
             /\ Leads(now[i]) = {new[l] : l \in Leads(old[i])}
  BY <1>2, <1>4, <1>5, Fixed
<1>7. IsBlock(now)
  BY <1>2, <1>5, <1>6 DEF IsBlock
<1>8. Instrs(new[b])' = now
  BY DEF Instrs, now
<1>9. Targets(new[b])' = UNION {Leads(now[i]) : i \in 1 .. Len(now)}
  <2>1. Targets(new[b])' = UNION {ToSet(Labels(now[i])) : i \in DOMAIN now}
    BY <1>8 DEF Targets
  <2>2. DOMAIN now = 1 .. Len(now)
    BY <1>5
  <2>3. \A i \in 1 .. Len(now) : ToSet(Labels(now[i])) = Leads(now[i])
    BY <1>5, <1>6, LabelsAre
  <2> QED  BY <2>1, <2>2, <2>3
<1>10. UNION {Leads(now[i]) : i \in 1 .. Len(now)} = {new[c] : c \in Targets(b)}
  BY <1>3, <1>5, <1>6
<1> QED  BY <1>1, <1>7, <1>8, <1>9, <1>10

LEMMA Renumbered ==
  ASSUME WellFormed, NEW new, Numbering(new), bbs' = renumber_labels(new)
  PROVE  WellFormed' /\ DOMAIN bbs' = {new[b] : b \in DOMAIN new}
<1> DEFINE D == {new[b] : b \in DOMAIN new}
<1>1. DOMAIN bbs' = D
  BY DEF renumber_labels
<1>2. IsFiniteSet(D)
  <2> DEFINE f == [b \in DOMAIN new |-> new[b]]
  <2>1. f \in Surjection(DOMAIN new, D)
    BY DEF Surjection
  <2>2. IsFiniteSet(DOMAIN new)
    BY FS_Subset DEF Numbering, WellFormed
  <2> QED  BY <2>1, <2>2, FS_Surjection
<1>3. D \subseteq Nat /\ 0 \in D
  BY DEF Numbering
<1>4. ASSUME NEW l \in D PROVE IsBlock(Instrs(l)') /\ Targets(l)' \subseteq D
  <2>1. PICK b \in DOMAIN new : l = new[b]
    OBVIOUS
  <2>2. IsBlock(Instrs(new[b])') /\ Targets(new[b])' = {new[c] : c \in Targets(b)}
    BY BlockFixed
  <2>3. Targets(b) \subseteq DOMAIN new
    BY DEF Numbering
  <2> QED  BY <2>1, <2>2, <2>3
<1> HIDE DEF D
<1>5. \A l \in DOMAIN bbs' : IsBlock(Instrs(l)') /\ Targets(l)' \subseteq DOMAIN bbs'
  BY <1>1, <1>4
<1>6. WellFormed'
  BY <1>1, <1>2, <1>3, <1>5 DEF WellFormed
<1> QED  BY <1>1, <1>6 DEF D

\* All blocks can be reached from block 0: a set that leads to nothing else has them all.
Closed(S) == 0 \in S /\ \A b \in S : Targets(b) \subseteq S
Connected == \A S \in SUBSET DOMAIN bbs : Closed(S) => S = DOMAIN bbs

LEMMA StillConnected ==
  ASSUME WellFormed, NEW new, Numbering(new), bbs' = renumber_labels(new),
         \A S \in SUBSET DOMAIN new : Closed(S) => S = DOMAIN new
  PROVE  Connected'
<1>0. DOMAIN bbs' = {new[b] : b \in DOMAIN new}
  BY Renumbered
<1> SUFFICES ASSUME NEW T \in SUBSET DOMAIN bbs', Closed(T)' PROVE T = DOMAIN bbs'
  BY DEF Connected
<1>1. 0 \in T /\ \A b \in T : Targets(b)' \subseteq T
  BY DEF Closed
<1> DEFINE S == {b \in DOMAIN new : new[b] \in T}
<1>2. 0 \in S
  BY <1>1 DEF Numbering
<1>3. ASSUME NEW b \in S PROVE Targets(b) \subseteq S
  <2>1. Targets(new[b])' = {new[c] : c \in Targets(b)} /\ Targets(b) \subseteq DOMAIN new
    BY BlockFixed DEF Numbering
  <2> QED  BY <1>1, <2>1
<1>4. S = DOMAIN new
  BY <1>2, <1>3 DEF Closed
<1> QED  BY <1>0, <1>4

-----------------------------------------------------------------------------
(* remove-useless-bbs!. *)

\* One round: the blocks of X, and those that they lead to.
Round(X) == UNION {{b} \cup Targets(b) : b \in X}

\* The useful blocks are the smallest set that leads to nothing else.
LEMMA UsefulAre ==
  ASSUME WellFormed
  PROVE  /\ Useful \subseteq DOMAIN bbs /\ Closed(Useful)
         /\ \A S : Closed(S) => Useful \subseteq S
<1> DEFINE D == DOMAIN bbs
           N == Cardinality(D)
           P == SUBSET D
           Loop(g) == [n \in 0 .. N |-> IF n = 0 THEN {0} ELSE Round(g[n - 1])]
           step == [X \in P |-> Round(X)]
<1>0. N \in Nat /\ IsFiniteSet(D) /\ {0} \in P
  BY FS_CardinalityType DEF WellFormed
<1>1. step \in [P -> P] /\ \A X \in P : step[X] = Round(X)
  BY DEF Round, WellFormed
<1>2. Grows(step, D)
  BY DEF Grows, Round
<1>3. PICK g \in [0 .. N -> P] : IsLoop(g, {0}, step, N)
  <2> HIDE DEF N, P, step
  <2> QED  BY <1>0, <1>1, Rounds
<1>4. g[0] = {0} /\ \A n \in 1 .. N : g[n] = Round(g[n - 1])
  <2>1. ASSUME NEW n \in 1 .. N PROVE g[n] = Round(g[n - 1])
    <3>1. g[n - 1] \in P
      <4> HIDE DEF N, P
      <4> QED  BY <1>0
    <3> QED  BY <1>1, <1>3, <3>1 DEF IsLoop
  <2> QED  BY <1>3, <2>1 DEF IsLoop
<1>5. g = Loop(g)
  <2> HIDE DEF N, P
  <2> QED  BY <1>0, <1>4
<1> DEFINE f == CHOOSE h : h = Loop(h)
<1>6. f = Loop(f)
  BY <1>5
<1>7. Useful = f[N]
  BY DEF Useful, Round
<1>8. f[0] = {0} /\ \A n \in 1 .. N : f[n] = Round(f[n - 1])
  <2>1. \A n \in 0 .. N : Loop(f)[n] = IF n = 0 THEN {0} ELSE Round(f[n - 1])
    OBVIOUS
  <2> HIDE DEF f, Loop, N
  <2> QED  BY <1>0, <1>6, <2>1
<1>9. DOMAIN f = 0 .. N /\ f = [n \in 0 .. N |-> f[n]]
  <2>1. DOMAIN Loop(f) = 0 .. N /\ Loop(f) = [n \in 0 .. N |-> Loop(f)[n]]
    OBVIOUS
  <2> HIDE DEF f, Loop, N
  <2> QED  BY <1>6, <2>1
<1> HIDE DEF f, Loop, N, P
\* Every round stays within the blocks.
<1>10. f \in [0 .. N -> P]
  <2> DEFINE T == {n \in 0 .. N : f[n] \in P}
  <2>1. 0 \in T
    <3>1. 0 \in 0 .. N
      BY <1>0
    <3>2. f[0] \in P
      BY <1>0, <1>8, Zenon
    <3> QED  BY <3>1, <3>2
  <2>2. ASSUME NEW n \in 0 .. N - 1, n \in T PROVE n + 1 \in T
    <3>1. n + 1 \in 1 .. N /\ (n + 1) - 1 = n
      BY <1>0
    <3>2. f[n + 1] = Round(f[n]) /\ step[f[n]] = Round(f[n])
      BY <1>1, <1>8, <2>2, <3>1
    <3> QED  BY <1>1, <2>2, <3>1, <3>2
  <2>3. \A n \in 0 .. N : n \in T
    <3> HIDE DEF T
    <3> QED  BY <1>0, <2>1, <2>2, EveryRoundTo
  <2> QED  BY <1>9, <2>3
<1>11. IsLoop(f, {0}, step, N)
  <2>1. ASSUME NEW n \in 1 .. N PROVE f[n] = step[f[n - 1]]
    <3>1. f[n - 1] \in P
      BY <1>0, <1>10
    <3> QED  BY <1>1, <1>8, <3>1
  <2> QED  BY <1>8, <2>1 DEF IsLoop
<1>12. step[f[N]] = f[N]
  <2>1. Cardinality(D) <= N /\ P = SUBSET D
    BY <1>0 DEF N, P
  <2> HIDE DEF step, D
  <2> QED  BY <1>0, <1>1, <1>2, <1>10, <1>11, <2>1, ComesToRest, SMTT(30)
<1>13. Useful \in P /\ Round(Useful) = Useful
  BY <1>0, <1>1, <1>7, <1>10, <1>12
\* What the first block is in and what every round stays in has them all.
<1>14. ASSUME NEW S, 0 \in S, \A X \in P : X \subseteq S => Round(X) \subseteq S PROVE f[N] \subseteq S
  <2> DEFINE T == {n \in 0 .. N : f[n] \subseteq S}
  <2>1. 0 \in T
    BY <1>0, <1>8, <1>14
  <2>2. ASSUME NEW n \in 0 .. N - 1, n \in T PROVE n + 1 \in T
    <3>1. n + 1 \in 1 .. N /\ (n + 1) - 1 = n /\ n \in 0 .. N
      BY <1>0
    <3>2. f[n + 1] = Round(f[n]) /\ f[n] \in P
      BY <1>8, <1>10, <3>1
    <3> QED  BY <1>14, <2>2, <3>1, <3>2
  <2>3. \A n \in 0 .. N : n \in T
    <3> HIDE DEF T
    <3> QED  BY <1>0, <2>1, <2>2, EveryRoundTo
  <2> QED  BY <1>0, <2>3
<1>15. ASSUME NEW S, Closed(S) PROVE Useful \subseteq S
  <2>1. 0 \in S /\ \A X \in P : X \subseteq S => Round(X) \subseteq S
    BY <1>15 DEF Closed, Round
  <2> QED  BY <1>7, <1>14, <2>1
<1>16. 0 \in Useful
  <2> DEFINE T == {n \in 0 .. N : 0 \in f[n]}
  <2>1. 0 \in T
    BY <1>0, <1>8
  <2>2. ASSUME NEW n \in 0 .. N - 1, n \in T PROVE n + 1 \in T
    <3>1. n + 1 \in 1 .. N /\ (n + 1) - 1 = n /\ n \in 0 .. N
      BY <1>0
    <3>2. f[n + 1] = Round(f[n])
      BY <1>8, <3>1
    <3> QED  BY <2>2, <3>1, <3>2 DEF Round
  <2>3. \A n \in 0 .. N : n \in T
    <3> HIDE DEF T
    <3> QED  BY <1>0, <2>1, <2>2, EveryRoundTo
  <2> QED  BY <1>0, <1>7, <2>3
<1>17. Closed(Useful)
  BY <1>13, <1>16 DEF Closed, Round
<1> QED  BY <1>13, <1>15, <1>17 DEF P

\* The new label of a block is the number of useful blocks before it.
LEMMA Counted ==
  ASSUME NEW U, U \subseteq Nat, IsFiniteSet(U), 0 \in U,
         NEW new, new = [b \in U |-> Cardinality({c \in U : c < b})]
  PROVE  /\ new[0] = 0 /\ \A b \in U : new[b] \in Nat
         /\ \A b, c \in U : new[b] = new[c] => b = c
<1> DEFINE Before(b) == {c \in U : c < b}
<1>1. \A b \in U : IsFiniteSet(Before(b)) /\ new[b] = Cardinality(Before(b)) /\ new[b] \in Nat
  <2> SUFFICES ASSUME NEW b \in U PROVE IsFiniteSet(Before(b)) /\ Cardinality(Before(b)) \in Nat
    OBVIOUS
  <2>1. Before(b) \in SUBSET U
    OBVIOUS
  <2> QED  BY <2>1, FS_Subset, FS_CardinalityType
<1>2. new[0] = 0
  <2>1. ASSUME NEW c \in U PROVE ~(c < 0)
    <3>1. c \in Nat
      OBVIOUS
    <3> QED  BY <3>1
  <2>2. Before(0) = {}
    BY <2>1
  <2> HIDE DEF Before
  <2> QED  BY <1>1, <2>2, FS_EmptySet
<1>3. ASSUME NEW b \in U, NEW c \in U, b < c PROVE new[b] # new[c]
  <2>1. Before(b) \in SUBSET Before(c) /\ Before(b) # Before(c)
    <3>1. b \in Before(c) /\ b \notin Before(b)
      BY <1>3
    <3>2. \A x \in Before(b) : x \in Before(c)
      BY <1>3
    <3> QED  BY <3>1, <3>2
  <2> HIDE DEF Before
  <2> QED  BY <1>1, <2>1, FS_Subset
<1>4. ASSUME NEW b \in U, NEW c \in U, new[b] = new[c] PROVE b = c
  <2>1. b \in Nat /\ c \in Nat
    OBVIOUS
  <2> HIDE DEF Before
  <2> QED  BY <1>3, <1>4, <2>1
<1> QED  BY <1>1, <1>2, <1>4

LEMMA UselessRemoved ==
  ASSUME WellFormed, remove_useless_bbs
  PROVE  WellFormed' /\ Connected'
<1>1. PICK new : new = [b \in Useful |-> Cardinality({c \in Useful : c < b})] /\ bbs' = renumber_labels(new)
  BY DEF remove_useless_bbs
<1>2. Useful \subseteq DOMAIN bbs /\ Closed(Useful) /\ \A S : Closed(S) => Useful \subseteq S
  BY UsefulAre
<1>3. Useful \subseteq Nat /\ IsFiniteSet(Useful) /\ 0 \in Useful /\ DOMAIN new = Useful
  BY <1>1, <1>2, FS_Subset DEF WellFormed, Closed
<1>4. /\ new[0] = 0 /\ \A b \in Useful : new[b] \in Nat
      /\ \A b, c \in Useful : new[b] = new[c] => b = c
  BY <1>1, <1>3, Counted
<1>5. Numbering(new)
  BY <1>2, <1>3, <1>4 DEF Numbering, Closed
<1>6. \A S \in SUBSET DOMAIN new : Closed(S) => S = DOMAIN new
  BY <1>2, <1>3
<1> QED  BY <1>1, <1>5, <1>6, Renumbered, StillConnected

-----------------------------------------------------------------------------
(* reorder!. *)

\* Of a block: what WellFormed says of its instructions.
LEMMA BlockIs ==
  ASSUME WellFormed, NEW b \in DOMAIN bbs
  PROVE  /\ IsBlock(Instrs(b)) /\ Len(Instrs(b)) \in Nat \ {0} /\ DOMAIN Instrs(b) = 1 .. Len(Instrs(b))
         /\ IsInstruction(Jump(b))
         /\ \A i \in 1 .. Len(Instrs(b)) : /\ IsInstruction(Instrs(b)[i])
                                          /\ Leads(Instrs(b)[i]) \subseteq Targets(b)
         /\ Targets(b) = UNION {Leads(Instrs(b)[i]) : i \in 1 .. Len(Instrs(b))}
         /\ Targets(b) \subseteq DOMAIN bbs
<1>1. IsBlock(Instrs(b)) /\ Targets(b) \subseteq DOMAIN bbs
  BY DEF WellFormed
<1>2. Targets(b) = UNION {Leads(Instrs(b)[i]) : i \in 1 .. Len(Instrs(b))}
  BY <1>1, TargetsAre
<1> DEFINE n == Len(Instrs(b))
<1>3. n \in Nat \ {0} /\ DOMAIN Instrs(b) = 1 .. n /\ \A i \in 1 .. n : IsInstruction(Instrs(b)[i])
  BY <1>1 DEF IsBlock
<1>4. Jump(b) = Instrs(b)[n] /\ n \in 1 .. n
  BY <1>3 DEF Jump, Last
<1> HIDE DEF n
<1>5. \A i \in 1 .. n : Leads(Instrs(b)[i]) \subseteq Targets(b)
  BY <1>2 DEF n
<1> QED  BY <1>1, <1>2, <1>3, <1>4, <1>5 DEF n

LEMMA RefsAre ==
  ASSUME WellFormed, NEW b \in DOMAIN bbs
  PROVE  /\ IsList(LabelRefs(b)) /\ ToSet(LabelRefs(b)) \subseteq DOMAIN bbs
         /\ \A i \in 1 .. Len(Instrs(b)) :
              Instrs(b)[i].op \in Calls => Instrs(b)[i].arg \in ToSet(LabelRefs(b))
<1> DEFINE D == DOMAIN bbs
           S == Seq(D)
           N == Len(Instrs(b))
           Refs(i) == IF Instrs(b)[i].op \in Calls THEN <<Instrs(b)[i].arg>> ELSE <<>>
           Loop(g) == [n \in 0 .. N |-> IF n = 0 THEN <<>> ELSE g[n - 1] \o Refs(n)]
           step == [n \in 1 .. N |-> [s \in S |-> s \o Refs(n)]]
<1>0. N \in Nat /\ <<>> \in S /\ \A n \in 1 .. N : Refs(n) \in S
  <2>1. N \in Nat /\ <<>> \in S
    BY BlockIs, EmptySeq
  <2>2. ASSUME NEW n \in 1 .. N PROVE Refs(n) \in S
    <3>1. CASE Instrs(b)[n].op \in Calls
      <4>1. Leads(Instrs(b)[n]) = {Instrs(b)[n].arg}
        BY <3>1 DEF Leads, Calls
      <4>2. Instrs(b)[n].arg \in D
        BY <4>1, BlockIs
      <4> HIDE DEF D
      <4> QED  BY <3>1, <4>2
    <3>2. CASE Instrs(b)[n].op \notin Calls
      BY <2>1, <3>2
    <3> QED  BY <3>1, <3>2
  <2> QED  BY <2>1, <2>2
<1> HIDE DEF D, N, Refs, S
<1>1. \A s \in S : \A n \in 1 .. N : s \o Refs(n) \in S
  BY <1>0, ConcatProperties DEF S
<1>2. step \in [1 .. N -> [S -> S]] /\ \A n \in 1 .. N : \A s \in S : step[n][s] = s \o Refs(n)
  BY <1>1
<1>3. PICK g \in [0 .. N -> S] : IsRun(g, <<>>, step, N)
  <2> HIDE DEF step
  <2> QED  BY <1>0, <1>2, NumberedRounds
<1>4. g[0] = <<>> /\ \A n \in 1 .. N : g[n] = g[n - 1] \o Refs(n)
  <2>1. ASSUME NEW n \in 1 .. N PROVE g[n] = g[n - 1] \o Refs(n)
    <3>1. g[n - 1] \in S
      BY <1>0
    <3> HIDE DEF step
    <3> QED  BY <1>2, <1>3, <3>1 DEF IsRun
  <2> HIDE DEF step
  <2> QED  BY <1>3, <2>1 DEF IsRun
<1>5. g = Loop(g)
  BY <1>0, <1>4, SMTT(30)
<1> DEFINE f == CHOOSE h : h = Loop(h)
<1>6. f = Loop(f)
  BY <1>5
<1>7. LabelRefs(b) = f[N]
  BY DEF LabelRefs, Refs, N
<1>8. f[0] = <<>> /\ \A n \in 1 .. N : f[n] = f[n - 1] \o Refs(n)
  <2>1. \A n \in 0 .. N : Loop(f)[n] = IF n = 0 THEN <<>> ELSE f[n - 1] \o Refs(n)
    OBVIOUS
  <2> HIDE DEF f, Loop
  <2>2. \A n \in 0 .. N : f[n] = IF n = 0 THEN <<>> ELSE f[n - 1] \o Refs(n)
    BY <1>6, <2>1
  <2>3. 0 \in 0 .. N /\ \A n \in 1 .. N : n \in 0 .. N /\ n # 0
    BY <1>0
  <2> QED  BY <2>2, <2>3, Zenon
<1> HIDE DEF f, Loop, step
<1> DEFINE T == {n \in 0 .. N : f[n] \in S /\ \A i \in 1 .. n : ToSet(Refs(i)) \subseteq ToSet(f[n])}
<1>9. 0 \in T
  <2>1. \A i \in 1 .. 0 : FALSE
    OBVIOUS
  <2> QED  BY <1>0, <1>8, <2>1
<1>10. ASSUME NEW n \in 0 .. N - 1, n \in T PROVE n + 1 \in T
  <2>1. n + 1 \in 1 .. N /\ n + 1 \in 0 .. N /\ (n + 1) - 1 = n
    BY <1>0
  <2>2. f[n + 1] = f[n] \o Refs(n + 1) /\ f[n] \in S /\ Refs(n + 1) \in S
    BY <1>0, <1>8, <1>10, <2>1
  <2>3. ToSet(f[n + 1]) = ToSet(f[n]) \cup ToSet(Refs(n + 1))
    BY <2>2, ListIs, JoinedSet DEF S
  <2>4. f[n + 1] \in S
    BY <1>1, <2>1, <2>2
  <2>5. ASSUME NEW i \in 1 .. n + 1 PROVE ToSet(Refs(i)) \subseteq ToSet(f[n + 1])
    <3>1. i = n + 1 \/ i \in 1 .. n
      BY <1>0
    <3> QED  BY <1>10, <2>3, <3>1
  <2> QED  BY <2>1, <2>4, <2>5
<1>11. N \in T
  <2>1. \A n \in 0 .. N : n \in T
    <3> HIDE DEF T
    <3> QED  BY <1>0, <1>9, <1>10, EveryRoundTo
  <2> HIDE DEF T
  <2> QED  BY <1>0, <2>1
<1>12. LabelRefs(b) \in S /\ \A i \in 1 .. N : ToSet(Refs(i)) \subseteq ToSet(LabelRefs(b))
  BY <1>7, <1>11
<1>13. ASSUME NEW i \in 1 .. N, Instrs(b)[i].op \in Calls PROVE Instrs(b)[i].arg \in ToSet(LabelRefs(b))
  <2>1. ToSet(Refs(i)) = {Instrs(b)[i].arg}
    BY <1>13, OneIs DEF Refs
  <2> QED  BY <1>12, <2>1
<1>14. IsList(LabelRefs(b)) /\ DOMAIN LabelRefs(b) = 1 .. Len(LabelRefs(b))
  BY <1>12, ListIs DEF S
<1>15. ToSet(LabelRefs(b)) \subseteq D
  BY <1>12, <1>14, ElementOfSeq DEF S, ToSet
<1> QED  BY <1>13, <1>14, <1>15 DEF D, N

\* The labels of the jump of a block, in the order in which they are placed.
Places(b) == IF Jump(b).op \in Calls THEN <<>> ELSE Reverse(Labels(Jump(b)))
ElseOpen(b) == Jump(b).op = "goto-if-false" /\ 1 \in Open(b, Places(b))

\* Of these one is placed next, and the other one, if both are open, later.
LEMMA NextPlaced ==
  ASSUME NEW b, IsInstruction(Jump(b)), NEW next, next = FirstUnscheduled(b, Places(b))
  PROVE  /\ next \subseteq Leads(Jump(b)) /\ \A l \in next : l # b /\ Unscheduled(l)
         /\ \A l, m \in next : l = m
         /\ ElseOpen(b) => Places(b)[2] \in Leads(Jump(b))
         /\ \A l \in Leads(Jump(b)) : \/ Jump(b).op \in Calls \/ l = b \/ ~Unscheduled(l) \/ l \in next
                                      \/ ElseOpen(b) /\ l = Places(b)[2]
<1> DEFINE jump == Jump(b)
<1>1. CASE jump.op = "goto-if-false"
  <2> DEFINE x == jump.arg[1]
             y == jump.arg[2]
  <2>1. Leads(jump) = {x, y} /\ jump.op \notin Calls
    BY <1>1 DEF Leads, Calls
  <2>2. Places(b) = Reverse(<<x, y>>)
    <3>1. Labels(jump) = jump.arg /\ jump.arg = <<x, y>>
      BY <1>1 DEF Labels, Calls, IsInstruction
    <3> QED  BY <2>1, <3>1 DEF Places
  <2> HIDE DEF x, y
  <2>3. Reverse(<<x, y>>) = <<y, x>>
    <3>1. Reverse(<<x, y>>) = [i \in 1 .. 2 |-> <<x, y>>[(2 - i) + 1]]
      BY DEF Reverse
    <3>2. <<y, x>> = [i \in 1 .. 2 |-> <<y, x>>[i]]
      OBVIOUS
    <3>3. \A i \in 1 .. 2 : <<x, y>>[(2 - i) + 1] = <<y, x>>[i]
      <4>1. \A i \in 1 .. 2 : i = 1 \/ i = 2
        OBVIOUS
      <4>2. (2 - 1) + 1 = 2 /\ (2 - 2) + 1 = 1
        OBVIOUS
      <4>3. <<x, y>>[1] = x /\ <<x, y>>[2] = y /\ <<y, x>>[1] = y /\ <<y, x>>[2] = x
        OBVIOUS
      <4> QED  BY <4>1, <4>2, <4>3
    <3> QED  BY <3>1, <3>2, <3>3
  <2>4. Places(b)[1] = y /\ Places(b)[2] = x /\ DOMAIN Places(b) = {1, 2}
    BY <2>2, <2>3
  <2>5. /\ 1 \in Open(b, Places(b)) <=> y # b /\ Unscheduled(y)
        /\ 2 \in Open(b, Places(b)) <=> x # b /\ Unscheduled(x)
        /\ Open(b, Places(b)) \subseteq {1, 2}
    BY <2>4 DEF Open
  <2>6. CASE 1 \in Open(b, Places(b))
    <3>1. next = {y}
      <4>1. {j \in Open(b, Places(b)) : \A k \in Open(b, Places(b)) : j <= k} = {1}
        BY <2>5, <2>6
      <4> QED  BY <2>4, <4>1 DEF FirstUnscheduled
    <3> QED  BY <1>1, <2>1, <2>4, <2>5, <2>6, <3>1 DEF ElseOpen
  <2>7. CASE 1 \notin Open(b, Places(b)) /\ 2 \in Open(b, Places(b))
    <3>1. next = {x}
      <4>1. {j \in Open(b, Places(b)) : \A k \in Open(b, Places(b)) : j <= k} = {2}
        BY <2>5, <2>7
      <4> QED  BY <2>4, <4>1 DEF FirstUnscheduled
    <3> QED  BY <1>1, <2>1, <2>4, <2>5, <2>7, <3>1 DEF ElseOpen
  <2>8. CASE 1 \notin Open(b, Places(b)) /\ 2 \notin Open(b, Places(b))
    <3>1. next = {}
      BY <2>5, <2>8 DEF FirstUnscheduled
    <3> QED  BY <1>1, <2>1, <2>5, <2>8, <3>1 DEF ElseOpen
  <2> QED  BY <2>6, <2>7, <2>8
<1>2. CASE jump.op = "goto"
  <2> DEFINE x == jump.arg
  <2>1. Leads(jump) = {x} /\ Labels(jump) = <<x>> /\ ~ElseOpen(b) /\ Places(b) = Reverse(<<x>>)
    BY <1>2 DEF Leads, Labels, Calls, ElseOpen, Places
  <2> HIDE DEF x
  <2>2. Reverse(<<x>>) = [i \in 1 .. 1 |-> <<x>>[(1 - i) + 1]] /\ <<x>>[1] = x
    BY DEF Reverse
  <2>3. \A i \in 1 .. 1 : i = 1 /\ (1 - i) + 1 = 1
    OBVIOUS
  <2>4. Places(b)[1] = x /\ DOMAIN Places(b) = {1}
    BY <2>1, <2>2, <2>3
  <2>5. Open(b, Places(b)) = {i \in {1} : x # b /\ Unscheduled(x)}
    BY <2>4 DEF Open
  <2>6. next = {i \in {x} : x # b /\ Unscheduled(x)}
    BY <2>4, <2>5 DEF FirstUnscheduled
  <2> QED  BY <1>2, <2>1, <2>6
<1>3. CASE jump.op # "goto" /\ jump.op # "goto-if-false"
  <2>1. Places(b) = <<>> /\ ~ElseOpen(b)
    <3>1. CASE jump.op \in Calls
      BY <1>3, <3>1 DEF Places, ElseOpen
    <3>2. CASE jump.op \notin Calls
      <4>1. Labels(jump) = <<>>
        BY <1>3, <3>2 DEF Labels
      <4>2. Reverse(<<>>) = <<>>
        BY DEF Reverse
      <4> QED  BY <1>3, <3>2, <4>1, <4>2 DEF Places, ElseOpen
    <3> QED  BY <3>1, <3>2
  <2>2. next = {}
    <3>1. Open(b, Places(b)) = {}
      BY <2>1 DEF Open
    <3> QED  BY <3>1 DEF FirstUnscheduled
  <2>3. jump.op \in Calls \/ Leads(jump) = {}
    BY <1>3 DEF Leads
  <2> QED  BY <2>1, <2>2, <2>3
<1> QED  BY <1>1, <1>2, <1>3

\* While reorder! runs: the blocks that have a place are numbered in their order, and what
\* they lead to has one, is placed now or is on the work list.
ReorderInv ==
  /\ WellFormed /\ Connected
  /\ IsList(worklist) /\ ToSet(worklist) \subseteq DOMAIN bbs
  /\ here \subseteq DOMAIN bbs \ DOMAIN done /\ \A b, c \in here : b = c
  /\ DOMAIN done \subseteq DOMAIN bbs
  /\ \A b \in DOMAIN done : done[b] \in Nat /\ done[b] < Cardinality(DOMAIN done)
  /\ \A b, c \in DOMAIN done : done[b] = done[c] => b = c
  /\ IF DOMAIN done = {} THEN here = {0} ELSE 0 \in DOMAIN done /\ done[0] = 0
  /\ \A b \in DOMAIN done : Targets(b) \subseteq DOMAIN done \cup here \cup ToSet(worklist)

LEMMA HerePlaced ==
  ASSUME ReorderInv, ScheduleHere
  PROVE  ReorderInv'
<1>1. PICK b \in here : schedule_here(b)
  BY DEF ScheduleHere
<1> DEFINE D == DOMAIN done
           N == Cardinality(D)
           labels == Places(b)
           put == IF ElseOpen(b) THEN <<labels[2]>> ELSE <<>>
<1>2. /\ done' = [c \in D \cup {b} |-> IF c = b THEN N ELSE done[c]]
      /\ here' = FirstUnscheduled(b, labels)
      /\ worklist' = (put \o LabelRefs(b)) \o worklist
      /\ bbs' = bbs
  BY <1>1 DEF schedule_here, ScheduleHere, Places, ElseOpen
<1>3. b \in DOMAIN bbs /\ b \notin D /\ WellFormed /\ D \subseteq DOMAIN bbs
  BY DEF ReorderInv
<1>4. /\ here' \subseteq Leads(Jump(b)) /\ \A l \in here' : l # b /\ l \notin D
      /\ \A l, m \in here' : l = m
      /\ ElseOpen(b) => labels[2] \in Leads(Jump(b))
      /\ \A l \in Leads(Jump(b)) : \/ Jump(b).op \in Calls \/ l = b \/ l \in D \/ l \in here'
                                   \/ ElseOpen(b) /\ l = labels[2]
  BY <1>2, <1>3, BlockIs, NextPlaced DEF Unscheduled
<1>5. Leads(Jump(b)) \subseteq Targets(b) /\ Targets(b) \subseteq DOMAIN bbs
  <2>1. Jump(b) = Instrs(b)[Len(Instrs(b))] /\ Len(Instrs(b)) \in 1 .. Len(Instrs(b))
    BY <1>3, BlockIs DEF Jump, Last
  <2> QED  BY <1>3, <2>1, BlockIs
<1>6. IsList(put) /\ ToSet(put) = IF ElseOpen(b) THEN {labels[2]} ELSE {}
  BY OneIs, NoneIs
<1>7. /\ IsList(LabelRefs(b)) /\ ToSet(LabelRefs(b)) \subseteq DOMAIN bbs
      /\ \A i \in 1 .. Len(Instrs(b)) :
           Instrs(b)[i].op \in Calls => Instrs(b)[i].arg \in ToSet(LabelRefs(b))
  BY <1>3, RefsAre
<1>8. /\ IsList(worklist')
      /\ ToSet(worklist') = ToSet(put) \cup ToSet(LabelRefs(b)) \cup ToSet(worklist)
  <2> HIDE DEF put
  <2>1. IsList(put \o LabelRefs(b)) /\ ToSet(put \o LabelRefs(b)) = ToSet(put) \cup ToSet(LabelRefs(b))
    BY <1>6, <1>7, Joined, JoinedSet
  <2>2. IsList(worklist)
    BY DEF ReorderInv
  <2> QED  BY <1>2, <2>1, <2>2, Joined, JoinedSet
<1>9. ToSet(worklist') \subseteq DOMAIN bbs
  BY <1>4, <1>5, <1>6, <1>7, <1>8 DEF ReorderInv
<1> HIDE DEF put, labels
<1>10. DOMAIN done' = D \cup {b} /\ done'[b] = N /\ \A c \in D : done'[c] = done[c]
  BY <1>2, <1>3
<1>11. N \in Nat /\ Cardinality(D \cup {b}) = N + 1
  <2>1. IsFiniteSet(D)
    BY <1>3, FS_Subset DEF WellFormed
  <2> QED  BY <1>3, <2>1, FS_AddElement, FS_CardinalityType
<1>12. \A c \in DOMAIN done' : done'[c] \in Nat /\ done'[c] < Cardinality(DOMAIN done')
  <2> SUFFICES ASSUME NEW c \in D \cup {b} PROVE done'[c] \in Nat /\ done'[c] < N + 1
    BY <1>10, <1>11
  <2>1. CASE c = b
    BY <1>10, <1>11, <2>1
  <2>2. CASE c \in D
    <3>1. done[c] \in Nat /\ done[c] < N
      BY <2>2 DEF ReorderInv
    <3> HIDE DEF N
    <3> QED  BY <1>10, <1>11, <2>2, <3>1
  <2> QED  BY <2>1, <2>2
<1>13. \A c, d \in DOMAIN done' : done'[c] = done'[d] => c = d
  <2> SUFFICES ASSUME NEW c \in D \cup {b}, NEW d \in D \cup {b}, done'[c] = done'[d] PROVE c = d
    BY <1>10
  <2>1. \A e \in D : done'[e] \in Nat /\ done'[e] < N
    BY <1>10 DEF ReorderInv
  <2>2. \A e \in D : done'[e] # N
    <3> HIDE DEF N
    <3> QED  BY <1>11, <2>1
  <2>3. c \in D /\ d \in D => c = d
    BY <1>10 DEF ReorderInv
  <2> QED  BY <1>10, <2>2, <2>3
<1>14. 0 \in DOMAIN done' /\ done'[0] = 0
  <2>1. CASE D = {}
    <3>1. b = 0 /\ N = 0
      BY <2>1, FS_EmptySet DEF ReorderInv
    <3> QED  BY <1>10, <3>1
  <2>2. CASE D # {}
    BY <1>10, <2>2 DEF ReorderInv
  <2> QED  BY <2>1, <2>2
<1>15. ASSUME NEW c \in DOMAIN done' PROVE Targets(c) \subseteq DOMAIN done' \cup here' \cup ToSet(worklist')
  <2>1. CASE c \in D
    <3>1. Targets(c) \subseteq D \cup here \cup ToSet(worklist) /\ here = {b}
      BY <2>1 DEF ReorderInv
    <3> QED  BY <1>8, <1>10, <3>1
  <2>2. CASE c = b
    <3> SUFFICES ASSUME NEW i \in 1 .. Len(Instrs(b)), NEW l \in Leads(Instrs(b)[i])
                 PROVE  l \in DOMAIN done' \cup here' \cup ToSet(worklist')
      BY <1>3, <2>2, BlockIs
    <3>1. CASE Instrs(b)[i].op \in Calls
      <4>1. l = Instrs(b)[i].arg
        BY <3>1 DEF Leads, Calls
      <4> QED  BY <1>7, <1>8, <3>1, <4>1
    <3>2. CASE Instrs(b)[i].op \notin Calls
      <4>1. Instrs(b)[i].op \in {"goto", "goto-if-false"}
        BY <3>2 DEF Leads
      <4>2. i = Len(Instrs(b))
        BY <1>3, <4>1, BlockIs DEF IsBlock
      <4>3. Instrs(b)[i] = Jump(b)
        BY <4>2 DEF Jump, Last
      <4> QED  BY <1>4, <1>6, <1>8, <1>10, <3>2, <4>3 DEF put
    <3> QED  BY <3>1, <3>2
  <2> QED  BY <1>10, <2>1, <2>2
<1>16. WellFormed' /\ Connected' /\ \A c : Targets(c)' = Targets(c)
  <2>1. \A c : Instrs(c)' = Instrs(c)
    BY <1>2 DEF Instrs
  <2>2. \A c : Targets(c)' = Targets(c)
    BY <2>1 DEF Targets
  <2>3. WellFormed'
    BY <1>2, <1>3, <2>1, <2>2 DEF WellFormed
  <2>4. Connected'
    <3>1. Connected
      BY DEF ReorderInv
    <3> QED  BY <1>2, <2>2, <3>1 DEF Connected, Closed
  <2> QED  BY <2>2, <2>3, <2>4
<1>17. here' \subseteq DOMAIN bbs' \ DOMAIN done' /\ DOMAIN done' \subseteq DOMAIN bbs'
  BY <1>2, <1>3, <1>4, <1>5, <1>10
<1> QED  BY <1>2, <1>4, <1>8, <1>9, <1>12, <1>13, <1>14, <1>15, <1>16, <1>17 DEF ReorderInv

LEMMA WithoutHead ==
  ASSUME NEW s, IsList(s), s # <<>>
  PROVE  IsList(Tail(s)) /\ ToSet(s) = {Head(s)} \cup ToSet(Tail(s))
<1> DEFINE S == {s[i] : i \in 1 .. Len(s)}
<1>1. s \in Seq(S) /\ DOMAIN s = 1 .. Len(s)
  BY IsSequence
<1> HIDE DEF S
<1>2. /\ Tail(s) \in Seq(S) /\ Len(Tail(s)) = Len(s) - 1
      /\ \A i \in 1 .. Len(Tail(s)) : Tail(s)[i] = s[i + 1]
  BY <1>1, HeadTailProperties
<1>3. Len(s) \in Nat \ {0} /\ Head(s) = s[1]
  BY <1>1, EmptySeq
<1>4. IsList(Tail(s))
  BY <1>2, ListIs
<1>5. ASSUME NEW x \in ToSet(s) PROVE x \in {Head(s)} \cup ToSet(Tail(s))
  <2>1. PICK i \in 1 .. Len(s) : x = s[i]
    BY <1>5, ListSet
  <2>2. CASE i = 1
    BY <1>3, <2>1, <2>2
  <2>3. CASE i # 1
    <3>1. i - 1 \in 1 .. Len(Tail(s)) /\ (i - 1) + 1 = i
      BY <1>2, <1>3, <2>3
    <3>2. Tail(s)[i - 1] = x
      BY <1>2, <2>1, <3>1
    <3> QED  BY <1>4, <3>1, <3>2, ListSet
  <2> QED  BY <2>2, <2>3
<1>6. Head(s) \in ToSet(s)
  <2>1. 1 \in 1 .. Len(s)
    BY <1>3
  <2> QED  BY <1>3, <2>1, ListSet
<1>7. ASSUME NEW x \in ToSet(Tail(s)) PROVE x \in ToSet(s)
  <2>1. PICK i \in 1 .. Len(Tail(s)) : x = Tail(s)[i]
    BY <1>4, <1>7, ListSet
  <2>2. i + 1 \in 1 .. Len(s) /\ x = s[i + 1]
    BY <1>2, <1>3, <2>1
  <2> QED  BY <2>2, ListSet
<1> QED  BY <1>4, <1>5, <1>6, <1>7

LEMMA BlocksStay ==
  ASSUME bbs' = bbs
  PROVE  /\ WellFormed' = WellFormed /\ Connected' = Connected
         /\ \A b : Targets(b)' = Targets(b) /\ Instrs(b)' = Instrs(b)
<1>1. \A b : Instrs(b)' = Instrs(b)
  BY DEF Instrs
<1>2. \A b : Targets(b)' = Targets(b)
  BY <1>1 DEF Targets
<1> QED  BY <1>1, <1>2 DEF WellFormed, Connected, Closed

LEMMA TodoTaken ==
  ASSUME ReorderInv, schedule_todo
  PROVE  ReorderInv'
<1>1. /\ here = {} /\ worklist # <<>> /\ worklist' = Tail(worklist) /\ done' = done /\ bbs' = bbs
      /\ here' = IF Head(worklist) \notin DOMAIN done THEN {Head(worklist)} ELSE {}
  BY DEF schedule_todo, Unscheduled
<1>2. IsList(worklist') /\ ToSet(worklist) = {Head(worklist)} \cup ToSet(worklist')
  BY <1>1, WithoutHead DEF ReorderInv
<1>3. WellFormed' /\ Connected' /\ \A b : Targets(b)' = Targets(b)
  BY <1>1, BlocksStay DEF ReorderInv
<1>4. ToSet(worklist') \subseteq DOMAIN bbs' /\ here' \subseteq DOMAIN bbs' \ DOMAIN done'
  BY <1>1, <1>2 DEF ReorderInv
<1>5. \A b, c \in here' : b = c
  BY <1>1
<1>6. 0 \in DOMAIN done' /\ done'[0] = 0
  BY <1>1 DEF ReorderInv
<1>7. \A b \in DOMAIN done' : Targets(b)' \subseteq DOMAIN done' \cup here' \cup ToSet(worklist')
  <2>1. \A b \in DOMAIN done : Targets(b) \subseteq DOMAIN done \cup ToSet(worklist)
    BY <1>1 DEF ReorderInv
  <2> QED  BY <1>1, <1>2, <1>3, <2>1
<1> QED  BY <1>1, <1>2, <1>3, <1>4, <1>5, <1>6, <1>7 DEF ReorderInv

\* In the end every block has a place.
LEMMA AllPlaced ==
  ASSUME ReorderInv, Reordered
  PROVE  WellFormed' /\ Connected'
<1>1. here = {} /\ worklist = <<>>
  BY DEF Reordered
<1>2. DOMAIN done = DOMAIN bbs
  <2>1. 0 \in DOMAIN done /\ DOMAIN done \subseteq DOMAIN bbs
    BY <1>1 DEF ReorderInv
  <2>2. \A b \in DOMAIN done : Targets(b) \subseteq DOMAIN done
    BY <1>1, NoneIs DEF ReorderInv
  <2> QED  BY <2>1, <2>2 DEF ReorderInv, Connected, Closed
<1>3. PICK new : new = [b \in DOMAIN bbs |-> IF Unscheduled(b) THEN b ELSE done[b]] /\ bbs' = renumber_labels(new)
  BY DEF Reordered
<1>4. DOMAIN new = DOMAIN bbs /\ \A b \in DOMAIN bbs : new[b] = done[b]
  BY <1>2, <1>3 DEF Unscheduled
<1>5. WellFormed /\ Connected
  BY DEF ReorderInv
<1>6. Numbering(new)
  <2>1. new[0] = 0 /\ 0 \in DOMAIN new
    BY <1>1, <1>2, <1>4, <1>5 DEF ReorderInv, WellFormed
  <2>2. \A b \in DOMAIN new : new[b] \in Nat /\ Targets(b) \subseteq DOMAIN new
    BY <1>2, <1>4, <1>5 DEF ReorderInv, WellFormed
  <2>3. \A b, c \in DOMAIN new : new[b] = new[c] => b = c
    BY <1>2, <1>4 DEF ReorderInv
  <2> QED  BY <1>4, <2>1, <2>2, <2>3 DEF Numbering
<1>7. \A S \in SUBSET DOMAIN new : Closed(S) => S = DOMAIN new
  BY <1>4, <1>5 DEF Connected
<1> QED  BY <1>3, <1>5, <1>6, <1>7, Renumbered, StillConnected

-----------------------------------------------------------------------------
(* The work list of linearize. *)

Pairs(D, P) == [label : D, pos : 0 .. P, rest : Nat]
Lists(D, P) == [cells : Seq(Pairs(D, P)), first : Nat, last : Nat]

\* The pairs p follow each other from the first to the last one of the list.
Chain(l, p) ==
  /\ p \in Seq(1 .. Len(l.cells)) /\ Len(p) <= Len(l.cells)
  /\ \A i, j \in 1 .. Len(p) : p[i] = p[j] => i = j
  /\ \A i \in 1 .. Len(p) : l.cells[p[i]].rest = IF i = Len(p) THEN 0 ELSE p[i + 1]
  /\ IF Len(p) = 0 THEN l.first = 0 /\ l.last = 0 ELSE l.first = p[1] /\ l.last = p[Len(p)]

\* A list that knows its end, with the labels N on it.
Named(l, p) == {l.cells[p[i]].label : i \in 1 .. Len(p)}
Work(l, D, P, N) == l \in Lists(D, P) /\ \E p : Chain(l, p) /\ Named(l, p) = N

\* The pairs of a list and one more.
Longer(cells, l, D, P, pair) ==
  /\ cells \in Seq(Pairs(D, P)) /\ Len(l.cells) \in Nat /\ Len(cells) = Len(l.cells) + 1
  /\ DOMAIN cells = 1 .. Len(l.cells) + 1
  /\ \A i \in 1 .. Len(l.cells) : cells[i] = l.cells[i] /\ cells[i] \in Pairs(D, P)
  /\ cells[Len(l.cells) + 1] = pair

LEMMA PairMade ==
  ASSUME NEW D, NEW P \in Nat, NEW l \in Lists(D, P), NEW label \in D, NEW pos \in 0 .. P, NEW rest \in Nat,
         NEW pair, pair = [label |-> label, pos |-> pos, rest |-> rest],
         NEW cells, cells = Append(l.cells, pair)
  PROVE  Longer(cells, l, D, P, pair)
<1> DEFINE R == Pairs(D, P)
<1>1. pair \in R /\ l.cells \in Seq(R)
  BY DEF Pairs, Lists
<1> HIDE DEF R
<1>2. /\ cells \in Seq(R) /\ Len(cells) = Len(l.cells) + 1 /\ Len(l.cells) \in Nat
      /\ \A i \in 1 .. Len(l.cells) : cells[i] = l.cells[i]
      /\ cells[Len(l.cells) + 1] = pair
  BY <1>1, AppendProperties, LenProperties
<1>3. DOMAIN cells = 1 .. Len(l.cells) + 1 /\ \A i \in 1 .. Len(l.cells) : cells[i] \in R
  BY <1>1, <1>2, LenProperties
<1> QED  BY <1>2, <1>3 DEF R, Longer

LEMMA HeadPut ==
  ASSUME NEW D, NEW P \in Nat, NEW l, NEW N, Work(l, D, P, N), NEW label \in D, NEW pos \in 0 .. P
  PROVE  Work(ScheduleHead(l, label, pos), D, P, N \cup {label})
<1> DEFINE n == Len(l.cells)
           t == ScheduleHead(l, label, pos)
           cells == Append(l.cells, [label |-> label, pos |-> pos, rest |-> l.first])
<1>1. PICK p : Chain(l, p) /\ Named(l, p) = N
  BY DEF Work
<1>2. l \in Lists(D, P) /\ l.first \in Nat /\ l.last \in Nat
  BY DEF Work, Lists
<1>3. /\ cells \in Seq(Pairs(D, P)) /\ n \in Nat /\ Len(cells) = n + 1
      /\ \A i \in 1 .. n : cells[i] = l.cells[i]
      /\ cells[n + 1] = [label |-> label, pos |-> pos, rest |-> l.first]
  <2> DEFINE rest == l.first
             pair == [label |-> label, pos |-> pos, rest |-> rest]
  <2>1. cells = Append(l.cells, pair) /\ rest \in Nat
    BY <1>2
  <2>2. pair = [label |-> label, pos |-> pos, rest |-> rest]
    OBVIOUS
  <2> HIDE DEF cells, rest, pair
  <2>3. Longer(cells, l, D, P, pair)
    BY <1>2, <2>1, <2>2, PairMade
  <2> QED  BY <2>2, <2>3 DEF rest, Longer
<1>4. t = [cells |-> cells, first |-> n + 1, last |-> IF l.last = 0 THEN n + 1 ELSE l.last]
  BY DEF ScheduleHead
<1> HIDE DEF cells, t, n
<1>5. t \in Lists(D, P) /\ t.cells = cells /\ t.first = n + 1 /\ t.last = IF l.last = 0 THEN n + 1 ELSE l.last
  BY <1>2, <1>3, <1>4 DEF Lists
<1> DEFINE q == <<n + 1>> \o p
<1>6. /\ p \in Seq(1 .. n) /\ Len(p) \in Nat /\ Len(p) <= n
      /\ \A i \in 1 .. Len(p) : p[i] \in 1 .. n
  <2>1. p \in Seq(1 .. n) /\ Len(p) <= n
    BY <1>1 DEF Chain, n
  <2> QED  BY <2>1, LenProperties, ElementOfSeq
<1>7. /\ q \in Seq(1 .. n + 1) /\ Len(q) = Len(p) + 1 /\ q[1] = n + 1
      /\ \A i \in 1 .. Len(p) : q[i + 1] = p[i]
  <2>1. <<n + 1>> \in Seq(1 .. n + 1) /\ Len(<<n + 1>>) = 1 /\ <<n + 1>>[1] = n + 1
    BY <1>3
  <2>2. p \in Seq(1 .. n + 1)
    <3>1. 1 .. n \subseteq 1 .. n + 1
      BY <1>3
    <3> QED  BY <1>6, <3>1, SeqMonotonic
  <2>3. /\ q \in Seq(1 .. n + 1) /\ Len(q) = 1 + Len(p)
        /\ \A i \in 1 .. 1 + Len(p) : q[i] = IF i <= 1 THEN <<n + 1>>[i] ELSE p[i - 1]
    <3> DEFINE one == <<n + 1>>
    <3>1. one \in Seq(1 .. n + 1) /\ Len(one) = 1
      BY <2>1
    <3> HIDE DEF one
    <3>2. /\ one \o p \in Seq(1 .. n + 1) /\ Len(one \o p) = Len(one) + Len(p)
          /\ \A i \in 1 .. Len(one) + Len(p) : (one \o p)[i] = IF i <= Len(one) THEN one[i] ELSE p[i - Len(one)]
      BY <2>2, <3>1, ConcatProperties
    <3> QED  BY <3>1, <3>2 DEF one
  <2> HIDE DEF q
  <2>4. q[1] = n + 1
    BY <1>6, <2>1, <2>3
  <2>5. ASSUME NEW i \in 1 .. Len(p) PROVE q[i + 1] = p[i]
    <3>1. i + 1 \in 1 .. 1 + Len(p) /\ ~(i + 1 <= 1) /\ (i + 1) - 1 = i
      BY <1>6
    <3> QED  BY <2>3, <3>1
  <2>6. Len(q) = Len(p) + 1
    BY <1>6, <2>3
  <2> QED  BY <2>3, <2>4, <2>5, <2>6
<1> HIDE DEF q
\* A place behind the first one is one of p.
<1>8. \A i \in 1 .. Len(q) : i = 1 \/ (i - 1 \in 1 .. Len(p) /\ i = (i - 1) + 1 /\ q[i] = p[i - 1] /\ q[i] \in 1 .. n)
  <2> SUFFICES ASSUME NEW i \in 1 .. Len(q), i # 1
               PROVE  i - 1 \in 1 .. Len(p) /\ i = (i - 1) + 1 /\ q[i] = p[i - 1] /\ q[i] \in 1 .. n
    OBVIOUS
  <2>1. i - 1 \in 1 .. Len(p) /\ i = (i - 1) + 1
    BY <1>6, <1>7
  <2> QED  BY <1>6, <1>7, <2>1
<1>9. ASSUME NEW i \in 1 .. Len(q), NEW j \in 1 .. Len(q), q[i] = q[j] PROVE i = j
  <2>1. CASE i = 1 /\ j # 1
    BY <1>3, <1>7, <1>8, <1>9, <2>1
  <2>2. CASE i # 1 /\ j = 1
    BY <1>3, <1>7, <1>8, <1>9, <2>2
  <2>3. CASE i # 1 /\ j # 1
    <3>1. \A a, b \in 1 .. Len(p) : p[a] = p[b] => a = b
      BY <1>1 DEF Chain
    <3>2. i - 1 \in 1 .. Len(p) /\ j - 1 \in 1 .. Len(p) /\ p[i - 1] = p[j - 1]
      BY <1>8, <1>9, <2>3
    <3>3. i - 1 = j - 1
      BY <3>1, <3>2
    <3> QED  BY <1>8, <2>3, <3>3
  <2> QED  BY <2>1, <2>2, <2>3
<1>10. ASSUME NEW i \in 1 .. Len(q) PROVE t.cells[q[i]].rest = IF i = Len(q) THEN 0 ELSE q[i + 1]
  <2>1. CASE i = 1
    <3>1. t.cells[q[i]].rest = l.first
      BY <1>3, <1>5, <1>7, <2>1
    <3>2. CASE Len(p) = 0
      BY <1>1, <1>7, <2>1, <3>1, <3>2 DEF Chain
    <3>3. CASE Len(p) # 0
      <4>1. q[1 + 1] = p[1] /\ 1 # Len(q)
        BY <1>6, <1>7, <3>3
      <4> QED  BY <1>1, <2>1, <3>1, <3>3, <4>1 DEF Chain
    <3> QED  BY <3>2, <3>3
  <2>2. CASE i # 1
    <3>1. i - 1 \in 1 .. Len(p) /\ i = (i - 1) + 1 /\ q[i] = p[i - 1] /\ q[i] \in 1 .. n
      BY <1>8, <2>2
    <3>2. t.cells[q[i]].rest = IF i - 1 = Len(p) THEN 0 ELSE p[(i - 1) + 1]
      <4>1. \A a \in 1 .. Len(p) : l.cells[p[a]].rest = IF a = Len(p) THEN 0 ELSE p[a + 1]
        BY <1>1 DEF Chain
      <4>2. t.cells[q[i]] = l.cells[p[i - 1]]
        BY <1>3, <1>5, <3>1
      <4> QED  BY <3>1, <4>1, <4>2
    <3>3. i = Len(q) <=> i - 1 = Len(p)
      BY <1>6, <1>7
    <3>4. i # Len(q) => q[i + 1] = p[i]
      <4>1. i # Len(q) => i \in 1 .. Len(p)
        BY <1>6, <1>7
      <4> QED  BY <1>7, <4>1
    <3> QED  BY <3>1, <3>2, <3>3, <3>4
  <2> QED  BY <2>1, <2>2
<1>11. t.last = q[Len(q)] /\ t.first = q[1] /\ Len(q) # 0
  <2>1. CASE Len(p) = 0
    BY <1>1, <1>5, <1>7, <2>1 DEF Chain
  <2>2. CASE Len(p) # 0
    <3>1. Len(p) \in 1 .. Len(p) /\ l.last = p[Len(p)] /\ l.last # 0
      BY <1>1, <1>6, <2>2 DEF Chain
    <3> QED  BY <1>5, <1>6, <1>7, <3>1
  <2> QED  BY <2>1, <2>2
<1>12. Chain(t, q)
  <2>1. q \in Seq(1 .. Len(t.cells)) /\ Len(q) <= Len(t.cells)
    BY <1>3, <1>5, <1>6, <1>7
  <2> QED  BY <1>9, <1>10, <1>11, <2>1 DEF Chain
<1>13. Named(t, q) = N \cup {label}
  <2>1. t.cells[q[1]].label = label /\ 1 \in 1 .. Len(q)
    BY <1>3, <1>5, <1>6, <1>7
  <2>2. ASSUME NEW i \in 1 .. Len(p)
        PROVE  i + 1 \in 1 .. Len(q) /\ t.cells[q[i + 1]].label = l.cells[p[i]].label
    <3>1. i + 1 \in 1 .. Len(q)
      BY <1>6, <1>7
    <3>2. q[i + 1] = p[i] /\ p[i] \in 1 .. n
      BY <1>6, <1>7
    <3> QED  BY <1>3, <1>5, <3>1, <3>2
  <2>3. \A i \in 1 .. Len(q) : i = 1 \/ t.cells[q[i]].label = l.cells[p[i - 1]].label
    BY <1>3, <1>5, <1>8
  <2>4. Named(t, q) \subseteq N \cup {label}
    <3> SUFFICES ASSUME NEW i \in 1 .. Len(q) PROVE t.cells[q[i]].label \in N \cup {label}
      BY DEF Named
    <3>1. i # 1 => t.cells[q[i]].label = l.cells[p[i - 1]].label /\ i - 1 \in 1 .. Len(p)
      BY <1>8, <2>3
    <3>2. \A a \in 1 .. Len(p) : l.cells[p[a]].label \in N
      BY <1>1 DEF Named
    <3> QED  BY <2>1, <3>1, <3>2
  <2>5. N \cup {label} \subseteq Named(t, q)
    <3>1. label \in Named(t, q)
      BY <2>1 DEF Named
    <3>2. ASSUME NEW i \in 1 .. Len(p) PROVE l.cells[p[i]].label \in Named(t, q)
      BY <2>2 DEF Named
    <3>3. N \subseteq Named(t, q)
      BY <1>1, <3>2 DEF Named
    <3> QED  BY <3>1, <3>3
  <2> QED  BY <2>4, <2>5
<1>14. Work(t, D, P, N \cup {label})
  BY <1>5, <1>12, <1>13 DEF Work
<1> QED  BY <1>14 DEF t

LEMMA TailPut ==
  ASSUME NEW D, NEW P \in Nat, NEW l, NEW N, Work(l, D, P, N), NEW label \in D, NEW pos \in 0 .. P
  PROVE  Work(ScheduleTail(l, label, pos), D, P, N \cup {label})
<1> DEFINE n == Len(l.cells)
           t == ScheduleTail(l, label, pos)
           pair == [label |-> label, pos |-> pos, rest |-> 0]
           base == Append(l.cells, pair)
<1>1. PICK p : Chain(l, p) /\ Named(l, p) = N
  BY DEF Work
<1>2. l \in Lists(D, P) /\ l.first \in Nat /\ l.last \in Nat
  BY DEF Work, Lists
<1>3. Longer(base, l, D, P, pair)
  <2>1. pair = [label |-> label, pos |-> pos, rest |-> 0] /\ base = Append(l.cells, pair) /\ 0 \in Nat
    OBVIOUS
  <2> HIDE DEF pair, base
  <2> QED  BY <1>2, <2>1, PairMade
<1>4. t = [cells |-> IF l.last = 0 THEN base ELSE [base EXCEPT ![l.last].rest = n + 1],
           first |-> IF l.last = 0 THEN n + 1 ELSE l.first, last |-> n + 1]
  BY DEF ScheduleTail
<1>5. pair.label = label /\ pair.rest = 0 /\ pair \in Pairs(D, P)
  BY DEF Pairs
<1> HIDE DEF base, t, n, pair
<1>6. /\ base \in Seq(Pairs(D, P)) /\ n \in Nat /\ Len(base) = n + 1 /\ DOMAIN base = 1 .. n + 1
      /\ \A i \in 1 .. n : base[i] = l.cells[i] /\ base[i] \in Pairs(D, P)
      /\ base[n + 1] = pair
  BY <1>3 DEF Longer, n
<1>7. /\ p \in Seq(1 .. n) /\ Len(p) \in Nat /\ Len(p) <= n
      /\ \A i \in 1 .. Len(p) : p[i] \in 1 .. n
  <2>1. p \in Seq(1 .. n) /\ Len(p) <= n
    BY <1>1 DEF Chain, n
  <2> QED  BY <2>1, LenProperties, ElementOfSeq
<1>8. IF Len(p) = 0 THEN l.last = 0 /\ l.first = 0 ELSE l.last = p[Len(p)] /\ l.last \in 1 .. n /\ l.last # 0 /\ l.first = p[1]
  <2>1. CASE Len(p) = 0
    BY <1>1, <2>1 DEF Chain
  <2>2. CASE Len(p) # 0
    <3>1. Len(p) \in 1 .. Len(p)
      BY <1>7, <2>2
    <3> QED  BY <1>1, <1>7, <2>2, <3>1 DEF Chain
  <2> QED  BY <2>1, <2>2
<1>9. /\ t \in Lists(D, P) /\ Len(t.cells) = n + 1 /\ t.last = n + 1
      /\ t.first = IF Len(p) = 0 THEN n + 1 ELSE p[1]
      /\ t.cells[n + 1].label = label /\ t.cells[n + 1].rest = 0
      /\ \A i \in 1 .. n : /\ t.cells[i].label = l.cells[i].label
                         /\ t.cells[i].rest = IF Len(p) # 0 /\ i = p[Len(p)] THEN n + 1 ELSE l.cells[i].rest
  <2>1. CASE Len(p) = 0
    <3>1. t = [cells |-> base, first |-> n + 1, last |-> n + 1]
      BY <1>4, <1>8, <2>1
    <3> QED  BY <1>5, <1>6, <2>1, <3>1 DEF Lists
  <2>2. CASE Len(p) # 0
    <3> DEFINE k == l.last
               fixed == [base[k] EXCEPT !.rest = n + 1]
               cells == [base EXCEPT ![k] = fixed]
    <3>1. k \in 1 .. n /\ k = p[Len(p)] /\ l.first = p[1] /\ k # 0
      BY <1>8, <2>2
    <3>2. t = [cells |-> cells, first |-> l.first, last |-> n + 1]
      BY <1>4, <3>1
    <3>3. base[k] \in Pairs(D, P) /\ base[k] = l.cells[k]
      BY <1>6, <3>1
    <3>4. fixed \in Pairs(D, P) /\ fixed.label = l.cells[k].label /\ fixed.rest = n + 1
      <4>1. n + 1 \in Nat
        BY <1>6
      <4> QED  BY <3>3, <4>1 DEF Pairs
    <3> HIDE DEF fixed, k
    <3>5. k \in 1 .. Len(base)
      BY <1>6, <3>1
    <3>6. /\ cells \in Seq(Pairs(D, P)) /\ Len(cells) = n + 1
          /\ \A i \in 1 .. n + 1 : cells[i] = IF i = k THEN fixed ELSE base[i]
      BY <1>6, <3>4, <3>5, ExceptSeq
    <3> HIDE DEF cells
    <3>7. t \in Lists(D, P) /\ t.cells = cells /\ t.last = n + 1 /\ t.first = p[1]
      BY <1>2, <1>6, <3>1, <3>2, <3>6 DEF Lists
    <3>8. cells[n + 1] = pair
      <4>1. n + 1 \in 1 .. n + 1 /\ n + 1 # k
        BY <1>6, <3>1
      <4> QED  BY <1>6, <3>6, <4>1
    <3>9. ASSUME NEW i \in 1 .. n
          PROVE  cells[i].label = l.cells[i].label /\ cells[i].rest = IF i = k THEN n + 1 ELSE l.cells[i].rest
      <4>1. i \in 1 .. n + 1
        BY <1>6
      <4> QED  BY <1>6, <3>4, <3>6, <4>1
    <3> QED  BY <1>5, <2>2, <3>1, <3>6, <3>7, <3>8, <3>9
  <2> QED  BY <2>1, <2>2
<1> DEFINE q == Append(p, n + 1)
<1>10. /\ q \in Seq(1 .. n + 1) /\ Len(q) = Len(p) + 1 /\ q[Len(p) + 1] = n + 1
       /\ \A i \in 1 .. Len(p) : q[i] = p[i]
  <2>1. p \in Seq(1 .. n + 1) /\ n + 1 \in 1 .. n + 1
    <3>1. 1 .. n \subseteq 1 .. n + 1 /\ n + 1 \in 1 .. n + 1
      BY <1>6
    <3> QED  BY <1>7, <3>1, SeqMonotonic
  <2> QED  BY <2>1, AppendProperties
<1> HIDE DEF q
<1>11. \A i \in 1 .. Len(q) : \/ i = Len(p) + 1 /\ q[i] = n + 1
                              \/ i \in 1 .. Len(p) /\ i # Len(p) + 1 /\ q[i] = p[i] /\ q[i] \in 1 .. n /\ q[i] # n + 1
  <2> SUFFICES ASSUME NEW i \in 1 .. Len(q), i # Len(p) + 1
               PROVE  i \in 1 .. Len(p) /\ q[i] = p[i] /\ q[i] \in 1 .. n /\ q[i] # n + 1
    BY <1>10
  <2>1. i \in 1 .. Len(p)
    BY <1>7, <1>10
  <2>2. q[i] = p[i] /\ q[i] \in 1 .. n
    BY <1>7, <1>10, <2>1
  <2> QED  BY <1>6, <2>1, <2>2
<1>12. ASSUME NEW i \in 1 .. Len(q), NEW j \in 1 .. Len(q), q[i] = q[j] PROVE i = j
  <2>1. \A a, b \in 1 .. Len(p) : p[a] = p[b] => a = b
    BY <1>1 DEF Chain
  <2>2. CASE i = Len(p) + 1
    BY <1>11, <1>12, <2>2
  <2>3. CASE i # Len(p) + 1
    BY <1>11, <1>12, <2>1, <2>3
  <2> QED  BY <2>2, <2>3
<1>13. ASSUME NEW i \in 1 .. Len(q) PROVE t.cells[q[i]].rest = IF i = Len(q) THEN 0 ELSE q[i + 1]
  <2>1. CASE i = Len(p) + 1
    BY <1>9, <1>10, <2>1
  <2>2. CASE i # Len(p) + 1
    <3>1. i \in 1 .. Len(p) /\ q[i] = p[i] /\ q[i] \in 1 .. n /\ i # Len(q)
      BY <1>10, <1>11, <2>2
    <3>2. l.cells[p[i]].rest = (IF i = Len(p) THEN 0 ELSE p[i + 1]) /\ (p[i] = p[Len(p)] => i = Len(p))
      <4>1. Len(p) \in 1 .. Len(p)
        BY <1>7, <3>1
      <4> QED  BY <1>1, <3>1, <4>1 DEF Chain
    <3>3. Len(p) # 0
      BY <1>7, <3>1
    <3>4. CASE i = Len(p)
      BY <1>9, <1>10, <3>1, <3>3, <3>4
    <3>5. CASE i # Len(p)
      <4>1. i + 1 \in 1 .. Len(p)
        BY <1>7, <3>1, <3>5
      <4> QED  BY <1>9, <1>10, <3>1, <3>2, <3>5, <4>1
    <3> QED  BY <3>4, <3>5
  <2> QED  BY <2>1, <2>2
<1>14. t.last = q[Len(q)] /\ t.first = q[1] /\ Len(q) # 0
  <2>1. CASE Len(p) = 0
    BY <1>9, <1>10, <2>1
  <2>2. CASE Len(p) # 0
    <3>1. 1 \in 1 .. Len(p)
      BY <1>7, <2>2
    <3> QED  BY <1>7, <1>9, <1>10, <2>2, <3>1
  <2> QED  BY <2>1, <2>2
<1>15. Chain(t, q)
  <2>1. q \in Seq(1 .. Len(t.cells)) /\ Len(q) <= Len(t.cells)
    BY <1>6, <1>7, <1>9, <1>10
  <2> QED  BY <1>12, <1>13, <1>14, <2>1 DEF Chain
<1>16. Named(t, q) = N \cup {label}
  <2>1. Len(p) + 1 \in 1 .. Len(q) /\ t.cells[q[Len(p) + 1]].label = label
    BY <1>7, <1>9, <1>10
  <2>2. ASSUME NEW i \in 1 .. Len(p)
        PROVE  i \in 1 .. Len(q) /\ t.cells[q[i]].label = l.cells[p[i]].label
    <3>1. i \in 1 .. Len(q) /\ q[i] = p[i] /\ p[i] \in 1 .. n
      BY <1>7, <1>10
    <3> QED  BY <1>9, <3>1
  <2>3. ASSUME NEW x \in Named(t, q) PROVE x \in N \cup {label}
    <3>1. PICK i \in 1 .. Len(q) : x = t.cells[q[i]].label
      BY <2>3 DEF Named
    <3>2. CASE i = Len(p) + 1
      BY <2>1, <3>1, <3>2
    <3>3. CASE i # Len(p) + 1
      BY <1>1, <1>11, <2>2, <3>1, <3>3 DEF Named
    <3> QED  BY <3>2, <3>3
  <2>4. N \cup {label} \subseteq Named(t, q)
    BY <1>1, <2>1, <2>2 DEF Named
  <2> QED  BY <2>3, <2>4
<1>17. Work(t, D, P, N \cup {label})
  BY <1>9, <1>15, <1>16 DEF Work
<1> QED  BY <1>17 DEF t

\* What the chain of a list is made of.
LEMMA ChainIs ==
  ASSUME NEW D, NEW P, NEW l \in Lists(D, P), NEW p, Chain(l, p)
  PROVE  /\ Len(l.cells) \in Nat /\ Len(p) \in Nat /\ Len(p) <= Len(l.cells)
         /\ \A i \in 1 .. Len(p) : p[i] \in 1 .. Len(l.cells) /\ p[i] \in Nat /\ p[i] # 0
         /\ \A c \in 1 .. Len(l.cells) : l.cells[c] \in Pairs(D, P)
         /\ l.first \in Nat /\ l.last \in Nat
<1> DEFINE n == Len(l.cells)
<1>1. l.cells \in Seq(Pairs(D, P)) /\ l.first \in Nat /\ l.last \in Nat
  BY DEF Lists
<1>2. n \in Nat /\ \A c \in 1 .. n : l.cells[c] \in Pairs(D, P)
  BY <1>1, LenProperties, ElementOfSeq
<1>3. p \in Seq(1 .. n) /\ Len(p) <= n
  BY DEF Chain
<1> HIDE DEF n
<1>4. Len(p) \in Nat /\ \A i \in 1 .. Len(p) : p[i] \in 1 .. n
  BY <1>3, LenProperties, ElementOfSeq
<1>5. \A i \in 1 .. Len(p) : p[i] \in 1 .. n /\ p[i] \in Nat /\ p[i] # 0
  BY <1>2, <1>4
<1> QED  BY <1>1, <1>2, <1>3, <1>4, <1>5 DEF n

\* The first label leaves the list.
LEMMA FirstTaken ==
  ASSUME NEW D, NEW P, NEW l, NEW N, Work(l, D, P, N), l.first # 0
  PROVE  /\ l.cells[l.first].label \in D
         /\ \E M : Work(Without_First(l), D, P, M) /\ N = M \cup {l.cells[l.first].label}
<1> DEFINE n == Len(l.cells)
           rest == l.cells[l.first].rest
           label == l.cells[l.first].label
           t == Without_First(l)
<1>1. PICK p : Chain(l, p) /\ Named(l, p) = N
  BY DEF Work
<1> DEFINE q == Tail(p)
<1>2. l \in Lists(D, P)
  BY DEF Work
<1>3. /\ n \in Nat /\ Len(p) \in Nat /\ Len(p) <= n
      /\ \A i \in 1 .. Len(p) : p[i] \in 1 .. n /\ p[i] \in Nat /\ p[i] # 0
      /\ \A c \in 1 .. n : l.cells[c] \in Pairs(D, P)
      /\ l.first \in Nat /\ l.last \in Nat
  BY <1>1, <1>2, ChainIs
<1>4. /\ Len(p) # 0 /\ l.first = p[1] /\ l.last = p[Len(p)] /\ 1 \in 1 .. Len(p)
      /\ \A i, j \in 1 .. Len(p) : p[i] = p[j] => i = j
      /\ \A i \in 1 .. Len(p) : l.cells[p[i]].rest = IF i = Len(p) THEN 0 ELSE p[i + 1]
      /\ p \in Seq(1 .. n)
  <2>1. Len(p) # 0
    BY <1>1 DEF Chain
  <2> QED  BY <1>1, <1>3, <2>1 DEF Chain
<1> HIDE DEF n, rest, label, t
<1>5. label \in D
  BY <1>3, <1>4 DEF label, Pairs
<1>6. rest = IF Len(p) = 1 THEN 0 ELSE p[2]
  <2>1. l.cells[p[1]].rest = IF 1 = Len(p) THEN 0 ELSE p[1 + 1]
    BY <1>4
  <2>2. 1 + 1 = 2 /\ rest = l.cells[p[1]].rest
    BY <1>4 DEF rest
  <2> QED  BY <2>1, <2>2
<1>7. t = [l EXCEPT !.first = rest, !.last = IF rest = 0 THEN 0 ELSE @]
  BY DEF t, rest, Without_First
<1>8. rest \in Nat /\ (rest = 0 <=> Len(p) = 1)
  <2>1. CASE Len(p) = 1
    BY <1>6, <2>1
  <2>2. CASE Len(p) # 1
    <3>1. 2 \in 1 .. Len(p)
      <4>1. Len(p) \in Nat /\ Len(p) # 0 /\ Len(p) # 1
        BY <1>3, <1>4, <2>2
      <4>2. \A k \in Nat : k # 0 /\ k # 1 => 2 \in 1 .. k
        OBVIOUS
      <4> QED  BY <4>1, <4>2, Zenon
    <3> QED  BY <1>3, <1>6, <2>2, <3>1
  <2> QED  BY <2>1, <2>2
<1>9. t \in Lists(D, P) /\ t.cells = l.cells /\ t.first = rest /\ t.last = IF rest = 0 THEN 0 ELSE l.last
  BY <1>2, <1>3, <1>7, <1>8 DEF Lists
<1>10. /\ q \in Seq(1 .. n) /\ Len(q) = Len(p) - 1
       /\ \A i \in 1 .. Len(q) : q[i] = p[i + 1]
  <2>1. p # <<>>
    BY <1>4
  <2> QED  BY <1>4, <2>1, HeadTailProperties
<1> HIDE DEF q
<1>11. \A i \in 1 .. Len(q) : i + 1 \in 1 .. Len(p) /\ q[i] = p[i + 1]
  BY <1>3, <1>10
<1>12. \A i, j \in 1 .. Len(q) : q[i] = q[j] => i = j
  <2> SUFFICES ASSUME NEW i \in 1 .. Len(q), NEW j \in 1 .. Len(q), q[i] = q[j] PROVE i = j
    OBVIOUS
  <2>1. i + 1 = j + 1
    BY <1>4, <1>11
  <2> QED  BY <1>3, <1>10, <2>1
<1>13. ASSUME NEW i \in 1 .. Len(q) PROVE t.cells[q[i]].rest = IF i = Len(q) THEN 0 ELSE q[i + 1]
  <2>1. l.cells[p[i + 1]].rest = IF i + 1 = Len(p) THEN 0 ELSE p[(i + 1) + 1]
    BY <1>4, <1>11
  <2>2. i + 1 = Len(p) <=> i = Len(q)
    BY <1>3, <1>10
  <2>3. i # Len(q) => q[i + 1] = p[(i + 1) + 1]
    <3>1. i # Len(q) => i + 1 \in 1 .. Len(q)
      BY <1>3, <1>10
    <3> QED  BY <1>10, <3>1
  <2> QED  BY <1>9, <1>11, <2>1, <2>2, <2>3
<1>14. IF Len(q) = 0 THEN t.first = 0 /\ t.last = 0 ELSE t.first = q[1] /\ t.last = q[Len(q)]
  <2>1. CASE Len(p) = 1
    <3>1. Len(q) = 0
      BY <1>3, <1>10, <2>1
    <3> QED  BY <1>8, <1>9, <2>1, <3>1
  <2>2. CASE Len(p) # 1
    <3>1. Len(q) # 0 /\ 1 \in 1 .. Len(q) /\ Len(q) \in 1 .. Len(q) /\ Len(q) + 1 = Len(p) /\ 1 + 1 = 2
      BY <1>3, <1>4, <1>10, <2>2
    <3>2. q[1] = p[2] /\ q[Len(q)] = p[Len(p)]
      BY <1>10, <3>1
    <3> QED  BY <1>4, <1>6, <1>8, <1>9, <2>2, <3>1, <3>2
  <2> QED  BY <2>1, <2>2
<1>15. Chain(t, q)
  <2>1. Len(q) <= n
    BY <1>3, <1>10
  <2> QED  BY <1>9, <1>10, <1>12, <1>13, <1>14, <2>1 DEF Chain, n
<1>16. N = Named(t, q) \cup {label}
  <2>1. ASSUME NEW i \in 1 .. Len(p) PROVE l.cells[p[i]].label \in Named(t, q) \cup {label}
    <3>1. CASE i = 1
      BY <1>4, <3>1 DEF label
    <3>2. CASE i # 1
      <4>1. i - 1 \in 1 .. Len(q) /\ (i - 1) + 1 = i
        BY <1>3, <1>10, <3>2
      <4>2. q[i - 1] = p[i]
        BY <1>10, <4>1
      <4> QED  BY <1>9, <4>1, <4>2 DEF Named
    <3> QED  BY <3>1, <3>2
  <2>2. N \subseteq Named(t, q) \cup {label}
    BY <1>1, <2>1 DEF Named
  <2>3. Named(t, q) \subseteq N
    BY <1>1, <1>9, <1>11 DEF Named
  <2>4. label \in N
    BY <1>1, <1>4 DEF Named, label
  <2> QED  BY <2>2, <2>3, <2>4
<1>17. Work(t, D, P, Named(t, q))
  BY <1>9, <1>15 DEF Work
<1> QED  BY <1>5, <1>16, <1>17 DEF t, label

\* The pairs that are listed are those of the chain.
LEMMA ListedIs ==
  ASSUME NEW D, NEW P, NEW l \in Lists(D, P), NEW p, Chain(l, p)
  PROVE  /\ DOMAIN Listed(l) = 0 .. Len(l.cells)
         /\ \A k \in 0 .. Len(l.cells) : Listed(l)[k] = IF k < Len(p) THEN p[k + 1] ELSE 0
<1> DEFINE n == Len(l.cells)
           rest == [c \in 0 .. n |-> IF c = 0 THEN 0 ELSE l.cells[c].rest]
           Loop(h) == [k \in 0 .. n |-> IF k = 0 THEN l.first ELSE rest[h[k - 1]]]
           g == [k \in 0 .. n |-> IF k < Len(p) THEN p[k + 1] ELSE 0]
<1>1. /\ n \in Nat /\ Len(p) \in Nat /\ Len(p) <= n
      /\ \A i \in 1 .. Len(p) : p[i] \in 1 .. n /\ p[i] \in Nat /\ p[i] # 0
  BY ChainIs
<1>2. /\ l.first = IF Len(p) = 0 THEN 0 ELSE p[1]
      /\ \A i \in 1 .. Len(p) : l.cells[p[i]].rest = IF i = Len(p) THEN 0 ELSE p[i + 1]
  BY DEF Chain
<1> DEFINE f == CHOOSE h : h = Loop(h)
<1>3. Listed(l) = [k \in 0 .. n |-> f[k]]
  BY DEF Listed
<1>4. 0 \in 0 .. n /\ \A c \in 1 .. n : c \in 0 .. n /\ c # 0
  BY <1>1
<1>5. rest[0] = 0 /\ \A c \in 1 .. n : rest[c] = l.cells[c].rest
  BY <1>4
<1>6. \A k \in 0 .. n : g[k] = IF k < Len(p) THEN p[k + 1] ELSE 0
  OBVIOUS
<1>7. \A h : \A k \in 0 .. n : Loop(h)[k] = IF k = 0 THEN l.first ELSE rest[h[k - 1]]
  OBVIOUS
<1>8. \A h : DOMAIN Loop(h) = 0 .. n /\ Loop(h) = [k \in 0 .. n |-> Loop(h)[k]]
  OBVIOUS
<1>9. g = [k \in 0 .. n |-> g[k]]
  OBVIOUS
<1> HIDE DEF n, rest, g
<1>10. g[0] = l.first
  <2>1. CASE Len(p) = 0
    BY <1>1, <1>2, <1>4, <1>6, <2>1
  <2>2. CASE Len(p) # 0
    <3>1. 0 < Len(p) /\ 0 + 1 = 1
      BY <1>1, <2>2
    <3> QED  BY <1>2, <1>4, <1>6, <2>2, <3>1
  <2> QED  BY <2>1, <2>2
<1>11. ASSUME NEW k \in 1 .. n PROVE g[k] = rest[g[k - 1]]
  <2>1. k - 1 \in 0 .. n /\ k \in 0 .. n /\ (k - 1) + 1 = k
    BY <1>1
  <2>2. CASE k - 1 < Len(p)
    <3>1. k \in 1 .. Len(p) /\ (k = Len(p) <=> ~(k < Len(p)))
      BY <1>1, <2>2
    <3>2. g[k - 1] = p[k] /\ p[k] \in 1 .. n
      BY <1>1, <1>6, <2>1, <2>2, <3>1
    <3>3. rest[g[k - 1]] = IF k = Len(p) THEN 0 ELSE p[k + 1]
      BY <1>2, <1>5, <3>1, <3>2
    <3> QED  BY <1>6, <2>1, <3>1, <3>3
  <2>3. CASE ~(k - 1 < Len(p))
    <3>1. ~(k < Len(p))
      BY <1>1, <2>3
    <3> QED  BY <1>5, <1>6, <2>1, <2>3, <3>1
  <2> QED  BY <2>2, <2>3
<1>12. g = Loop(g)
  <2> HIDE DEF Loop
  <2>1. \A k \in 0 .. n : g[k] = Loop(g)[k]
    <3> SUFFICES ASSUME NEW k \in 0 .. n PROVE g[k] = Loop(g)[k]
      OBVIOUS
    <3>1. k = 0 \/ k \in 1 .. n
      BY <1>1
    <3> QED  BY <1>4, <1>7, <1>10, <1>11, <3>1
  <2> QED  BY <1>8, <1>9, <2>1
<1>13. f = Loop(f)
  BY <1>12
<1>14. f[0] = l.first /\ \A k \in 1 .. n : f[k] = rest[f[k - 1]]
  <2> HIDE DEF f, Loop
  <2>1. \A k \in 0 .. n : f[k] = IF k = 0 THEN l.first ELSE rest[f[k - 1]]
    BY <1>7, <1>13
  <2> QED  BY <1>4, <2>1, Zenon
<1> HIDE DEF f, Loop
<1> DEFINE T == {k \in 0 .. n : f[k] = g[k]}
<1>15. 0 \in T
  BY <1>4, <1>10, <1>14
<1>16. ASSUME NEW k \in 0 .. n - 1, k \in T PROVE k + 1 \in T
  <2>1. k + 1 \in 1 .. n /\ (k + 1) - 1 = k /\ k + 1 \in 0 .. n
    BY <1>1
  <2>2. f[k + 1] = rest[f[k]] /\ g[k + 1] = rest[g[k]]
    BY <1>11, <1>14, <2>1
  <2> QED  BY <1>16, <2>1, <2>2
<1>17. \A k \in 0 .. n : k \in T
  <2> HIDE DEF T
  <2> QED  BY <1>1, <1>15, <1>16, EveryRoundTo
<1>18. \A k \in 0 .. n : Listed(l)[k] = g[k]
  BY <1>3, <1>17
<1> QED  BY <1>3, <1>6, <1>18 DEF n

\* A larger bound of the positions.
LEMMA MorePlaces ==
  ASSUME NEW D, NEW P \in Nat, NEW Q \in Nat, P <= Q, NEW l, NEW N, Work(l, D, P, N)
  PROVE  Work(l, D, Q, N)
<1>1. Pairs(D, P) \subseteq Pairs(D, Q)
  <2>1. 0 .. P \subseteq 0 .. Q
    OBVIOUS
  <2> QED  BY <2>1 DEF Pairs
<1>2. l \in Lists(D, P) /\ \E p : Chain(l, p) /\ Named(l, p) = N
  BY DEF Work
<1>3. l.cells \in Seq(Pairs(D, Q))
  <2>1. l.cells \in Seq(Pairs(D, P))
    BY <1>2 DEF Lists
  <2> QED  BY <1>1, <2>1, SeqMonotonic
<1>4. l \in Lists(D, Q)
  BY <1>2, <1>3 DEF Lists
<1> QED  BY <1>2, <1>4 DEF Work

\* The end of the list, as linearize finds it.
LEMMA EndIs ==
  ASSUME NEW D, NEW P, NEW l, NEW N, Work(l, D, P, N)
  PROVE  /\ l.first = 0 <=> N = {}
         /\ IF l.first = 0 THEN l.last = 0
            ELSE \E n \in DOMAIN Listed(l) : l.last # 0 /\ Listed(l)[n] = l.last /\ l.cells[l.last].rest = 0
<1>1. PICK p : Chain(l, p) /\ Named(l, p) = N
  BY DEF Work
<1>2. l \in Lists(D, P)
  BY DEF Work
<1>3. /\ Len(l.cells) \in Nat /\ Len(p) \in Nat /\ Len(p) <= Len(l.cells)
      /\ \A i \in 1 .. Len(p) : p[i] # 0
  BY <1>1, <1>2, ChainIs
<1>4. CASE Len(p) = 0
  <2>1. \A i \in 1 .. Len(p) : FALSE
    BY <1>4
  <2>2. l.first = 0 /\ l.last = 0
    BY <1>1, <1>4 DEF Chain
  <2> QED  BY <1>1, <2>1, <2>2 DEF Named
<1>5. CASE Len(p) # 0
  <2>1. 1 \in 1 .. Len(p) /\ Len(p) \in 1 .. Len(p) /\ Len(p) - 1 \in 0 .. Len(l.cells) /\ Len(p) - 1 < Len(p)
        /\ (Len(p) - 1) + 1 = Len(p)
    BY <1>3, <1>5
  <2>2. l.first = p[1] /\ l.last = p[Len(p)] /\ l.cells[p[Len(p)]].rest = 0
    BY <1>1, <1>5, <2>1 DEF Chain
  <2>3. Len(p) - 1 \in DOMAIN Listed(l) /\ Listed(l)[Len(p) - 1] = p[Len(p)]
    BY <1>1, <1>2, <2>1, ListedIs
  <2>4. N # {}
    BY <1>1, <2>1 DEF Named
  <2> QED  BY <1>3, <2>1, <2>2, <2>3, <2>4
<1> QED  BY <1>4, <1>5

\* The labels that wait are those on the list that are not out.
LEMMA WaitingAre ==
  ASSUME NEW D, NEW P, NEW l, NEW N, Work(l, D, P, N), NEW out, NEW w, w = Waiting(l, out)
  PROVE  /\ DOMAIN w \subseteq Nat
         /\ \A n \in DOMAIN w : w[n].label \in N /\ w[n].label \in D /\ w[n].label \notin out /\ w[n].pos \in 0 .. P
         /\ \A x \in N : x \in out \/ \E n \in DOMAIN w : w[n].label = x
<1>1. PICK p : Chain(l, p) /\ Named(l, p) = N
  BY DEF Work
<1>2. l \in Lists(D, P)
  BY DEF Work
<1>3. /\ Len(l.cells) \in Nat /\ Len(p) \in Nat /\ Len(p) <= Len(l.cells)
      /\ \A i \in 1 .. Len(p) : p[i] \in 1 .. Len(l.cells) /\ p[i] # 0
      /\ \A c \in 1 .. Len(l.cells) : l.cells[c] \in Pairs(D, P)
  BY <1>1, <1>2, ChainIs
<1>4. /\ DOMAIN Listed(l) = 0 .. Len(l.cells)
      /\ \A k \in 0 .. Len(l.cells) : Listed(l)[k] = IF k < Len(p) THEN p[k + 1] ELSE 0
  BY <1>1, <1>2, ListedIs
<1> DEFINE places == {n \in DOMAIN Listed(l) : Listed(l)[n] # 0 /\ l.cells[Listed(l)[n]].label \notin out}
<1>5. w = [n \in places |-> l.cells[Listed(l)[n]]]
  BY DEF Waiting
<1>6. ASSUME NEW n \in DOMAIN w
      PROVE  w[n].label \in N /\ w[n].label \in D /\ w[n].label \notin out /\ w[n].pos \in 0 .. P
  <2>1. n \in 0 .. Len(l.cells) /\ Listed(l)[n] # 0 /\ l.cells[Listed(l)[n]].label \notin out /\ w[n] = l.cells[Listed(l)[n]]
    BY <1>4, <1>5
  <2>2. n < Len(p) /\ Listed(l)[n] = p[n + 1]
    BY <1>4, <2>1
  <2>3. n + 1 \in 1 .. Len(p)
    BY <1>3, <2>1, <2>2
  <2>4. w[n] = l.cells[p[n + 1]] /\ w[n] \in Pairs(D, P)
    BY <1>3, <2>1, <2>2, <2>3
  <2>5. w[n].label \in D /\ w[n].pos \in 0 .. P
    BY <2>4 DEF Pairs
  <2> QED  BY <1>1, <2>1, <2>3, <2>4, <2>5 DEF Named
<1>7. ASSUME NEW x \in N, x \notin out PROVE \E n \in DOMAIN w : w[n].label = x
  <2>1. PICK i \in 1 .. Len(p) : x = l.cells[p[i]].label
    BY <1>1 DEF Named
  <2>2. i - 1 \in 0 .. Len(l.cells) /\ i - 1 < Len(p) /\ (i - 1) + 1 = i
    BY <1>3
  <2>3. Listed(l)[i - 1] = p[i] /\ p[i] # 0
    BY <1>3, <1>4, <2>2
  <2>4. i - 1 \in places
    BY <1>4, <1>7, <2>1, <2>2, <2>3
  <2>5. w[i - 1] = l.cells[p[i]] /\ i - 1 \in DOMAIN w
    BY <1>5, <2>3, <2>4
  <2> QED  BY <2>1, <2>5
<1>8. DOMAIN w \subseteq Nat
  BY <1>3, <1>4, <1>5
<1> QED  BY <1>6, <1>7, <1>8

\* The one put down last is one of them.
LEMMA BestIs ==
  ASSUME NEW P \in Nat, NEW w, DOMAIN w \subseteq Nat, DOMAIN w # {}, \A n \in DOMAIN w : w[n].pos \in 0 .. P
  PROVE  \E n \in DOMAIN w : Best(w) = w[n].label
<1> DEFINE left == {P - w[n].pos : n \in DOMAIN w}
           Good(n) == \A k \in DOMAIN w : \/ w[k].pos < w[n].pos
                                          \/ w[k].pos = w[n].pos /\ n <= k
<1>1. left \subseteq Nat /\ left # {}
  OBVIOUS
<1>2. PICK m \in left : \A k \in left : m <= k
  BY <1>1, LeastNumber
<1>3. PICK n0 \in DOMAIN w : m = P - w[n0].pos
  OBVIOUS
<1>4. \A k \in DOMAIN w : w[k].pos <= w[n0].pos
  <2> SUFFICES ASSUME NEW k \in DOMAIN w PROVE w[k].pos <= w[n0].pos
    OBVIOUS
  <2>1. m <= P - w[k].pos
    BY <1>2
  <2>2. w[k].pos \in 0 .. P /\ w[n0].pos \in 0 .. P
    OBVIOUS
  <2> QED  BY <1>3, <2>1, <2>2
<1> DEFINE last == {k \in DOMAIN w : w[k].pos = w[n0].pos}
<1>5. last \subseteq Nat /\ last # {}
  OBVIOUS
<1>6. PICK n \in last : \A k \in last : n <= k
  BY <1>5, LeastNumber
<1>7. Good(n)
  <2> SUFFICES ASSUME NEW k \in DOMAIN w, w[k].pos # w[n0].pos PROVE w[k].pos < w[n0].pos
    BY <1>6
  <2>1. w[k].pos \in 0 .. P /\ w[n0].pos \in 0 .. P /\ w[k].pos <= w[n0].pos
    BY <1>4
  <2> QED  BY <2>1
<1>8. (CHOOSE i \in DOMAIN w : Good(i)) \in DOMAIN w
  <2> HIDE DEF Good
  <2> QED  BY <1>6, <1>7
<1>9. Best(w) = w[CHOOSE i \in DOMAIN w : Good(i)].label
  BY DEF Best
<1> QED  BY <1>8, <1>9

\* The labels of N are still on the list, and those of R as well.
Reaches(t, D, P, N, R) == \E M : Work(t, D, P, M) /\ N \subseteq M /\ R \subseteq M

\* The list after the instructions before the jump.
LEMMA ReferredAre ==
  ASSUME WellFormed, NEW b \in DOMAIN bbs, NEW P \in Nat, NEW pos \in Nat, pos + Len(Instrs(b)) <= P,
         NEW l, NEW N, Work(l, DOMAIN bbs, P, N)
  PROVE  Reaches(Referred(b, l, pos), DOMAIN bbs, P, N, UNION {Leads(Instrs(b)[i]) : i \in 1 .. Len(Instrs(b)) - 1})
<1> DEFINE D == DOMAIN bbs
           J == Len(Instrs(b)) - 1
           S == {t \in Lists(D, P) : \E M : Work(t, D, P, M)}
           Loop(g) == [i \in 0 .. J |-> IF i = 0 THEN l ELSE Put(g[i - 1], Instrs(b)[i], pos + i)]
           step == [i \in 1 .. J |-> [t \in S |-> Put(t, Instrs(b)[i], pos + i)]]
<1>0. J \in Nat /\ l \in S
  BY BlockIs DEF Work
<1>1. ASSUME NEW i \in 1 .. J, NEW t, NEW M, Work(t, D, P, M)
      PROVE  Work(Put(t, Instrs(b)[i], pos + i), D, P, M \cup Leads(Instrs(b)[i]))
  <2>1. pos + i \in 0 .. P /\ i \in 1 .. Len(Instrs(b)) /\ i # Len(Instrs(b))
    <3>1. Len(Instrs(b)) \in Nat
      BY BlockIs
    <3> QED  BY <3>1
  <2>2. Leads(Instrs(b)[i]) \subseteq D
    BY <2>1, BlockIs
  <2>3. CASE Instrs(b)[i].op \in {"closure", "call-toplevel"}
    <3>1. Leads(Instrs(b)[i]) = {Instrs(b)[i].arg}
      BY <2>3 DEF Leads, Calls
    <3> DEFINE x == Instrs(b)[i].arg
               k == pos + i
    <3>2. x \in D /\ k \in 0 .. P
      BY <2>1, <2>2, <3>1
    <3>3. Put(t, Instrs(b)[i], pos + i) = ScheduleTail(t, x, k)
      BY <2>3 DEF Put
    <3> HIDE DEF D, x, k
    <3>4. Work(ScheduleTail(t, x, k), D, P, M \cup {x})
      BY <1>1, <3>2, TailPut
    <3> QED  BY <3>1, <3>3, <3>4 DEF x
  <2>4. CASE Instrs(b)[i].op \notin {"closure", "call-toplevel"}
    <3>1. Instrs(b)[i].op \notin {"goto", "goto-if-false", "jump-toplevel"}
      BY <2>1, BlockIs DEF IsBlock
    <3>2. Leads(Instrs(b)[i]) = {} /\ Put(t, Instrs(b)[i], pos + i) = t
      BY <2>4, <3>1 DEF Leads, Calls, Put
    <3>3. M \cup Leads(Instrs(b)[i]) = M
      BY <3>2
    <3> QED  BY <1>1, <3>2, <3>3
  <2> QED  BY <2>3, <2>4
<1>2. \A i \in 1 .. J : \A t \in S : Put(t, Instrs(b)[i], pos + i) \in S
  <2> SUFFICES ASSUME NEW i \in 1 .. J, NEW t \in S PROVE Put(t, Instrs(b)[i], pos + i) \in S
    OBVIOUS
  <2>1. PICK M : Work(t, D, P, M)
    OBVIOUS
  <2> HIDE DEF J
  <2>2. Work(Put(t, Instrs(b)[i], pos + i), D, P, M \cup Leads(Instrs(b)[i]))
    BY <1>1, <2>1
  <2>3. Put(t, Instrs(b)[i], pos + i) \in Lists(D, P)
    BY <2>2 DEF Work
  <2> QED  BY <2>2, <2>3
<1> HIDE DEF J, S
<1>3. step \in [1 .. J -> [S -> S]] /\ \A i \in 1 .. J : \A t \in S : step[i][t] = Put(t, Instrs(b)[i], pos + i)
  BY <1>2
<1>4. PICK g \in [0 .. J -> S] : IsRun(g, l, step, J)
  <2> HIDE DEF step
  <2> QED  BY <1>0, <1>3, NumberedRounds
<1>5. g[0] = l /\ \A i \in 1 .. J : g[i] = Put(g[i - 1], Instrs(b)[i], pos + i)
  <2> HIDE DEF step
  <2>1. ASSUME NEW i \in 1 .. J PROVE g[i] = Put(g[i - 1], Instrs(b)[i], pos + i)
    <3>1. g[i - 1] \in S
      BY <1>0
    <3> QED  BY <1>3, <1>4, <3>1 DEF IsRun
  <2> QED  BY <1>4, <2>1 DEF IsRun
<1>6. g = Loop(g)
  BY <1>0, <1>5
<1> DEFINE f == CHOOSE h : h = Loop(h)
<1>7. f = Loop(f)
  BY <1>6
<1>8. Referred(b, l, pos) = f[J]
  BY DEF Referred, J
<1>9. f[0] = l /\ \A i \in 1 .. J : f[i] = Put(f[i - 1], Instrs(b)[i], pos + i)
  <2>1. \A i \in 0 .. J : Loop(f)[i] = IF i = 0 THEN l ELSE Put(f[i - 1], Instrs(b)[i], pos + i)
    OBVIOUS
  <2> HIDE DEF f, Loop
  <2>2. \A i \in 0 .. J : f[i] = IF i = 0 THEN l ELSE Put(f[i - 1], Instrs(b)[i], pos + i)
    BY <1>7, <2>1
  <2>3. 0 \in 0 .. J /\ \A i \in 1 .. J : i \in 0 .. J /\ i # 0
    BY <1>0
  <2> QED  BY <2>2, <2>3, Zenon
<1> HIDE DEF f, Loop, step, D
<1> DEFINE Done(n) == \E M : /\ Work(f[n], D, P, M) /\ N \subseteq M
                             /\ \A i \in 1 .. n : Leads(Instrs(b)[i]) \subseteq M
           T == {n \in 0 .. J : Done(n)}
<1>10. 0 \in T
  <2>1. \A i \in 1 .. 0 : FALSE
    OBVIOUS
  <2>2. Work(f[0], D, P, N) /\ 0 \in 0 .. J
    BY <1>0, <1>9 DEF D
  <2> QED  BY <2>1, <2>2
<1>11. ASSUME NEW n \in 0 .. J - 1, n \in T PROVE n + 1 \in T
  <2>1. n + 1 \in 1 .. J /\ n + 1 \in 0 .. J /\ (n + 1) - 1 = n /\ \A i \in 1 .. n + 1 : i = n + 1 \/ i \in 1 .. n
    BY <1>0
  <2>2. PICK M : Work(f[n], D, P, M) /\ N \subseteq M /\ \A i \in 1 .. n : Leads(Instrs(b)[i]) \subseteq M
    BY <1>11
  <2> DEFINE M1 == M \cup Leads(Instrs(b)[n + 1])
  <2>3. Work(f[n + 1], D, P, M1)
    <3>1. f[n + 1] = Put(f[n], Instrs(b)[n + 1], pos + (n + 1))
      BY <1>9, <2>1
    <3> QED  BY <1>1, <2>1, <2>2, <3>1
  <2>4. N \subseteq M1 /\ \A i \in 1 .. n + 1 : Leads(Instrs(b)[i]) \subseteq M1
    BY <2>1, <2>2
  <2> HIDE DEF M1
  <2> QED  BY <2>1, <2>3, <2>4
<1>12. Done(J)
  <2> HIDE DEF Done
  <2>1. \A n \in 0 .. J : n \in T
    <3> HIDE DEF T
    <3> QED  BY <1>0, <1>10, <1>11, EveryRoundTo
  <2> QED  BY <1>0, <2>1
<1>13. \E M : Work(f[J], D, P, M) /\ N \subseteq M /\ UNION {Leads(Instrs(b)[i]) : i \in 1 .. J} \subseteq M
  BY <1>12
<1> QED  BY <1>8, <1>13 DEF D, J, Reaches

\* And after the jump.
LEMMA JumpScheduledAre ==
  ASSUME WellFormed, NEW b \in DOMAIN bbs, NEW P \in Nat, NEW pos \in 0 .. P,
         NEW l, NEW N, Work(l, DOMAIN bbs, P, N)
  PROVE  Reaches(JumpScheduled(b, l, pos), DOMAIN bbs, P, N, Leads(Jump(b)))
<1> DEFINE D == DOMAIN bbs
           labels == Labels(Jump(b))
           J == Len(labels)
           S == {t \in Lists(D, P) : \E M : Work(t, D, P, M)}
           Loop(g) == [i \in 0 .. J |-> IF i = 0 THEN l ELSE ScheduleHead(g[i - 1], labels[i], pos)]
           step == [i \in 1 .. J |-> [t \in S |-> ScheduleHead(t, labels[i], pos)]]
<1>0. /\ J \in Nat /\ l \in S /\ Leads(Jump(b)) \subseteq D
      /\ \A i \in 1 .. J : labels[i] \in Leads(Jump(b))
      /\ \A x \in Leads(Jump(b)) : \E i \in 1 .. J : x = labels[i]
  <2>1. IsInstruction(Jump(b)) /\ Leads(Jump(b)) \subseteq D
    <3>1. Len(Instrs(b)) \in 1 .. Len(Instrs(b)) /\ Jump(b) = Instrs(b)[Len(Instrs(b))]
      BY BlockIs DEF Jump, Last
    <3>2. Leads(Jump(b)) \subseteq Targets(b) /\ Targets(b) \subseteq D
      BY <3>1, BlockIs
    <3> QED  BY <3>2, BlockIs
  <2>2. ToSet(labels) = Leads(Jump(b)) /\ IsList(labels)
    BY <2>1, LabelsAre
  <2>3. J \in Nat
    BY <2>2 DEF IsList
  <2>4. l \in S
    BY DEF Work
  <2> HIDE DEF labels, D, S
  <2> QED  BY <2>1, <2>2, <2>3, <2>4, ListSet DEF labels
<1>1. ASSUME NEW i \in 1 .. J, NEW t, NEW M, Work(t, D, P, M)
      PROVE  Work(ScheduleHead(t, labels[i], pos), D, P, M \cup {labels[i]})
  <2> DEFINE x == labels[i]
  <2>1. x \in D
    BY <1>0
  <2> HIDE DEF x, D
  <2>2. Work(ScheduleHead(t, x, pos), D, P, M \cup {x})
    BY <1>1, <2>1, HeadPut
  <2> QED  BY <2>2 DEF x
<1> HIDE DEF labels
<1>2. \A i \in 1 .. J : \A t \in S : ScheduleHead(t, labels[i], pos) \in S
  <2> SUFFICES ASSUME NEW i \in 1 .. J, NEW t \in S PROVE ScheduleHead(t, labels[i], pos) \in S
    OBVIOUS
  <2>1. PICK M : Work(t, D, P, M)
    OBVIOUS
  <2> HIDE DEF J
  <2>2. Work(ScheduleHead(t, labels[i], pos), D, P, M \cup {labels[i]})
    BY <1>1, <2>1
  <2>3. ScheduleHead(t, labels[i], pos) \in Lists(D, P)
    BY <2>2 DEF Work
  <2> QED  BY <2>2, <2>3
<1> HIDE DEF J, S
<1>3. step \in [1 .. J -> [S -> S]] /\ \A i \in 1 .. J : \A t \in S : step[i][t] = ScheduleHead(t, labels[i], pos)
  BY <1>2
<1>4. PICK g \in [0 .. J -> S] : IsRun(g, l, step, J)
  <2> HIDE DEF step
  <2> QED  BY <1>0, <1>3, NumberedRounds
<1>5. g[0] = l /\ \A i \in 1 .. J : g[i] = ScheduleHead(g[i - 1], labels[i], pos)
  <2> HIDE DEF step
  <2>1. ASSUME NEW i \in 1 .. J PROVE g[i] = ScheduleHead(g[i - 1], labels[i], pos)
    <3>1. g[i - 1] \in S
      BY <1>0
    <3> QED  BY <1>3, <1>4, <3>1 DEF IsRun
  <2> QED  BY <1>4, <2>1 DEF IsRun
<1>6. g = Loop(g)
  BY <1>0, <1>5
<1> DEFINE f == CHOOSE h : h = Loop(h)
<1>7. f = Loop(f)
  BY <1>6
<1>8. JumpScheduled(b, l, pos) = f[J]
  BY DEF JumpScheduled, J, labels
<1>9. f[0] = l /\ \A i \in 1 .. J : f[i] = ScheduleHead(f[i - 1], labels[i], pos)
  <2>1. \A i \in 0 .. J : Loop(f)[i] = IF i = 0 THEN l ELSE ScheduleHead(f[i - 1], labels[i], pos)
    OBVIOUS
  <2> HIDE DEF f, Loop
  <2>2. \A i \in 0 .. J : f[i] = IF i = 0 THEN l ELSE ScheduleHead(f[i - 1], labels[i], pos)
    BY <1>7, <2>1
  <2>3. 0 \in 0 .. J /\ \A i \in 1 .. J : i \in 0 .. J /\ i # 0
    BY <1>0
  <2> QED  BY <2>2, <2>3, Zenon
<1> HIDE DEF f, Loop, step, D
<1> DEFINE Done(n) == \E M : /\ Work(f[n], D, P, M) /\ N \subseteq M
                             /\ \A i \in 1 .. n : labels[i] \in M
           T == {n \in 0 .. J : Done(n)}
<1>10. 0 \in T
  <2>1. \A i \in 1 .. 0 : FALSE
    OBVIOUS
  <2>2. Work(f[0], D, P, N) /\ 0 \in 0 .. J
    BY <1>0, <1>9 DEF D
  <2> QED  BY <2>1, <2>2
<1>11. ASSUME NEW n \in 0 .. J - 1, n \in T PROVE n + 1 \in T
  <2>1. n + 1 \in 1 .. J /\ n + 1 \in 0 .. J /\ (n + 1) - 1 = n /\ \A i \in 1 .. n + 1 : i = n + 1 \/ i \in 1 .. n
    BY <1>0
  <2>2. PICK M : Work(f[n], D, P, M) /\ N \subseteq M /\ \A i \in 1 .. n : labels[i] \in M
    BY <1>11
  <2> DEFINE M1 == M \cup {labels[n + 1]}
  <2>3. Work(f[n + 1], D, P, M1)
    BY <1>1, <1>9, <2>1, <2>2
  <2>4. N \subseteq M1 /\ \A i \in 1 .. n + 1 : labels[i] \in M1
    BY <2>1, <2>2
  <2> HIDE DEF M1
  <2> QED  BY <2>1, <2>3, <2>4
<1>12. Done(J)
  <2> HIDE DEF Done
  <2>1. \A n \in 0 .. J : n \in T
    <3> HIDE DEF T
    <3> QED  BY <1>0, <1>10, <1>11, EveryRoundTo
  <2> QED  BY <1>0, <2>1
<1>13. ASSUME NEW M, \A i \in 1 .. J : labels[i] \in M PROVE Leads(Jump(b)) \subseteq M
  BY <1>0, <1>13
<1>14. \E M : Work(f[J], D, P, M) /\ N \subseteq M /\ Leads(Jump(b)) \subseteq M
  BY <1>12, <1>13
<1> QED  BY <1>8, <1>14 DEF D, Reaches

-----------------------------------------------------------------------------
(* dump-bb. *)

\* In the code c the blocks of out have been emitted, each of them once, and no others.
IsLabel(c, i, b) == c[i].op = "label" /\ c[i].arg = b
OneEach(c, out) ==
  /\ IsList(c)
  /\ \A i \in 1 .. Len(c) : c[i].op = "label" => c[i].arg \in out
  /\ \A b \in out : \E i \in 1 .. Len(c) : IsLabel(c, i, b)
  /\ \A b \in out : \A i, j \in 1 .. Len(c) : IsLabel(c, i, b) /\ IsLabel(c, j, b) => i = j

LEMMA OnlyOne ==
  ASSUME OneEach(code, dumped), NEW b \in dumped
  PROVE  Emitted(b) = 1
<1>1. DOMAIN code = 1 .. Len(code)
  BY IsSequence DEF OneEach
<1>2. PICK i \in 1 .. Len(code) : IsLabel(code, i, b)
  BY DEF OneEach
<1>3. {j \in DOMAIN code : code[j].op = "label" /\ code[j].arg = b} = {i}
  BY <1>1, <1>2 DEF OneEach, IsLabel
<1> QED  BY <1>3, FS_Singleton DEF Emitted

LEMMA LabelPut ==
  ASSUME NEW c, NEW out, OneEach(c, out), NEW b, b \notin out
  PROVE  OneEach(c \o <<Plain("label", b)>>, out \cup {b})
<1> DEFINE one == Plain("label", b)
           d == c \o <<one>>
           n == Len(c)
<1>1. one.op = "label" /\ one.arg = b
  BY DEF Plain
<1> HIDE DEF one
<1>2. IsList(c) /\ n \in Nat
  BY DEF OneEach, IsList
<1>3. IsList(<<one>>) /\ Len(<<one>>) = 1 /\ <<one>>[1] = one
  BY OneIs
<1>4. /\ IsList(d) /\ Len(d) = n + 1 /\ \A i \in 1 .. n : d[i] = c[i]
      /\ d[n + 1] = one
  <2>1. 1 \in 1 .. Len(<<one>>)
    BY <1>3
  <2> QED  BY <1>2, <1>3, <2>1, Joined
<1> HIDE DEF d, n
<1>5. n + 1 \in 1 .. Len(d) /\ \A i \in 1 .. Len(d) : i = n + 1 \/ i \in 1 .. n
  BY <1>2, <1>4
<1>6. 1 .. n \subseteq 1 .. Len(d)
  BY <1>2, <1>4
<1>7. /\ \A i \in 1 .. n : c[i].op = "label" => c[i].arg \in out
      /\ \A x \in out : \E i \in 1 .. n : IsLabel(c, i, x)
      /\ \A x \in out : \A i, j \in 1 .. n : IsLabel(c, i, x) /\ IsLabel(c, j, x) => i = j
  BY DEF OneEach, n
<1>8. \A i \in 1 .. Len(d) : d[i].op = "label" => d[i].arg \in out \cup {b}
  BY <1>1, <1>4, <1>5, <1>7
<1>9. \A i \in 1 .. n : \A x : IsLabel(d, i, x) <=> IsLabel(c, i, x)
  BY <1>4 DEF IsLabel
<1>10. \A x : IsLabel(d, n + 1, x) <=> x = b
  BY <1>1, <1>4 DEF IsLabel
<1>11. \A i \in 1 .. n : ~IsLabel(c, i, b)
  BY <1>7 DEF IsLabel
<1>12. ASSUME NEW x \in out \cup {b} PROVE \E i \in 1 .. Len(d) : IsLabel(d, i, x)
  BY <1>5, <1>6, <1>7, <1>9, <1>10
<1>13. ASSUME NEW x \in out \cup {b}, NEW i \in 1 .. Len(d), NEW j \in 1 .. Len(d), IsLabel(d, i, x), IsLabel(d, j, x)
       PROVE  i = j
  <2>1. CASE x = b
    BY <1>5, <1>9, <1>11, <1>13, <2>1
  <2>2. CASE x # b
    <3>1. i \in 1 .. n /\ j \in 1 .. n /\ x \in out
      BY <1>5, <1>10, <1>13, <2>2
    <3> QED  BY <1>7, <1>9, <1>13, <3>1
  <2> QED  BY <2>1, <2>2
<1>14. OneEach(d, out \cup {b})
  BY <1>4, <1>8, <1>12, <1>13 DEF OneEach
<1> QED  BY <1>14 DEF d, one

LEMMA RestPut ==
  ASSUME NEW c, NEW out, OneEach(c, out), NEW t, IsList(t), \A i \in 1 .. Len(t) : t[i].op # "label"
  PROVE  OneEach(c \o t, out)
<1> DEFINE d == c \o t
           n == Len(c)
<1>1. IsList(c) /\ n \in Nat /\ Len(t) \in Nat
  BY DEF OneEach, IsList
<1>2. /\ IsList(d) /\ Len(d) = n + Len(t) /\ \A i \in 1 .. n : d[i] = c[i]
      /\ \A i \in 1 .. Len(t) : d[n + i] = t[i]
  BY <1>1, Joined
<1> HIDE DEF d
<1>3. ASSUME NEW i \in 1 .. Len(d), i \notin 1 .. n PROVE d[i].op # "label"
  <2>1. i - n \in 1 .. Len(t) /\ i = n + (i - n)
    BY <1>1, <1>2, <1>3
  <2>2. d[i] = t[i - n]
    BY <1>2, <2>1
  <2> QED  BY <2>1, <2>2
<1>4. 1 .. n \subseteq 1 .. Len(d)
  BY <1>1, <1>2
<1>5. \A i \in 1 .. n : \A x : IsLabel(d, i, x) <=> IsLabel(c, i, x)
  BY <1>2 DEF IsLabel
<1>6. \A i \in 1 .. Len(d) : \A x : IsLabel(d, i, x) => i \in 1 .. n
  BY <1>3 DEF IsLabel
<1>7. \A i \in 1 .. Len(d) : d[i].op = "label" => d[i].arg \in out
  BY <1>2, <1>3 DEF OneEach
<1>8. \A x \in out : \E i \in 1 .. Len(d) : IsLabel(d, i, x)
  BY <1>4, <1>5 DEF OneEach
<1>9. \A x \in out : \A i, j \in 1 .. Len(d) : IsLabel(d, i, x) /\ IsLabel(d, j, x) => i = j
  BY <1>5, <1>6 DEF OneEach
<1>10. OneEach(d, out)
  BY <1>2, <1>7, <1>8, <1>9 DEF OneEach
<1> QED  BY <1>10 DEF d

LEMMA FrontIs ==
  ASSUME NEW s, IsList(s), Len(s) # 0
  PROVE  IsList(Front(s)) /\ Len(Front(s)) = Len(s) - 1 /\ \A i \in 1 .. Len(s) - 1 : Front(s)[i] = s[i]
<1>1. Len(s) \in Nat
  BY DEF IsList
<1> DEFINE n == Len(s) - 1
<1>2. n \in Nat /\ 1 .. n \subseteq 1 .. Len(s)
  BY <1>1
<1>3. Front(s) = [i \in 1 .. n |-> s[i]]
  BY <1>1 DEF Front
<1> HIDE DEF n
<1>4. Len(Front(s)) = n
  BY <1>2, <1>3
<1>5. \A i \in 1 .. n : Front(s)[i] = s[i]
  BY <1>3
<1>6. IsList(Front(s))
  BY <1>2, <1>3, <1>4, <1>5 DEF IsList
<1> QED  BY <1>4, <1>5, <1>6 DEF n

\* What is emitted for the jump.
LEMMA JumpCodeIs ==
  ASSUME NEW b, IsInstruction(Jump(b)), NEW next
  PROVE  /\ IsList(JumpCode(b, next).code)
         /\ \A i \in 1 .. Len(JumpCode(b, next).code) : JumpCode(b, next).code[i].op # "label"
<1> DEFINE jump == Jump(b)
           to(x) == [jump EXCEPT !.arg = x]
           out == JumpCode(b, next).code
<1>1. jump.op # "label" /\ \A x : to(x).op = jump.op
  BY DEF IsInstruction
<1>2. Not.op # "label" /\ \A x : Plain("goto", x).op # "label"
  BY DEF Not, Plain
<1>3. ASSUME NEW x, x.op # "label"
      PROVE  IsList(<<x>>) /\ \A i \in 1 .. Len(<<x>>) : <<x>>[i].op # "label"
  <2>1. IsList(<<x>>) /\ Len(<<x>>) = 1 /\ <<x>>[1] = x
    BY OneIs
  <2>2. \A i \in 1 .. 1 : i = 1
    OBVIOUS
  <2> QED  BY <1>3, <2>1, <2>2
<1>4. ASSUME NEW x, NEW y, x.op # "label", y.op # "label"
      PROVE  IsList(<<x, y>>) /\ \A i \in 1 .. Len(<<x, y>>) : <<x, y>>[i].op # "label"
  <2>1. IsList(<<x, y>>) /\ Len(<<x, y>>) = 2 /\ <<x, y>>[1] = x /\ <<x, y>>[2] = y
    BY DEF IsList
  <2>2. \A i \in 1 .. 2 : i = 1 \/ i = 2
    OBVIOUS
  <2> QED  BY <1>4, <2>1, <2>2
<1>5. IsList(<<>>) /\ \A i \in 1 .. Len(<<>>) : FALSE
  BY NoneIs
<1>6. CASE jump.op = "goto-if-false"
  <2>1. \/ out = <<to(<<jump.arg[1]>>)>>
        \/ out = <<Not, to(<<jump.arg[2]>>)>>
        \/ out = <<to(<<jump.arg[1]>>), Plain("goto", jump.arg[2])>>
    BY <1>6 DEF JumpCode
  <2> HIDE DEF to, out, jump
  <2> QED  BY <1>1, <1>2, <1>3, <1>4, <2>1 DEF out
<1>7. CASE jump.op # "goto-if-false"
  <2>1. out = <<>> \/ out = <<jump>>
    BY <1>7 DEF JumpCode
  <2> HIDE DEF out, jump
  <2> QED  BY <1>1, <1>3, <1>5, <2>1 DEF out
<1> QED  BY <1>6, <1>7

-----------------------------------------------------------------------------
(* linearize. *)

\* While linearize runs: what the blocks that have been emitted lead to has been emitted or
\* is on the work list.
Listing(l, out, D, P, N) ==
  /\ Work(l, D, P, N) /\ out \subseteq D /\ 0 \in out \cup N
  /\ \A b \in out : Targets(b) \subseteq out \cup N
LinearInv ==
  /\ WellFormed /\ Connected /\ OneEach(code, dumped)
  /\ \E P \in Nat : \E N : Listing(list, dumped, DOMAIN bbs, P, N)

LEMMA BlockDumped ==
  ASSUME WellFormed, Connected, OneEach(code, dumped), bbs' = bbs,
         NEW b \in DOMAIN bbs, b \notin dumped, dumped \subseteq DOMAIN bbs,
         NEW P \in Nat, NEW l, NEW N, Work(l, DOMAIN bbs, P, N), 0 \in dumped \cup {b} \cup N,
         \A c \in dumped : Targets(c) \subseteq dumped \cup {b} \cup N, DumpBlock(b, l)
  PROVE  LinearInv'
<1> DEFINE D == DOMAIN bbs
           n == Len(Instrs(b))
           here1 == Len(code)
<1>1. /\ n \in Nat \ {0} /\ IsList(Instrs(b)) /\ IsInstruction(Jump(b)) /\ Jump(b) = Instrs(b)[n]
      /\ \A i \in 1 .. n : IsInstruction(Instrs(b)[i])
      /\ Targets(b) = UNION {Leads(Instrs(b)[i]) : i \in 1 .. n} /\ Targets(b) \subseteq D
  <2>1. n \in Nat \ {0} /\ IsList(Instrs(b)) /\ Jump(b) = Instrs(b)[n]
    BY BlockIs DEF IsBlock, IsList, Jump, Last
  <2> QED  BY <2>1, BlockIs
<1>2. here1 \in Nat
  BY DEF OneEach, IsList
<1>3. PICK after, jump :
        /\ after = JumpScheduled(b, Referred(b, l, here1), here1 + n)
        /\ jump = JumpCode(b, NextLabels(Waiting(after, dumped \cup {b})))
        /\ dumped' = dumped \cup {b} /\ list' = after
        /\ code' = code \o <<Plain("label", b)>> \o Front(Instrs(b)) \o jump.code
  BY DEF DumpBlock
<1>4. PICK Q \in Nat : P <= Q /\ here1 + n <= Q /\ here1 + n \in 0 .. Q
  <2> DEFINE q == P + here1 + n
  <2>1. q \in Nat /\ P <= q /\ here1 + n <= q /\ here1 + n \in 0 .. q
    BY <1>1, <1>2
  <2> HIDE DEF q
  <2> QED  BY <2>1
<1> HIDE DEF n, here1
<1>5. Work(l, D, Q, N)
  <2> HIDE DEF D
  <2> QED  BY <1>4, MorePlaces DEF D
<1>6. PICK M1 : /\ Work(Referred(b, l, here1), D, Q, M1) /\ N \subseteq M1
                /\ \A i \in 1 .. n - 1 : Leads(Instrs(b)[i]) \subseteq M1
  <2>1. here1 \in Nat /\ here1 + Len(Instrs(b)) <= Q
    BY <1>2, <1>4 DEF n
  <2>2. Reaches(Referred(b, l, here1), DOMAIN bbs, Q, N, UNION {Leads(Instrs(b)[i]) : i \in 1 .. Len(Instrs(b)) - 1})
    BY <1>4, <1>5, <2>1, ReferredAre
  <2> QED  BY <2>2 DEF n, Reaches
<1>7. PICK M : Work(after, D, Q, M) /\ M1 \subseteq M /\ Leads(Jump(b)) \subseteq M
  <2> DEFINE r == Referred(b, l, here1)
             k == here1 + n
  <2>1. Work(r, DOMAIN bbs, Q, M1) /\ k \in 0 .. Q
    BY <1>4, <1>6
  <2> HIDE DEF r, k
  <2>2. Reaches(JumpScheduled(b, r, k), DOMAIN bbs, Q, M1, Leads(Jump(b)))
    BY <1>4, <2>1, JumpScheduledAre
  <2> QED  BY <1>3, <2>2 DEF r, k, Reaches
<1>8. Targets(b) \subseteq M
  <2>1. \A i \in 1 .. n : i = n \/ i \in 1 .. n - 1
    BY <1>1
  <2>2. \A i \in 1 .. n : Leads(Instrs(b)[i]) \subseteq M
    BY <1>1, <1>6, <1>7, <2>1
  <2> QED  BY <1>1, <2>2
<1>9. Targets(b)' = Targets(b) /\ WellFormed' /\ Connected' /\ \A c : Targets(c)' = Targets(c)
  BY BlocksStay
<1>10. 0 \in dumped' \cup M /\ dumped' \subseteq D
  BY <1>3, <1>6, <1>7
<1>11. \A c \in dumped' : Targets(c)' \subseteq dumped' \cup M
  BY <1>3, <1>6, <1>7, <1>8, <1>9
<1>12. Listing(list, dumped, DOMAIN bbs, Q, M)'
  <2>1. Work(list, DOMAIN bbs, Q, M)'
    BY <1>3, <1>7
  <2> QED  BY <1>10, <1>11, <2>1 DEF Listing
<1>13. OneEach(code', dumped')
  <2> DEFINE c1 == code \o <<Plain("label", b)>>
             c2 == c1 \o Front(Instrs(b))
  <2>1. OneEach(c1, dumped \cup {b})
    BY LabelPut
  <2>2. /\ IsList(Front(Instrs(b))) /\ Len(Front(Instrs(b))) = n - 1
        /\ \A i \in 1 .. n - 1 : Front(Instrs(b))[i] = Instrs(b)[i]
    BY <1>1, FrontIs DEF n
  <2>3. \A i \in 1 .. Len(Front(Instrs(b))) : Front(Instrs(b))[i].op # "label"
    <3>1. \A i \in 1 .. n - 1 : i \in 1 .. n
      BY <1>1
    <3> QED  BY <1>1, <2>2, <3>1 DEF IsInstruction
  <2> HIDE DEF c1
  <2>4. OneEach(c2, dumped \cup {b})
    BY <2>1, <2>2, <2>3, RestPut
  <2> HIDE DEF c2
  <2>5. IsList(jump.code) /\ \A i \in 1 .. Len(jump.code) : jump.code[i].op # "label"
    BY <1>1, <1>3, JumpCodeIs
  <2>6. OneEach(c2 \o jump.code, dumped \cup {b})
    BY <2>4, <2>5, RestPut
  <2> QED  BY <1>3, <2>6 DEF c1, c2
<1>14. OneEach(code, dumped)'
  BY <1>13
<1> QED  BY <1>4, <1>9, <1>12, <1>14 DEF LinearInv

LEMMA FirstDumped ==
  ASSUME LinearInv, bbs' = bbs, GetFirst
  PROVE  LinearInv'
<1>1. PICK P, N : P \in Nat /\ Listing(list, dumped, DOMAIN bbs, P, N)
  BY DEF LinearInv
<1> DEFINE b == list.cells[list.first].label
           l == Without_First(list)
<1>2. Work(list, DOMAIN bbs, P, N) /\ list.first # 0
  BY <1>1 DEF Listing, GetFirst
<1>3. PICK M : Work(l, DOMAIN bbs, P, M) /\ N = M \cup {b}
  BY <1>2, FirstTaken
<1>4. b \in DOMAIN bbs
  BY <1>2, FirstTaken
<1> HIDE DEF b, l
<1>5. \/ b \in dumped /\ list' = l /\ UNCHANGED <<dumped, code>>
      \/ b \notin dumped /\ DumpBlock(b, l)
  BY DEF GetFirst, b, l
<1>6. CASE b \in dumped /\ list' = l /\ UNCHANGED <<dumped, code>>
  <2>1. WellFormed' /\ Connected' /\ \A c : Targets(c)' = Targets(c)
    BY BlocksStay DEF LinearInv
  <2>2. Listing(l, dumped, DOMAIN bbs, P, M)
    BY <1>1, <1>3, <1>6 DEF Listing
  <2>3. Listing(list, dumped, DOMAIN bbs, P, M)'
    <3>1. /\ Work(l, DOMAIN bbs, P, M) /\ dumped \subseteq DOMAIN bbs /\ 0 \in dumped \cup M
          /\ \A c \in dumped : Targets(c) \subseteq dumped \cup M
      BY <2>2 DEF Listing
    <3>2. Work(list, DOMAIN bbs, P, M)'
      BY <1>6, <3>1
    <3> QED  BY <1>6, <2>1, <3>1, <3>2 DEF Listing
  <2>4. OneEach(code, dumped)'
    BY <1>6 DEF LinearInv
  <2> QED  BY <1>1, <2>1, <2>3, <2>4 DEF LinearInv
<1>7. CASE b \notin dumped /\ DumpBlock(b, l)
  <2>1. WellFormed /\ Connected /\ OneEach(code, dumped)
    BY DEF LinearInv
  <2>2. /\ dumped \subseteq DOMAIN bbs /\ 0 \in dumped \cup {b} \cup M
        /\ \A c \in dumped : Targets(c) \subseteq dumped \cup {b} \cup M
    BY <1>1, <1>3 DEF Listing
  <2> QED  BY <1>1, <1>3, <1>4, <1>7, <2>1, <2>2, BlockDumped
<1> QED  BY <1>5, <1>6, <1>7

LEMMA BestDumped ==
  ASSUME LinearInv, bbs' = bbs, GetBest
  PROVE  LinearInv'
<1>1. PICK P, N : P \in Nat /\ Listing(list, dumped, DOMAIN bbs, P, N)
  BY DEF LinearInv
<1> DEFINE w == Waiting(list, dumped)
           b == Best(w)
<1>2. Work(list, DOMAIN bbs, P, N) /\ DOMAIN w # {} /\ DumpBlock(b, list)
  BY <1>1 DEF Listing, GetBest
<1>3. /\ DOMAIN w \subseteq Nat
      /\ \A n \in DOMAIN w : w[n].label \in DOMAIN bbs /\ w[n].label \notin dumped /\ w[n].pos \in 0 .. P
  BY <1>2, WaitingAre
<1>4. b \in DOMAIN bbs /\ b \notin dumped
  <2> HIDE DEF w
  <2>1. \E n \in DOMAIN w : b = w[n].label
    BY <1>1, <1>2, <1>3, BestIs
  <2> QED  BY <1>3, <2>1
<1> HIDE DEF b
<1>5. WellFormed /\ Connected /\ OneEach(code, dumped)
  BY DEF LinearInv
<1>6. /\ dumped \subseteq DOMAIN bbs /\ 0 \in dumped \cup {b} \cup N
      /\ \A c \in dumped : Targets(c) \subseteq dumped \cup {b} \cup N
  BY <1>1 DEF Listing
<1> QED  BY <1>1, <1>2, <1>4, <1>5, <1>6, BlockDumped

\* When nothing waits, every block has been emitted.
LEMMA AllDumped ==
  ASSUME LinearInv, Linearized
  PROVE  dumped = DOMAIN bbs
<1>1. PICK P, N : P \in Nat /\ Listing(list, dumped, DOMAIN bbs, P, N)
  BY DEF LinearInv
<1>2. Work(list, DOMAIN bbs, P, N) /\ dumped \subseteq DOMAIN bbs
  BY <1>1 DEF Listing
<1>3. list.first = 0 \/ DOMAIN Waiting(list, dumped) = {}
  BY DEF Linearized
<1>4. CASE list.first = 0
  <2>1. N = {}
    BY <1>2, <1>4, EndIs
  <2> QED  BY <1>1, <2>1 DEF Listing, LinearInv, Connected, Closed
<1>5. CASE DOMAIN Waiting(list, dumped) = {}
  <2>1. N \subseteq dumped
    BY <1>2, <1>5, WaitingAre
  <2>2. Closed(dumped)
    BY <1>1, <2>1 DEF Listing, Closed
  <2> QED  BY <1>2, <2>2 DEF LinearInv, Connected
<1> QED  BY <1>3, <1>4, <1>5

\* The list that linearize starts with.
LEMMA FirstList ==
  ASSUME NEW D, 0 \in D, NEW l, l = [cells |-> <<[label |-> 0, pos |-> 0, rest |-> 0]>>, first |-> 1, last |-> 1]
  PROVE  Work(l, D, 0, {0})
<1> DEFINE pair == [label |-> 0, pos |-> 0, rest |-> 0]
           p == <<1>>
<1>1. pair \in Pairs(D, 0) /\ pair.rest = 0 /\ pair.label = 0
  BY DEF Pairs
<1>2. l.cells = <<pair>> /\ l.first = 1 /\ l.last = 1 /\ l = [cells |-> l.cells, first |-> l.first, last |-> l.last]
  OBVIOUS
<1> HIDE DEF pair
<1>3. Len(l.cells) = 1 /\ l.cells[1] = pair /\ l.cells \in Seq(Pairs(D, 0))
  BY <1>1, <1>2
<1>4. l \in Lists(D, 0)
  BY <1>2, <1>3 DEF Lists
<1>5. p \in Seq(1 .. Len(l.cells)) /\ Len(p) = 1 /\ p[1] = 1
  BY <1>3
<1> HIDE DEF p
<1>6. \A i \in 1 .. Len(p) : i = 1
  BY <1>5
<1>7. Chain(l, p)
  BY <1>1, <1>2, <1>3, <1>5, <1>6 DEF Chain
<1>8. Named(l, p) = {0}
  <2>1. 1 \in 1 .. Len(p) /\ l.cells[p[1]].label = 0
    BY <1>1, <1>3, <1>5
  <2> QED  BY <1>6, <2>1 DEF Named
<1> QED  BY <1>4, <1>7, <1>8 DEF Work

LEMMA LinearStart ==
  ASSUME ReorderInv, Reordered, dumped = {}, code = <<>>
  PROVE  LinearInv'
<1>1. WellFormed' /\ Connected'
  BY AllPlaced
<1>2. /\ list' = [cells |-> <<[label |-> 0, pos |-> 0, rest |-> 0]>>, first |-> 1, last |-> 1]
      /\ dumped' = {} /\ code' = <<>>
  BY DEF Reordered
<1>3. 0 \in DOMAIN bbs'
  BY <1>1 DEF WellFormed
<1>4. Work(list, DOMAIN bbs, 0, {0})'
  BY <1>2, <1>3, FirstList
<1>5. Listing(list, dumped, DOMAIN bbs, 0, {0})'
  BY <1>2, <1>4 DEF Listing
<1>6. OneEach(code, dumped)'
  <2>1. \A i \in 1 .. Len(<<>>) : FALSE
    BY NoneIs
  <2>2. OneEach(<<>>, {})
    BY <2>1, NoneIs DEF OneEach
  <2> QED  BY <1>2, <2>2
<1> DEFINE zero == 0
           only == {0}
<1>7. zero \in Nat /\ Listing(list, dumped, DOMAIN bbs, zero, only)'
  BY <1>5
<1> HIDE DEF zero, only
<1> QED  BY <1>1, <1>6, <1>7 DEF LinearInv

-----------------------------------------------------------------------------
(* All passes. *)

ScheduleInv ==
  /\ pc \in {"compile", "shake"} => worklist = <<>> /\ here = {0} /\ done = <<>>
  /\ pc \in {"compile", "shake", "reorder"} => dumped = {} /\ code = <<>>
  /\ pc = "shake" => WellFormed
  /\ pc = "reorder" => ReorderInv
  /\ pc = "linearize" => LinearInv
  /\ pc = "linear" => OneEach(code, dumped) /\ dumped = DOMAIN bbs

LEMMA InvUnchanged ==
  ASSUME ScheduleInv, UNCHANGED svars
  PROVE  ScheduleInv'
<1>1. /\ bbs' = bbs /\ pc' = pc /\ worklist' = worklist /\ here' = here /\ done' = done
      /\ list' = list /\ dumped' = dumped /\ code' = code
  BY DEF svars
<1>2. WellFormed' = WellFormed /\ Connected' = Connected /\ \A b : Targets(b)' = Targets(b)
  BY <1>1, BlocksStay
<1>3. ReorderInv' = ReorderInv
  BY <1>1, <1>2 DEF ReorderInv
<1>4. OneEach(code, dumped)' = OneEach(code, dumped)
  BY <1>1
<1>5. LinearInv' = LinearInv
  BY <1>1, <1>2, <1>4 DEF LinearInv, Listing
<1> QED  BY <1>1, <1>2, <1>3, <1>4, <1>5 DEF ScheduleInv

LEMMA InvStep ==
  ASSUME ScheduleInv, ScheduleNext
  PROVE  ScheduleInv'
<1>1. CASE Given
  BY <1>1 DEF Given, ScheduleInv
<1>2. CASE remove_useless_bbs
  <2>1. /\ pc = "shake" /\ pc' = "reorder" /\ worklist' = <<>> /\ here' = {0} /\ done' = <<>>
        /\ dumped' = {} /\ code' = <<>> /\ WellFormed
    BY <1>2 DEF remove_useless_bbs, ScheduleInv
  <2>2. WellFormed' /\ Connected'
    BY <1>2, <2>1, UselessRemoved
  <2>3. ReorderInv'
    <3>1. 0 \in DOMAIN bbs'
      BY <2>2 DEF WellFormed
    <3>2. DOMAIN done' = {}
      BY <2>1
    <3> QED  BY <2>1, <2>2, <3>1, <3>2, NoneIs DEF ReorderInv
  <2> QED  BY <2>1, <2>3 DEF ScheduleInv
<1>3. CASE ScheduleHere
  <2>1. pc = "reorder" /\ pc' = pc /\ dumped' = dumped /\ code' = code
    BY <1>3 DEF ScheduleHere
  <2> QED  BY <1>3, <2>1, HerePlaced DEF ScheduleInv
<1>4. CASE schedule_todo
  <2>1. pc = "reorder" /\ pc' = pc /\ dumped' = dumped /\ code' = code
    BY <1>4 DEF schedule_todo
  <2> QED  BY <1>4, <2>1, TodoTaken DEF ScheduleInv
<1>5. CASE Reordered
  <2>1. pc = "reorder" /\ pc' = "linearize"
    BY <1>5 DEF Reordered
  <2> QED  BY <1>5, <2>1, LinearStart DEF ScheduleInv
<1>6. CASE Dump
  <2>1. pc = "linearize" /\ pc' = pc /\ bbs' = bbs /\ (GetFirst \/ GetBest)
    BY <1>6 DEF Dump
  <2>2. LinearInv'
    BY <2>1, FirstDumped, BestDumped DEF ScheduleInv
  <2> QED  BY <2>1, <2>2 DEF ScheduleInv
<1>7. CASE Linearized
  <2>1. pc = "linearize" /\ pc' = "linear" /\ bbs' = bbs /\ dumped' = dumped /\ code' = code
    BY <1>7 DEF Linearized
  <2>2. LinearInv /\ OneEach(code, dumped)
    BY <2>1 DEF ScheduleInv, LinearInv
  <2>3. dumped = DOMAIN bbs
    BY <1>7, <2>2, AllDumped
  <2>4. OneEach(code, dumped)'
    BY <2>1, <2>2
  <2> QED  BY <2>1, <2>3, <2>4 DEF ScheduleInv
<1>8. CASE Stopped
  BY <1>8 DEF Stopped, ScheduleInv
<1> QED  BY <1>1, <1>2, <1>3, <1>4, <1>5, <1>6, <1>7, <1>8 DEF ScheduleNext, Schedule

LEMMA InvHolds == ScheduleSpec => []ScheduleInv
<1>1. ScheduleInit => ScheduleInv
  BY DEF ScheduleInit, ScheduleInv
<1>2. ScheduleInv /\ [ScheduleNext]_svars => ScheduleInv'
  BY InvStep, InvUnchanged
<1> QED  BY <1>1, <1>2, PTL DEF ScheduleSpec

\* Whatever well-formed blocks comp.rkt makes, the label of every jump and call leads to
\* one block after each pass, and to one place in the linear code: remove-useless-bbs!,
\* renumber-labels and reorder! lose no block that block 0 leads to and give no label
\* twice, and linearize emits each of them, once.
THEOREM BlocksEmittedOnce == ScheduleSpec => []EmittedOnce
<1>1. ScheduleInv => EmittedOnce
  <2> SUFFICES ASSUME ScheduleInv PROVE EmittedOnce
    OBVIOUS
  <2>1. pc \in {"shake", "reorder"} => WellFormed
    BY DEF ScheduleInv, ReorderInv
  <2>2. pc = "linear" => \A b \in DOMAIN bbs : Emitted(b) = 1
    BY OnlyOne DEF ScheduleInv
  <2> QED  BY <2>1, <2>2 DEF EmittedOnce
<1> QED  BY <1>1, InvHolds, PTL

\* However long the work list of linearize gets, and however its pairs are taken from it
\* and put to either of its ends: the pair that is taken for the last one is the last one,
\* so that no label that is put behind it is lost.
THEOREM WorkListKeepsItsEnd == ScheduleSpec => []ListKeepsItsEnd
<1>1. ScheduleInv => ListKeepsItsEnd
  <2> SUFFICES ASSUME ScheduleInv, pc = "linearize"
               PROVE  IF list.first = 0 THEN list.last = 0
                      ELSE \E n \in DOMAIN Listed(list) :
                             list.last # 0 /\ Listed(list)[n] = list.last /\ list.cells[list.last].rest = 0
    BY DEF ListKeepsItsEnd
  <2>1. PICK P, N : P \in Nat /\ Work(list, DOMAIN bbs, P, N)
    BY DEF ScheduleInv, LinearInv, Listing
  <2> QED  BY <2>1, EndIs
<1> QED  BY <1>1, InvHolds, PTL

=============================================================================
