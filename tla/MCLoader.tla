------------------------------ MODULE MCLoader ------------------------------
(***************************************************************************)
(* Loader for TLC: programs with constants of every kind, alone, nested,   *)
(* repeated and as many as the header can count, and up to 17 globals.     *)
(***************************************************************************)
EXTENDS Loader

Push(o) == [op |-> "push_constant", arg |-> o]
Get(g) == [op |-> "push_global", arg |-> g]
Set(g) == [op |-> "set_global", arg |-> g]

a == Symbol("a")
b == Symbol("b")

Objects ==
  {False, Null, Char(97), a, Integer(-1), Integer(255), Integer(256), Integer(-2), Integer(65536), Integer(-65537), Integer(16777216),
   Pair(a, b), List(<<a, Integer(300), a>>), List(<<Char(97), False>>), List(<<Integer(97), False>>),
   Pair(Text(<<97>>), Integer(-300)), Text(<<>>), Text(<<97, 98>>), Vector(<<a>>), Vector(<<Integer(97), Text(<<97>>)>>),
   Vector(<<>>), U8Vector(<<>>), U8Vector(<<1, 2>>), Pair(Vector(<<b>>), U8Vector(<<7>>))}

Pairs == {<<Push(o), Push(p)>> : o \in Objects, p \in Objects}

Repeated == {<<Push(o), Push(List(<<a>>)), Set("g"), Push(a), Push(o), Get("h"), Get("g"), Get("h")>> : o \in Objects}

ManyConstants == {[i \in 1 .. n |-> Push(Integer(299 + i))] : n \in {29, 255, 256, 257, 258}}

ManyGlobals == {[i \in 1 .. n |-> IF i % 2 = 0 THEN Get(i) ELSE Set(i)] : n \in {1, 2, 15, 16, 17}}

\* Files of two to four records, with data that cross the ends of records.
MCExposed ==
  {<<Push(Char(1))>>, <<Push(Text(<<97>>)), Get("g")>>, <<Push(List(<<a, b>>)), Push(Integer(70000)), Set("g"), Push(a)>>}

MCPrograms == MCExposed \cup Pairs \cup Repeated \cup ManyConstants \cup ManyGlobals
=============================================================================
