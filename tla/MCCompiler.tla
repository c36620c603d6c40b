----------------------------- MODULE MCCompiler -----------------------------
(***************************************************************************)
(* Compiler for TLC: programs that define a variable x, a procedure f and  *)
(* in some a procedure g, and then use them.                               *)
(***************************************************************************)
EXTENDS Compiler

MCPrimitive == {"a", "b", "c", "w", "q", "#%halt", "not", "null?", "car", "cons", "set-car!"}
MCprimitive_nargs ==
  [id \in MCPrimitive |-> IF id \in {"q", "cons", "set-car!"} THEN 2
                         ELSE IF id \in {"w", "not", "null?", "car"} THEN 1 ELSE 0]
MCUnspecified == {"w", "set-car!"}
MCGlobal == {"x", "f", "g", "#%box", "#%unbox", "#%box-set!"} \cup {Eta(id) : id \in MCPrimitive}

true == Cst(Truth(TRUE))
false == Cst(Truth(FALSE))
A == Call(Ref("a"), <<>>)
B == Call(Ref("b"), <<>>)
C == Call(Ref("c"), <<>>)
W(e) == Call(Ref("w"), <<e>>)
Q(e1, e2) == Call(Ref("q"), <<e1, e2>>)
f(e) == Call(Ref("f"), <<e>>)
g(e) == Call(Ref("g"), <<e>>)
x == Ref("x")
n == Ref("n")
m == Ref("m")
k == Ref("k")
nil == Cst(List(<<>>))
Not1(e) == Call(Ref("not"), <<e>>)
IsNull(e) == Call(Ref("null?"), <<e>>)
Car(e) == Call(Ref("car"), <<e>>)
g2(e1, e2) == Call(Ref("g"), <<e1, e2>>)

\* Bodies of f, a procedure of n: tests of all kinds, calls in all positions, procedures
\* that keep variables of others.
FBodies ==
  {n,
   If(If(n, A, B), W(n), C),
   If(A, f(B), n),
   Q(A, If(n, B, n)),
   Sequence(<<W(n), If(n, f(A), false)>>),
   SetVar("x", n),
   Sequence(<<If(n, A, SetVar("x", B)), If(false, A, x)>>),
   Call(Prc(<<"m", "k">>, If(k, m, n)), <<A, n>>),
   Prc(<<"m">>, Q(n, m)),
   If(Prc(<<>>, n), A, n),
   Q(If(n, If(A, n, B), C), n),
   If(SetVar("x", A), B, If(Sequence(<<W(n), A>>), f(x), n))}

GBodies == {f(n), If(n, f(f(A)), x), Q(f(n), Prc(<<>>, f(n)))}

Uses ==
  {<<>>,
   <<W(f(A))>>,
   <<If(If(A, B, f(C)), W(x), false)>>,
   <<If(A, f(B), C), W(x)>>,
   <<Q(f(A), If(B, f(true), x))>>,
   <<W(Ref("f")), f(A)>>,
   <<SetVar("x", If(A, f(B), true)), W(x)>>,
   <<If(f(x), W(x), If(A, f(A), SetVar("x", B))), W(x)>>}

GUses == {<<W(g(A))>>, <<g(A), If(g(x), W(Q(A, g(B))), B)>>}

Program(defs, uses) == Sequence(defs \o uses \o <<Call(Ref("#%halt"), <<>>)>>)
X == {Def("x", true), Def("x", A)}
DefF(body) == Def("f", Prc(<<"n">>, body))
DefG(body) == Def("g", Prc(<<"n">>, body))

-----------------------------------------------------------------------------
(***************************************************************************)
(* Programs for the front end: procedures that only call another one, with *)
(* fewer, other or exchanged arguments; lambdas that are called at once;   *)
(* constants; variables with the value of another one.                     *)
(*                                                                         *)
(* The front end changes what a program does where                         *)
(* - a procedure that only calls another one does not give its arguments   *)
(*   on, each once and in order, and an argument has an effect;            *)
(* - a variable stands for the value that an assigned one has had before.  *)
(* There is no such program among these.                                   *)
(***************************************************************************)
Def2(body) == Def("g", Prc(<<"m", "k">>, body))
FInlined == {W(n), Q(n, n), If(n, A, B), Not1(n)}

\* Called with effects, and without.
Passing == {Def("g", Prc(<<"m">>, f(m))), Def("g", Prc(<<"m">>, Q(m, m))), Def("g", Prc(<<"m">>, Not1(m)))}
Dropping == {Def("g", Prc(<<"m">>, e)) : e \in {f(true), f(x), f(Not1(m))}}
Dropping2 == {Def2(e) : e \in {f(k), Q(k, m), Q(x, k)}}

TwoCalls == {<<W(g(A)), g(f(B))>>, <<g(g(A)), W(x)>>}
TwoPureCalls == {<<W(g(true)), g(x)>>, <<W(g(Not1(x))), g(Prc(<<"k">>, Q(k, x)))>>}

AtOnce ==
  {Call(Prc(<<"m", "k">>, body), args) :
     body \in {Q(k, m), Sequence(<<W(k), m>>), If(A, k, m), Prc(<<>>, Q(m, k)), Call(Prc(<<"n">>, Q(n, m)), <<k>>)},
     args \in {<<true, x>>, <<A, nil>>, <<Not1(x), Not1(nil)>>, <<Prc(<<>>, x), true>>, <<f(x), IsNull(nil)>>}}

Foldable ==
  {<<W(Not1(Not1(true)))>>,
   <<If(Not1(nil), W(A), W(B)), If(x, W(Not1(A)), false)>>,
   <<W(If(IsNull(nil), Sequence(<<true, x, B>>), A))>>,
   <<If(false, Car(nil), W(Car(Cst(List(<<Truth(FALSE)>>)))))>>,
   <<Let(<<>>, <<>>, Sequence(<<f(true), Not1(f(x)), W(x)>>)),
     Let(<<>>, <<>>, Sequence(<<Prc(<<>>, A), If(x, true, x)>>))>>}

Aliases == {<<DefF(body), Def("g", e)>> : body \in {n, Q(n, n), If(n, f(A), B)}, e \in {Ref("f"), x, Not1(x), Not1(true), nil}}
AliasUses == {<<W(Ref("g"))>>, <<Q(x, Ref("g")), W(f(A)), W(Ref("g"))>>}

FrontEndPrograms ==
  {Program(<<d, DefF(fb), dg>>, u) : d \in X, fb \in FInlined, dg \in Passing, u \in TwoCalls}
  \cup {Program(<<d, DefF(fb), dg>>, u) : d \in X, fb \in FInlined, dg \in Dropping, u \in TwoPureCalls}
  \cup {Program(<<d, DefF(n), Def2(Q(m, k))>>, <<W(g2(A, B)), g2(x, f(A))>>) : d \in X}
  \cup {Program(<<d, DefF(fb), dg>>, <<W(g2(true, x)), g2(nil, Not1(x))>>) : d \in X, fb \in FInlined, dg \in Dropping2}
  \cup {Program(<<d, DefF(fb)>>, <<e, W(e)>>) : d \in X, fb \in {Q(n, n), Not1(n)}, e \in AtOnce}
  \cup {Program(<<d, DefF(fb)>>, u) : d \in X, fb \in FInlined, u \in Foldable}
  \cup {Program(<<d>> \o p, u) : d \in X, p \in Aliases, u \in AliasUses}
  \cup {Program(<<d, Def("g", Not1(x))>>, <<SetVar("x", e), W(Ref("g"))>>) : d \in X, e \in {false, A}}
  \cup {Program(<<d>>, <<W(Call(Prc(<<"m", "k">>, Sequence(<<SetVar("x", k), m>>)), <<Not1(x), e>>)), W(x)>>) :
           d \in X, e \in {false, B}}

CompilerPrograms ==
  {Program(<<d, DefF(fb)>>, u) : d \in X, fb \in FBodies, u \in Uses}
  \cup {Program(<<Def("x", A), DefF(fb), DefG(gb)>>, u) : fb \in FBodies, gb \in GBodies, u \in GUses}
  \cup {Program(<<d, DefF(Prc(<<"m">>, e))>>, <<W(Call(f(A), <<B>>)), Call(Call(Ref("f"), <<x>>), <<C>>)>>) :
          d \in X, e \in {Q(n, m), If(m, n, m)}}
  \cup {Program(<<d, DefF(Prc(<<"m">>, Prc(<<"k">>, e)))>>, <<W(Call(Call(f(A), <<B>>), <<C>>))>>) :
          d \in X, e \in {Q(n, Q(m, k)), If(k, m, Q(k, n))}}

-----------------------------------------------------------------------------
(***************************************************************************)
(* Programs for the parser: the derived forms, variables of procedures     *)
(* that are assigned, alone and by two closures, rest parameters, and      *)
(* primitives that are used as values.                                     *)
(***************************************************************************)
SetN(e) == SetVar("n", e)
Thunk(e) == Prc(<<>>, e)
Run(e) == Call(e, <<>>)

DerivedBodies ==
  {And(<<n, A>>), Q(Or(<<Thunk(n), A>>), Or(<<n, Thunk(B)>>)),
   If(And(<<n, A, B>>), W(n), Or(<<>>)),
   If(Or(<<n, Or(<<A, B>>), C>>), And(<<>>), W(n)),
   Or(<<And(<<A, n>>), Not1(n), And(<<B>>)>>),
   Call(If(n, Ref("q"), Prc(<<"m", "k">>, m)), <<Or(<<A, n>>), B>>),
   Cond(<<Clause(n, A), Arrow(B, Prc(<<"m">>, Q(m, n))), Else(C)>>),
   Cond(<<Arrow(A, Ref("not")), Clause(Or(<<n, B>>), Sequence(<<W(n), C>>))>>),
   Let(<<"m", "k">>, <<A, Q(n, B)>>, Q(k, Thunk(m))),
   Binding("let*", <<"m", "k">>, <<A, Q(n, m)>>, Sequence(<<W(m), Q(k, m)>>))}

AssignedBodies ==
  {Sequence(<<If(A, SetN(B), false), Q(n, n)>>),
   Q(n, Sequence(<<SetN(Not1(n)), n>>)),
   Let(<<"m">>, <<Thunk(SetN(Not1(n)))>>, Sequence(<<W(n), Run(m), Q(n, Sequence(<<Run(m), n>>))>>)),
   Thunk(Sequence(<<SetN(Not1(n)), n>>)),
   Let(<<"m">>, <<n>>, Sequence(<<SetN(B), Q(m, n)>>)),
   Binding("letrec", <<"m">>, <<Prc(<<"k">>, If(k, Call(m, <<false>>), W(n)))>>, Call(m, <<n>>)),
   Binding("letrec", <<"m", "k">>, <<Thunk(Q(n, Thunk(k))), Not1(n)>>, Q(Run(m), k)),
   Prc(<<"k">>, Sequence(<<SetN(k), SetVar("k", A), Q(n, k)>>))}

RestBodies ==
  {PrcRest(<<"n", "k">>, If(IsNull(k), n, Q(n, Car(k)))),
   PrcRest(<<"n">>, If(IsNull(n), A, Thunk(Car(n)))),
   PrcRest(<<"m", "n">>, Sequence(<<W(n), SetN(m), Q(n, m)>>))}

f2(e1, e2) == Call(Ref("f"), <<e1, e2>>)
f3(e1, e2, e3) == Call(Ref("f"), <<e1, e2, e3>>)
Counter == Thunk(Sequence(<<SetN(Not1(n)), n>>))

ParserPrograms ==
  {Program(<<Def("x", A), DefF(fb)>>, <<W(f(x)), f(B)>>) : fb \in DerivedBodies}
  \cup {Program(<<Def("x", A), DefF(fb)>>, u) : fb \in AssignedBodies, u \in {<<W(f(x)), f(true)>>, <<W(f(B))>>}}
  \cup {Program(<<DefF(Counter)>>, <<Let(<<"m", "k">>, <<f(A), f(true)>>, Q(Run(m), Q(Run(k), Run(m))))>>)}
  \cup {Program(<<DefF(Prc(<<"k">>, Sequence(<<SetN(Q(n, k)), n>>)))>>,
                <<Let(<<"m">>, <<f(A)>>, Sequence(<<Call(m, <<B>>), Call(m, <<C>>)>>))>>)}
  \cup {Program(<<Def("x", A), Def("f", fb)>>, <<W(f(x)), f2(B, x), f3(x, C, true)>>) : fb \in RestBodies}
  \cup {Program(<<Def("f", PrcRest(<<"n", "k">>, Q(n, Car(k))))>>, <<W(f2(A, B)), f2(B, C)>>)}
  \cup {Program(<<DefF(W(n))>>, <<W(f(Ref(id))), f(Ref("q"))>>) : id \in {"a", "not"}}
  \cup {Program(<<DefF(Call(n, <<A>>))>>, <<f(Ref("not")), f(Ref("w")), f(Prc(<<"m">>, Q(m, m)))>>)}
  \cup {Program(<<Def("g", Ref("q"))>>, u) : u \in {<<g2(A, B)>>, <<g2(A, B), W(g2(C, Ref("g")))>>}}

MCPrograms == CompilerPrograms \cup FrontEndPrograms \cup ParserPrograms
=============================================================================
