------------------------------- MODULE Syntax -------------------------------
(***************************************************************************)
(* The programs that the compiler gets, the graph of nodes that it makes   *)
(* of them (ast.rkt, env.rkt), and what analysis.rkt finds out about the   *)
(* nodes and variables of the graph.                                       *)
(***************************************************************************)
EXTENDS Integers, Sequences, FiniteSets, SequencesExt, Functions, TLC

CONSTANTS
  Primitive,        \* the primitives; the other variables of an operator are procedures
  primitive_nargs,  \* how many arguments each takes
  Unspecified,      \* the primitives without a result
  Global            \* the variables of the toplevel, also those that the compiler adds

-----------------------------------------------------------------------------
(***************************************************************************)
(* Values.                                                                 *)
(***************************************************************************)
Truth(b) == [kind |-> "bool", b |-> b]
List(list) == [kind |-> "list", list |-> list]
IsFalse(v) == v = Truth(FALSE)

\* The primitives that have a constant folder, among them one of those that read what
\* may be changed; what they give; and the arguments for which the folder raises.
Folders == {"not", "null?", "car"}
mutable_data_accessors == {"car"}
Fold(id, args) ==
  CASE id = "not"   -> Truth(IsFalse(args[1]))
    [] id = "null?" -> Truth(args[1] = List(<<>>))
    [] id = "car"   -> args[1].list[1]
Raises(id, args) == id = "car" /\ ~(args[1].kind = "list" /\ args[1].list # <<>>)

ASSUME SyntaxAssumption ==
  /\ Unspecified \subseteq Primitive /\ Folders \subseteq Primitive \ Unspecified
  /\ Primitive \cap Global = {}
  /\ primitive_nargs \in [Primitive -> Nat]

-----------------------------------------------------------------------------
(***************************************************************************)
(* Programs are trees, of the forms that the compiler keeps and of those   *)
(* that the parser expands: and, or, cond, let, let* and letrec.           *)
(***************************************************************************)
Cst(val) == [kind |-> "cst", val |-> val, children |-> <<>>]
Ref(var) == [kind |-> "ref", var |-> var, children |-> <<>>]
Def(var, rhs) == [kind |-> "def", var |-> var, children |-> <<rhs>>]
SetVar(var, rhs) == [kind |-> "set", var |-> var, children |-> <<rhs>>]
If(tst, thn, els) == [kind |-> "if*", children |-> <<tst, thn, els>>]
Prc(params, body) == [kind |-> "prc", params |-> params, rest |-> FALSE, children |-> <<body>>]
PrcRest(params, body) == [Prc(params, body) EXCEPT !.rest = TRUE]
Call(op, args) == [kind |-> "call", children |-> <<op>> \o args]
Sequence(body) == [kind |-> "seq", children |-> body]

And(exprs) == [kind |-> "and", children |-> exprs]
Or(exprs) == [kind |-> "or", children |-> exprs]
Binding(form, params, inits, body) == [kind |-> form, params |-> params, children |-> Append(inits, body)]
Let(params, inits, body) == Binding("let", params, inits, body)
Body(n) == Last(n.children)
Inits(n) == Front(n.children)

\* A clause of a cond has a test and what follows it; that of else has no test.
Cond(clauses) == [kind |-> "cond", children |-> clauses]
Clause(tst, rhs) == [kind |-> "clause", children |-> <<tst, rhs>>]
Arrow(tst, receiver) == [kind |-> "=>", children |-> <<tst, receiver>>]
Else(rhs) == [kind |-> "else", children |-> <<rhs>>]

IsPrimitiveCall(n) == n.kind = "call" /\ n.children[1].kind = "ref" /\ n.children[1].var \in Primitive

\* A node and all nodes below it.
RECURSIVE Nodes(_)
Nodes(n) == {n} \cup UNION {Nodes(n.children[i]) : i \in DOMAIN n.children}

Defined(p) == {m.var : m \in {n \in Range(p.children) : n.kind = "def"}}
Assigned(n) == {m.var : m \in {k \in Nodes(n) : k.kind = "set"}}

\* A primitive that is used as a value is a procedure that calls it.
EtaParams(id) == SubSeq(<<"1st", "2nd", "3rd">>, 1, primitive_nargs[id])
EtaExpansion(id) == Prc(EtaParams(id), Call(Ref(id), [i \in DOMAIN EtaParams(id) |-> Ref(EtaParams(id)[i])]))

\* The free variables of a node that are not global.
RECURSIVE Free(_)
Free(n) ==
  CASE n.kind = "ref" -> {n.var} \ (Global \cup Primitive)
    [] n.kind = "prc" -> Free(n.children[1]) \ Range(n.params)
    [] OTHER          -> UNION {Free(n.children[i]) : i \in DOMAIN n.children}

-----------------------------------------------------------------------------
(***************************************************************************)
(* The graph g of the compiler has numbered nodes, which know their parent *)
(* and their children; g.next is the number of the node made next.  Node 0 *)
(* is #f.  A node is in the graph until it is discarded, also when the     *)
(* program cannot be seen from it any more.  The variables of procedures   *)
(* that are assigned are kept in g.boxed: the call of #%box-set! that an   *)
(* assignment becomes stays in var-sets when it is discarded, and a copy   *)
(* of it does not get there.                                               *)
(***************************************************************************)
Root == 1
Kind(g, n) == g.nodes[n].kind
Kids(g, n) == g.nodes[n].children
child1(g, n) == Kids(g, n)[1]
Parent(g, n) == g.nodes[n].parent
VarOf(g, n) == g.nodes[n].var

\* The nodes that refer to a variable, and whether some assign it (var-refs, var-sets).
var_refs(g, var) == {n \in DOMAIN g.nodes : Kind(g, n) = "ref" /\ VarOf(g, n) = var}
mutable_var(g, var) == var \in g.boxed \/ \E n \in DOMAIN g.nodes : Kind(g, n) = "set" /\ VarOf(g, n) = var

\* The node of the value that the variable may be counted on to have: none or one.
var_val(g, var) ==
  IF mutable_var(g, var) THEN {}
  ELSE {child1(g, n) : n \in {m \in DOMAIN g.nodes : Kind(g, m) = "def" /\ VarOf(g, m) = var}}

RECURSIVE Below(_, _)
Below(g, n) == {n} \cup UNION {Below(g, child) : child \in Range(Kids(g, n))}

\* inside?: n is m or below it.
RECURSIVE Inside(_, _, _)
Inside(g, n, m) == n = m \/ (n # 0 /\ \E parent \in {Parent(g, n)} : Inside(g, parent, m))

\* The program that a node stands for.
RECURSIVE Tree(_, _)
Tree(g, n) ==
  LET node == g.nodes[n]
      children == [i \in DOMAIN node.children |-> Tree(g, node.children[i])]
  IN [[field \in DOMAIN node \ {"parent"} |-> node[field]] EXCEPT !.children = children]

-----------------------------------------------------------------------------
(***************************************************************************)
(* What analysis.rkt says of nodes and variables.                          *)
(***************************************************************************)
\* The constants among the global variables have no place at run time.
IsConstant(g, var) == \E v \in var_val(g, var) : Kind(g, v) = "cst"

\* needs-closure?, which answers the opposite of its name: the variable is bound to a
\* procedure without rest parameter, and only ever called, with as many arguments as it
\* takes.  The references are not only those of the program.
IsDirect(g, var) ==
  \E v \in var_val(g, var) :
    /\ Kind(g, v) = "prc" /\ ~g.nodes[v].rest
    /\ \A r \in var_refs(g, var) :
         LET parent == Parent(g, r)
         IN /\ parent # 0 /\ Kind(g, parent) = "call" /\ child1(g, parent) = r
            /\ Len(Kids(g, parent)) = Len(g.nodes[v].params) + 1

\* A call has an effect unless its operator is a primitive with a constant folder or a
\* variable bound to a procedure without one.  (The recursive call for an operator that
\* is a lambda has its arguments in the wrong places and always says no.)
RECURSIVE SideEffectLess(_, _, _, _)
SideEffectLess(g, n, oblivious, seen) ==
  LET all(nodes) == \A child \in Range(nodes) : SideEffectLess(g, child, oblivious, seen)
  IN CASE Kind(g, n) \in {"cst", "prc"} -> TRUE
       [] Kind(g, n) = "ref"            -> ~(oblivious /\ mutable_var(g, VarOf(g, n)))
       [] Kind(g, n) \in {"seq", "if*"} -> all(Kids(g, n))
       [] Kind(g, n) \in {"def", "set"} -> FALSE
       [] Kind(g, n) = "call" ->
            /\ all(Tail(Kids(g, n)))
            /\ Kind(g, child1(g, n)) = "ref"
            /\ LET var == VarOf(g, child1(g, n))
               IN \/ var \in Folders /\ ~(oblivious /\ var \in mutable_data_accessors)
                  \/ /\ var \notin seen
                     /\ \E v \in var_val(g, var) :
                          /\ Kind(g, v) = "prc"
                          /\ \E body \in {child1(g, v)} : SideEffectLess(g, body, oblivious, seen \cup {var})

side_effect_less(g, n) == SideEffectLess(g, n, FALSE, {})
side_effect_oblivious(g, n) == SideEffectLess(g, n, TRUE, {})

\* The references that mark-needed-global-vars! meets below a node.
RECURSIVE Met(_, _)
Met(g, n) ==
  CASE Kind(g, n) = "ref" -> {VarOf(g, n)}
    [] Kind(g, n) = "def" /\ side_effect_less(g, child1(g, n)) -> {}
    [] OTHER -> UNION {Met(g, child) : child \in Range(Kids(g, n))}

\* mark-var!: the variables among vars that have a place, and with them those that their
\* values refer to.
Marked(g, vars) == {x \in vars \cap Global : ~IsConstant(g, x)}
BehindValues(g, vars) ==
  UNION {Met(g, v) : v \in {w \in UNION {var_val(g, x) : x \in vars} : side_effect_less(g, w)}}

\* var-needed? of the variables of a program.
Needed(g) ==
  LET needed[i \in 0 .. Cardinality(Global)] ==
        Marked(g, Met(g, Root) \cup IF i = 0 THEN {} ELSE BehindValues(g, needed[i - 1]))
  IN needed[Cardinality(Global)]
=============================================================================
