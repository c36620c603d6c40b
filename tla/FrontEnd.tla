------------------------------ MODULE FrontEnd ------------------------------
(***************************************************************************)
(* The front end of the compiler: the part of the parser that makes the    *)
(* graph of a program (parser.rkt), and the passes over the graph that     *)
(* rewrite it before code is made (front-end.rkt), in the order in which   *)
(* picobit.rkt calls them.                                                 *)
(*                                                                         *)
(* The passes recur over the graph and change it under way.  Here a pass   *)
(* has an agenda of the nodes that it has still to visit, and a step is    *)
(* one visit.  A node may be discarded while it is on the agenda; it has   *)
(* then neither a parent nor children, and the visit does nothing.         *)
(***************************************************************************)
EXTENDS Syntax

VARIABLES
  ast,       \* the graph
  passes,    \* the passes to run, the one that runs first
  agenda     \* the visits of this pass, the next one first

fvars == <<ast, passes, agenda>>

-----------------------------------------------------------------------------
(***************************************************************************)
(* The parser.  A variable of a procedure is an object of its own, here a  *)
(* name with the number of the procedure.  It might be assigned further    *)
(* down and then be in a box: each reference to it is made a call of       *)
(* #%unbox, and each assignment one of #%box-set!.                         *)
(***************************************************************************)
Name(id, prc) == id \o "." \o ToString(prc)
Extended(env, ids, prc) == [id \in Range(ids) |-> Name(id, prc)] @@ env
Eta(id) == id \o ".eta"

NoGraph == [nodes |-> <<>>, next |-> Root, boxed |-> {}]
NewNode(node, parent) == [node EXCEPT !.children = <<>>] @@ [parent |-> parent]
Added(g, node) == [g EXCEPT !.nodes = (g.next :> node) @@ @, !.next = @ + 1]
\* As a further child of its parent.  (The set of one element makes TLC compute it once.)
AddedBelow(g, node) ==
  CHOOSE r \in {[Added(c, node) EXCEPT !.nodes[node.parent].children = Append(@, c.next)] : c \in {g}} : TRUE
RefAdded(g, var, parent) == AddedBelow(g, NewNode(Ref(var), parent))
CallAdded(g, parent) == AddedBelow(g, [kind |-> "call", parent |-> parent, children |-> <<>>])
PrcAdded(g, params, parent) ==
  AddedBelow(g, [kind |-> "prc", params |-> params, rest |-> FALSE, parent |-> parent, children |-> <<>>])

\* What the derived forms stand for.  The value of a test is not kept.
Temporary == "tmp"
Expanded(use, t) ==
  LET n == Len(t.children)
      first == t.children[1]
      others == [t EXCEPT !.children = Tail(@)]
      if_first(form) == Let(<<Temporary>>, <<first>>, form)
  IN CASE t.kind \in {"and", "or"} /\ n = 0 -> Cst(Truth(t.kind = "and"))
       [] t.kind \in {"and", "or"} /\ n = 1 -> first
       [] t.kind = "and" /\ n > 1 -> If(first, others, Cst(Truth(FALSE)))
       [] t.kind = "or" /\ n > 1 ->
            IF use = "test" THEN If(first, Cst(Truth(TRUE)), others)
            ELSE Let(<<Temporary>>, <<first>>, If(Ref(Temporary), Ref(Temporary), others))
       [] t.kind = "cond" /\ n = 0 -> Cst(Truth(FALSE))
       [] t.kind = "cond" /\ n > 0 ->
            (CASE first.kind = "else"   -> first.children[1]
               [] first.kind = "=>"     -> Let(<<Temporary>>, <<first.children[1]>>,
                                             If(Ref(Temporary), Call(first.children[2], <<Ref(Temporary)>>), others))
               [] first.kind = "clause" -> If(first.children[1], first.children[2], others))
       [] t.kind = "let" -> IF n = 1 THEN first ELSE Call(Prc(t.params, Body(t)), Inits(t))
       [] t.kind = "let*" ->
            IF n = 1 THEN first
            ELSE Let(<<t.params[1]>>, <<first>>, Binding("let*", Tail(t.params), Tail(Inits(t)), Body(t)))
       [] t.kind = "letrec" ->
            Let(t.params, [i \in DOMAIN t.params |-> Cst(Truth(FALSE))],
                Sequence([i \in DOMAIN t.params |-> SetVar(t.params[i], t.children[i])] \o <<Body(t)>>))

\* How the value of the child i is used.
UseOf(i, kind, use) ==
  CASE kind = "if*"  -> IF i = 1 THEN "test" ELSE IF use = "operator" THEN "value" ELSE use
    [] kind = "call" -> IF i = 1 THEN "operator" ELSE "value"
    [] OTHER         -> "value"

\* A reference to the variable of a procedure.
ParseLocal(var, parent, g) == RefAdded(RefAdded(CallAdded(g, parent), "#%unbox", g.next), var, g.next)

\* The body of the procedure r has been parsed, and assigns some of its parameters: it is
\* made a procedure that gets them in boxes, which r makes of its own parameters.
BoxesMade(g, r, ids) ==
  LET mutable == SelectSeq(ids, LAMBDA id : mutable_var(g, Name(id, r)))
      tmp(id) == Name(id \o "'", r)
      params == [i \in DOMAIN ids |-> IF ids[i] \in Range(mutable) THEN tmp(ids[i]) ELSE Name(ids[i], r)]
      app == g.next
      prc == app + 1
      empty == [g EXCEPT !.nodes[r].children = <<>>, !.nodes[r].params = params]
      called == PrcAdded(CallAdded(empty, r), [i \in DOMAIN mutable |-> Name(mutable[i], r)], app)
      hooked == [called EXCEPT !.nodes[prc].children = <<child1(g, r)>>, !.nodes[child1(g, r)].parent = prc]
      box(g1, id) == ParseLocal(tmp(id), g1.next, RefAdded(CallAdded(g1, app), "#%box", g1.next))
  IN IF mutable = <<>> THEN g ELSE FoldLeft(box, hooked, mutable)

\* The graph with the nodes of the tree t, as a child of parent: its root has the next number.
RECURSIVE Parse(_, _, _, _, _)
Parse(use, t, parent, env, g) ==
  LET id == g.next
      here == IF t.kind = "prc" THEN Extended(env, t.params, id) ELSE env
      node == IF t.kind = "prc" THEN [t EXCEPT !.params = [i \in DOMAIN @ |-> here[@[i]]]] ELSE t
      child(g1, i) == Parse(UseOf(i, t.kind, use), t.children[i], id, here, g1)
      below(g1) == FoldLeft(child, g1, [i \in DOMAIN t.children |-> i])
  IN CASE t.kind = "ref" /\ t.var \in DOMAIN env -> ParseLocal(env[t.var], parent, g)
       [] t.kind = "ref" /\ t.var \notin DOMAIN env ->
            RefAdded(g, IF t.var \in Primitive /\ use # "operator" THEN Eta(t.var) ELSE t.var, parent)
       [] t.kind = "set" /\ t.var \in DOMAIN env ->
            Parse("value", t.children[1], id, env,
              RefAdded(
                RefAdded(CallAdded([g EXCEPT !.boxed = @ \cup {env[t.var]}], parent), "#%box-set!", id),
                env[t.var], id))
       [] t.kind \in {"and", "or", "cond", "let", "let*", "letrec"} -> Parse(use, Expanded(use, t), parent, env, g)
       [] t.kind = "seq" /\ Len(t.children) = 1 -> Parse("value", t.children[1], parent, env, g)
       [] t.kind = "prc" ->
            CHOOSE r \in {BoxesMade(g1, id, t.params) : g1 \in {below(AddedBelow(g, NewNode(node, parent)))}} : TRUE
       [] OTHER -> below(AddedBelow(g, NewNode(node, parent)))

\* A sequence of the toplevel is a part of the program.
RECURSIVE TopList(_)
TopList(exprs) == FlattenSeq([i \in DOMAIN exprs |-> IF exprs[i].kind = "seq" THEN TopList(exprs[i].children) ELSE <<exprs[i]>>])

\* The procedure for a primitive that is used as a value.
EtaAdded(g, id) ==
  LET prc == g.next + 1
      params == [i \in DOMAIN EtaParams(id) |-> Name(EtaParams(id)[i], prc)]
      app == CallAdded(PrcAdded(AddedBelow(g, NewNode(Def(Eta(id), Ref(id)), Root)), params, g.next), prc)
  IN FoldLeft(LAMBDA g1, var : RefAdded(g1, var, prc + 1), app, <<id>> \o params)

\* The part of the library that assigned variables need.
Boxes ==
  <<Def("#%box", Prc(<<"a">>, Call(Ref("cons"), <<Ref("a"), Cst(List(<<>>))>>))),
    Def("#%unbox", Ref("car")),
    Def("#%box-set!", Ref("set-car!"))>>

\* The procedures for primitives come first, then the library and then the program.  Of the
\* first two only what is referred to is there.
parse_program(p) ==
  LET top(g, t) == Parse("value", t, Root, <<>>, g)
      toFront(n, g) == [g EXCEPT !.nodes[Root].children =
                          SubSeq(@, Len(@) - n + 1, Len(@)) \o SubSeq(@, 1, Len(@) - n)]
      parsed == FoldLeft(top, Added(NoGraph, NewNode(p, 0)), TopList(p.children))
      with_library(g) == IF g.boxed = {} THEN g ELSE toFront(Len(Boxes), FoldLeft(top, g, Boxes))
      with_etas(g) == FoldSet(LAMBDA id, g1 : toFront(1, EtaAdded(g1, id)), g,
                              {id \in Primitive : var_refs(g, Eta(id)) # {}})
  IN CHOOSE r \in {with_etas(g) : g \in {with_library(g1) : g1 \in {parsed}}} : TRUE

-----------------------------------------------------------------------------
(***************************************************************************)
(* Rewriting (ast.rkt).                                                    *)
(***************************************************************************)
\* discard-node!: the node and what is below it are gone.
Discarded(g, n) == [g EXCEPT !.nodes = [m \in DOMAIN @ \ Below(g, n) |-> @[m]]]

substitute_child(g, parent, old, new) ==
  Discarded(
    [g EXCEPT !.nodes[new].parent = parent,
              !.nodes[parent].children = [i \in DOMAIN @ |-> IF @[i] = old THEN new ELSE @[i]]], old)

\* Mutant: without fix-children-parent!.
splice_begin_OldParents(g, old, new, parent) ==
  [g EXCEPT !.nodes[parent].children =
     FlattenSeq([i \in DOMAIN @ |-> IF @[i] = old THEN Kids(g, new) ELSE <<@[i]>>])]

\* splice-begin!: the children of the sequence new take the place of the child old of the sequence
\* parent; old stays behind, with its parent.
splice_begin(g, old, new, parent) ==
  LET spliced == FlattenSeq([i \in DOMAIN Kids(g, parent) |->
                               IF Kids(g, parent)[i] = old THEN Kids(g, new) ELSE <<Kids(g, parent)[i]>>])
  IN [g EXCEPT !.nodes = [m \in DOMAIN @ |->
        IF m = parent THEN [@[m] EXCEPT !.children = spliced]
        ELSE IF m \in Range(spliced) THEN [@[m] EXCEPT !.parent = parent] ELSE @[m]]]

\* The graph with a copy of the node n and of what is below it, and the root of the copy.
\* The variables of the procedures that are copied are new ones.
CopyBelow(g, n, below) ==
  LET new(m) == g.next - 1 + Cardinality({k \in below : k <= m})
      binders(var) == {m \in below : Kind(g, m) = "prc" /\ var \in Range(g.nodes[m].params)}
      fresh(var) == IF binders(var) = {} THEN var ELSE Name(var, new(CHOOSE m \in binders(var) : TRUE))
      moved(node) == [node EXCEPT !.children = [i \in DOMAIN @ |-> new(@[i])],
                                  !.parent = IF @ \in below THEN new(@) ELSE 0]
      copy(node) ==
        CASE node.kind \in {"ref", "set"} -> [moved(node) EXCEPT !.var = fresh(@)]
          [] node.kind = "prc" -> [moved(node) EXCEPT !.params = [i \in DOMAIN @ |-> fresh(@[i])]]
          [] OTHER -> moved(node)
      nodes == [k \in {new(m) : m \in below} |-> copy(g.nodes[CHOOSE m \in below : new(m) = k])]
  IN [graph |-> [g EXCEPT !.nodes = nodes @@ @, !.next = @ + Cardinality(below)], root |-> new(n)]

copy_node(g, n) == CopyBelow(g, n, Below(g, n))

\* A copy of new takes the place of the node old.
Replaced(g, old, new) ==
  CHOOSE r \in {substitute_child(c.graph, Parent(g, old), old, c.root) : c \in {copy_node(g, new)}} : TRUE

-----------------------------------------------------------------------------
(***************************************************************************)
(* beta!.  The graph after it, and the body that the call was reduced to;  *)
(* or node 0 when the procedure takes another number of arguments.         *)
(***************************************************************************)
\* Copies of the argument take the place of the references to the parameter.
ArgumentPut(g, param, arg) == FoldSet(LAMBDA r, g1 : Replaced(g1, r, arg), g, var_refs(g, param))

ArgumentsPut(g, prc, args) ==
  LET params == g.nodes[prc].params
  IN FoldLeft(LAMBDA g1, i : ArgumentPut(g1, params[i], args[i]), g, [i \in DOMAIN args |-> i])

\* The body of the copy prc takes the place of the call e: into a sequence it goes as
\* its parts, anywhere else it is copied once more.
BodyPut(g, prc, e) ==
  LET parent == Parent(g, e)
      new == child1(g, prc)
  IN [graph |-> IF Kind(g, parent) = "seq" /\ Kind(g, new) = "seq"
                THEN splice_begin(g, e, new, parent) ELSE Replaced(g, e, new),
      new   |-> new]

ProcOf(g, op) == IF Kind(g, op) = "ref" THEN CHOOSE v \in var_val(g, VarOf(g, op)) : TRUE ELSE op

\* The copy is made before the arguments are counted.
beta(g, e) ==
  LET args == Tail(Kids(g, e))
      reduced(c) ==
        IF c.graph.nodes[c.root].rest \/ Len(c.graph.nodes[c.root].params) # Len(args) THEN [graph |-> c.graph, new |-> 0]
        ELSE CHOOSE r \in {BodyPut(g1, c.root, e) : g1 \in {ArgumentsPut(c.graph, c.root, args)}} : TRUE
  IN CHOOSE r \in {reduced(c) : c \in {copy_node(g, ProcOf(g, child1(g, e)))}} : TRUE

-----------------------------------------------------------------------------
(***************************************************************************)
(* The passes.                                                             *)
(***************************************************************************)
Visit(n) == [node |-> n, seen |-> {}, after |-> FALSE]
VisitEach(nodes) == [i \in DOMAIN nodes |-> Visit(nodes[i])]

Visits(pass) == passes # <<>> /\ Head(passes) = pass /\ agenda # <<>>
Node == agenda[1].node
Alive == Node \in DOMAIN ast.nodes
Is(kind) == Alive /\ Kind(ast, Node) = kind
Children == Kids(ast, Node)

Becomes(g, visits) == ast' = g /\ agenda' = visits \o Tail(agenda)
GoOn(visits) == Becomes(ast, visits)

\* The catch-all clause of each pass.
Explore == GoOn(IF Alive THEN VisitEach(Children) ELSE <<>>)

IsRef(n) == Kind(ast, n) = "ref"
IsCst(n) == Kind(ast, n) = "cst"

-----------------------------------------------------------------------------
\* adjust-unmutable-references!
Unboxes ==
  /\ Is("call") /\ Len(Children) = 2
  /\ IsRef(Children[1]) /\ VarOf(ast, Children[1]) = "#%unbox"
  /\ IsRef(Children[2]) /\ ~mutable_var(ast, VarOf(ast, Children[2]))

adjust_unmutable_references ==
  /\ Visits("adjust")
  /\ \/ Unboxes /\ Becomes(Replaced(ast, Node, Children[2]), <<>>)
     \/ ~Unboxes /\ Explore

\* copy-propagate!: the value of a variable that is referred to once and can be moved, or
\* that is a constant or a variable itself.
Propagated ==
  {v \in IF Is("ref") THEN var_val(ast, VarOf(ast, Node)) ELSE {} :
     IF Cardinality(var_refs(ast, VarOf(ast, Node))) = 1 /\ side_effect_oblivious(ast, v)
     THEN ~Inside(ast, Parent(ast, Node), v)
     ELSE IsRef(v) \/ IsCst(v)}

copy_propagate ==
  /\ Visits("propagate")
  /\ \/ \E v \in Propagated : Becomes(Replaced(ast, Node, v), <<Visit(Parent(ast, Node))>>)
     \/ Propagated = {} /\ Explore

\* inline-left-left-lambda!
LeftLeft ==
  /\ Is("call") /\ Kind(ast, Children[1]) = "prc" /\ ~ast.nodes[Children[1]].rest
  /\ LET params == ast.nodes[Children[1]].params
     IN \A i \in DOMAIN params \cap DOMAIN Tail(Children) :
          LET arg == Children[i + 1]
          IN \/ IsCst(arg) \/ IsRef(arg)
             \/ Cardinality(var_refs(ast, params[i])) = 1 /\ side_effect_oblivious(ast, arg)

inline_left_left_lambda ==
  /\ Visits("left-left")
  /\ \/ LeftLeft /\ \E r \in {beta(ast, Node)} : Becomes(r.graph, IF r.new = 0 THEN <<>> ELSE <<Visit(r.new)>>)
     \/ ~LeftLeft /\ Explore

\* inline-calls-to-calls!
CallsToCall ==
  /\ Is("call") /\ IsRef(Children[1])
  /\ \E v \in var_val(ast, VarOf(ast, Children[1])) :
       /\ Kind(ast, v) = "prc" /\ ~ast.nodes[v].rest /\ Kind(ast, child1(ast, v)) = "call"
       /\ LET inside == Kids(ast, child1(ast, v))
          IN /\ IsRef(inside[1]) /\ VarOf(ast, inside[1]) \notin agenda[1].seen
             /\ Len(inside) <= Len(Children)
             /\ \A i \in 2 .. Len(inside) :
                  (IsRef(inside[i]) \/ IsCst(inside[i])) /\ side_effect_oblivious(ast, inside[i])

inline_calls_to_calls ==
  /\ Visits("calls")
  /\ \/ /\ CallsToCall
        /\ \E r \in {beta(ast, Node)} :
             Becomes(r.graph, IF r.new = 0 THEN <<>>
                              ELSE <<[Visit(r.new) EXCEPT !.seen = agenda[1].seen \cup {VarOf(ast, Children[1])}]>>)
     \/ ~CallsToCall /\ Explore

-----------------------------------------------------------------------------
(***************************************************************************)
(* constant-fold!: first below a node and then the node itself; if that    *)
(* cannot be folded it falls into the catch-all clause and visits          *)
(* everything below once more.                                             *)
(***************************************************************************)
CallsPrimitive == Is("call") /\ IsRef(Children[1]) /\ VarOf(ast, Children[1]) \in Primitive

Vals(nodes) == [i \in DOMAIN nodes |-> ast.nodes[nodes[i]].val]

CanFold ==
  /\ CallsPrimitive /\ VarOf(ast, Children[1]) \in Folders
  /\ \A i \in DOMAIN Tail(Children) : IsCst(Tail(Children)[i])
  /\ ~Raises(VarOf(ast, Children[1]), Vals(Tail(Children)))

FoldedCall ==
  substitute_child(
    Added(ast, NewNode(Cst(Fold(VarOf(ast, Children[1]), Vals(Tail(Children)))), 0)),
    Parent(ast, Node), Node, ast.next)

TestIsKnown == Is("if*") /\ IsCst(Children[1])
Chosen == IF IsFalse(ast.nodes[Children[1]].val) THEN Children[3] ELSE Children[2]

OnlyLastMatters == Is("seq") /\ \A n \in Range(Front(Children)) : side_effect_less(ast, n)

FoldBelow == CallsPrimitive \/ Is("if*") \/ Is("seq")

constant_fold ==
  /\ Visits("fold")
  /\ \/ /\ ~agenda[1].after /\ FoldBelow
        /\ GoOn(VisitEach(IF CallsPrimitive THEN Tail(Children) ELSE Children)
                \o <<[Visit(Node) EXCEPT !.after = TRUE]>>)
     \/ ~agenda[1].after /\ ~FoldBelow /\ Explore
     \/ agenda[1].after /\ CanFold /\ Becomes(FoldedCall, <<>>)
     \/ agenda[1].after /\ TestIsKnown /\ Becomes(Replaced(ast, Node, Chosen), <<>>)
     \/ agenda[1].after /\ OnlyLastMatters /\ Becomes(Replaced(ast, Node, Last(Children)), <<>>)
     \/ agenda[1].after /\ ~(CanFold \/ TestIsKnown \/ OnlyLastMatters) /\ Explore

-----------------------------------------------------------------------------
\* The order of the passes in compile.
Passes == <<"adjust", "propagate", "left-left", "calls", "propagate", "fold", "propagate">>

FrontEndInit(p) == ast = parse_program(p) /\ passes = Passes /\ agenda = <<Visit(Root)>>

NextPass ==
  /\ passes # <<>> /\ agenda = <<>>
  /\ passes' = Tail(passes)
  /\ agenda' = IF Len(passes) > 1 THEN <<Visit(Root)>> ELSE <<>>
  /\ UNCHANGED ast

FrontEndNext ==
  \/ NextPass
  \/ /\ \/ adjust_unmutable_references \/ copy_propagate \/ inline_left_left_lambda
        \/ inline_calls_to_calls \/ constant_fold
     /\ UNCHANGED passes

Finished == passes = <<>>
=============================================================================
