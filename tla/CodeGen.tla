------------------------------ MODULE CodeGen ------------------------------
(***************************************************************************)
(* From the syntax tree to basic blocks: comp.rkt, the instructions of     *)
(* code-gen.rkt, and the compile-time stack and environment of ir.rkt.     *)
(*                                                                         *)
(* A context is the code made so far and what the compiler knows at its    *)
(* end: the slots of the frame, the topmost first, each with the variable  *)
(* that is in it, and the variables of the closure.  The compiler also     *)
(* keeps a second environment in it (env2), which is always the one that   *)
(* comp-test has left.                                                     *)
(***************************************************************************)
EXTENDS Syntax

NoVar == "#f"

\* A basic block has its label and its instructions in the order of their execution
\* (rev-instrs is the reverse).  An instruction is written down with the size of the
\* stack that the compiler assumes before it.
Block(label) == [label |-> label, instrs |-> <<>>]
InitContext(g) ==
  [graph |-> g, needed |-> Needed(g),
   last_label |-> 0, bbs |-> <<Block(0)>>, local |-> <<>>, closed |-> <<>>,
   entry |-> <<>>]

add_bb(label, ctx) == [ctx EXCEPT !.bbs = Append(@, Block(label))]
change_env(env, ctx) == [ctx EXCEPT !.local = env.local, !.closed = env.closed]
make_labels(n, ctx) == [ctx EXCEPT !.last_label = @ + n]

-----------------------------------------------------------------------------
\* (The sets of one element make TLC compute a context once.)
gen_instruction(op, arg, pop, push, ctx) ==
  CHOOSE r \in
    {[c EXCEPT
        !.bbs = [@ EXCEPT ![Len(@)].instrs = Append(@, [op |-> op, arg |-> arg, size |-> Len(c.local)])],
        !.local = [i \in 1 .. push |-> NoVar] \o SubSeq(@, pop + 1, Len(@))] : c \in {ctx}} : TRUE

gen_push_constant(val, ctx) == gen_instruction("push-constant", val, 0, 1, ctx)
gen_push_unspecified(ctx) == gen_push_constant(Truth(FALSE), ctx)
gen_goto(label, ctx) == gen_instruction("goto", label, 0, 0, ctx)
gen_pop(ctx) == gen_instruction("pop", 0, 1, 0, ctx)
gen_return(ctx) == gen_instruction("return", 0, Len(ctx.local), 0, ctx)

\* The number of parameters, as the assembler writes it: negative with a rest parameter.
gen_entry(nparams, rest, ctx) == gen_instruction("entry", IF rest THEN -nparams ELSE nparams, 0, 0, ctx)

gen_prim_WithResult(id, n, ctx) == gen_instruction("prim", [id |-> id, n |-> n], n, 1, ctx)

gen_prim(id, n, ctx) ==
  gen_instruction("prim", [id |-> id, n |-> n], n, IF id \in Unspecified THEN 0 ELSE 1, ctx)

\* find-local-var: the place of a variable, counted from the top; the variables of the
\* closure come after the slots.
IndexOf(var, seq) == (CHOOSE i \in DOMAIN seq : seq[i] = var /\ \A j \in 1 .. i - 1 : seq[j] # var) - 1
find_local_var(var, ctx) ==
  IF var \in Range(ctx.local) THEN IndexOf(var, ctx.local) ELSE Len(ctx.local) + IndexOf(var, ctx.closed)
gen_push_local_var(var, ctx) == gen_instruction("push-stack", find_local_var(var, ctx), 0, 1, ctx)

\* build-closure: the variables of the closure, which are looked up while the slots grow.
PushAll(vars, ctx) == FoldLeft(LAMBDA c, var : gen_push_local_var(var, c), ctx, vars)
ConsAll(vars, ctx) == FoldLeft(LAMBDA c, var : gen_prim("cons", 2, c), ctx, vars)
build_closure(label, vars, ctx) ==
  gen_instruction("closure", label, 1, 1,
    ConsAll(vars, gen_push_constant(List(<<>>), PushAll(vars, ctx))))

-----------------------------------------------------------------------------
RECURSIVE comp(_, _, _)

comp_test(node, label_true, label_false, ctx) ==
  CASE node.kind = "cst" ->
         gen_goto(IF node.val = Truth(FALSE) THEN label_false ELSE label_true, ctx)
    [] node.kind = "prc" -> gen_goto(label_true, ctx)
    [] OTHER -> gen_instruction("goto-if-false", <<label_false, label_true>>, 1, 0, comp("push", node, ctx))

\* Both branches are compiled in the environment that the test leaves.
Branch(label, reason, node, env, ctx) == comp(reason, node, change_env(env, add_bb(label, ctx)))

comp_if(node, reason, ctx) ==
  LET thn == ctx.last_label + 1
      els == ctx.last_label + 2
      then_join == ctx.last_label + 3
      else_join == ctx.last_label + 4
      join == ctx.last_label + 5
      \* the code after the test, with env the environment there
      joined(test) ==
        add_bb(join, gen_goto(join, add_bb(then_join, gen_goto(join, add_bb(else_join,
          gen_goto(then_join, Branch(thn, reason, node.children[2], test,
            gen_goto(else_join, Branch(els, reason, node.children[3], test, test)))))))))
      tail(test) == Branch(thn, "tail", node.children[2], test, Branch(els, "tail", node.children[3], test, test))
  IN IF reason = "tail" THEN CHOOSE r \in {tail(c) : c \in {comp_test(node.children[1], thn, els, make_labels(2, ctx))}} : TRUE
     ELSE CHOOSE r \in {joined(c) : c \in {comp_test(node.children[1], thn, els, make_labels(5, ctx))}} : TRUE

comp_seq(node, reason, ctx) ==
  CASE node.children = <<>> /\ reason = "none" -> ctx
    [] node.children = <<>> /\ reason = "push" -> gen_push_unspecified(ctx)
    [] node.children = <<>> /\ reason = "tail" -> gen_return(gen_push_unspecified(ctx))
    [] OTHER -> comp(reason, Last(node.children),
                     FoldLeft(LAMBDA c, n : comp("none", n, c), ctx, Front(node.children)))

\* prc->env: the parameters are the slots, the free variables the closure.
prc_env(node) == [local |-> node.params, closed |-> SetToSeq(Free(node))]

\* The body stands behind a jump around it.  The variable that the procedure is bound to,
\* if it is called directly, is how calls find the label.
comp_prc(node, closure, var, ctx) ==
  LET entry == ctx.last_label + 1
      continue == ctx.last_label + 2
      before(c) == IF closure THEN build_closure(entry, prc_env(node).closed, c) ELSE c
      body(c) == comp("tail", node.children[1],
                   gen_entry(Len(node.params), node.rest, change_env(prc_env(node), add_bb(entry, c))))
      named(c) == [c EXCEPT !.entry = [x \in DOMAIN @ \cup {var} |-> IF x = var THEN entry ELSE @[x]]]
      around(c) == add_bb(continue, change_env(c, named(body(gen_goto(continue, c)))))
  IN CHOOSE r \in {around(c) : c \in {before(make_labels(2, ctx))}} : TRUE

comp_call(node, reason, ctx) ==
  LET op == node.children[1]
      n == Len(node.children) - 1
      pushed == FoldLeft(LAMBDA c, arg : comp("push", arg, c), ctx, Tail(node.children))
      unspecified == op.var \in Unspecified
      applied(c) == IF unspecified THEN gen_push_unspecified(gen_prim(op.var, n, c)) ELSE gen_prim(op.var, n, c)
  IN CASE IsPrimitiveCall(node) ->
            (CASE reason = "tail" -> gen_return(applied(pushed))
               [] reason = "push" -> applied(pushed)
               [] reason = "none" -> IF unspecified THEN gen_prim(op.var, n, pushed) ELSE gen_pop(applied(pushed)))
       [] op.kind = "ref" /\ IsDirect(ctx.graph, op.var) ->
            (CASE reason = "tail" -> gen_instruction("jump-toplevel", op.var, n, 1, pushed)
               [] reason = "push" -> gen_instruction("call-toplevel", op.var, n, 1, pushed)
               [] reason = "none" -> gen_pop(gen_instruction("call-toplevel", op.var, n, 1, pushed)))
       [] OTHER ->
            (CASE reason = "tail" -> gen_instruction("jump", n, n + 1, 1, comp("push", op, pushed))
               [] reason = "push" -> gen_instruction("call", n, n + 1, 1, comp("push", op, pushed))
               [] reason = "none" -> gen_pop(gen_instruction("call", n, n + 1, 1, comp("push", op, pushed))))

SetGlobal(node, ctx) == gen_instruction("set-global", node.var, 1, 0, comp("push", node.children[1], ctx))

comp_none(node, ctx) ==
  CASE node.kind \in {"cst", "ref", "prc"} -> ctx
    [] node.kind = "def" /\ IsDirect(ctx.graph, node.var) -> comp_prc(node.children[1], FALSE, node.var, ctx)
    [] node.kind \in {"def", "set"} /\ ~(node.kind = "def" /\ IsDirect(ctx.graph, node.var)) ->
         IF node.var \in ctx.needed THEN SetGlobal(node, ctx) ELSE comp("none", node.children[1], ctx)
    [] node.kind = "if*"  -> comp_if(node, "none", ctx)
    [] node.kind = "call" -> comp_call(node, "none", ctx)
    [] node.kind = "seq"  -> comp_seq(node, "none", ctx)

comp_tail(node, ctx) ==
  CASE node.kind = "if*"  -> comp_if(node, "tail", ctx)
    [] node.kind = "call" -> comp_call(node, "tail", ctx)
    [] node.kind = "seq"  -> comp_seq(node, "tail", ctx)
    [] OTHER              -> gen_return(comp("push", node, ctx))

comp_push(node, ctx) ==
  CASE node.kind = "cst" -> gen_push_constant(node.val, ctx)
    [] node.kind = "ref" ->
         IF node.var \notin Global THEN gen_push_local_var(node.var, ctx)
         ELSE IF IsConstant(ctx.graph, node.var)
              THEN gen_push_constant(ctx.graph.nodes[CHOOSE v \in var_val(ctx.graph, node.var) : TRUE].val, ctx)
              ELSE gen_instruction("push-global", node.var, 0, 1, ctx)
    [] node.kind \in {"def", "set"} -> gen_push_unspecified(comp("none", node, ctx))
    [] node.kind = "prc"  -> comp_prc(node, TRUE, NoVar, ctx)
    [] node.kind = "if*"  -> comp_if(node, "push", ctx)
    [] node.kind = "call" -> comp_call(node, "push", ctx)
    [] node.kind = "seq"  -> comp_seq(node, "push", ctx)

\* The value of the node is dropped, pushed or returned.
comp(reason, node, ctx) ==
  CHOOSE r \in
    {CASE reason = "none" -> comp_none(node, c)
       [] reason = "push" -> comp_push(node, c)
       [] reason = "tail" -> comp_tail(node, c) : c \in {ctx}} : TRUE

-----------------------------------------------------------------------------
\* resolve-toplevel-labels!: the direct calls get the labels of the procedures.
Resolved(instr, ctx) ==
  IF instr.op \in {"call-toplevel", "jump-toplevel"} THEN [instr EXCEPT !.arg = ctx.entry[@]] ELSE instr

\* code->vector: the blocks by their labels.
BasicBlocks(ctx) ==
  [label \in 0 .. ctx.last_label |->
     LET bb == CHOOSE i \in DOMAIN ctx.bbs : ctx.bbs[i].label = label
     IN [label |-> label, instrs |-> [i \in DOMAIN ctx.bbs[bb].instrs |-> Resolved(ctx.bbs[bb].instrs[i], ctx)]]]

Compiled(g) == comp("none", Tree(g, Root), InitContext(g))
=============================================================================
