------------------------------- MODULE Source -------------------------------
(***************************************************************************)
(* What a program means: an abstract machine for the syntax tree, which    *)
(* evaluates arguments from left to right and then the operator.  It has   *)
(* no basic blocks, no stack slots and no labels; a local variable is      *)
(* looked up by its name, and has a location if it is assigned.  What can  *)
(* be seen of a program are the primitives it applies, in their order,     *)
(* with their arguments, but for those that only compute.  The result of   *)
(* the others is left open.                                                *)
(***************************************************************************)
EXTENDS Syntax

VARIABLES
  source,        \* the state of the machine: tasks, values, variables
  seen           \* the last primitive that was applied

-----------------------------------------------------------------------------
(***************************************************************************)
(* What can be seen.                                                       *)
(***************************************************************************)
Results == {Truth(TRUE), Truth(FALSE)}

\* What a primitive shows of its arguments: that one is a procedure, not which.
Shown(vals) ==
  [i \in DOMAIN vals |-> IF vals[i].kind = "bool" THEN (IF vals[i].b THEN "#t" ELSE "#f")
                         ELSE IF vals[i].kind # "list" THEN "procedure"
                         ELSE IF vals[i].list = <<>> THEN "()" ELSE "(..)"]
Applied(id, args) == [id |-> id, args |-> Shown(args)]
Nothing == [id |-> "none", args |-> <<>>]

-----------------------------------------------------------------------------
(***************************************************************************)
(* The machine has a list of tasks, the next one first, and a list of the  *)
(* values that tasks have left, the last one first.                        *)
(***************************************************************************)
Evaluate(n) == [task |-> "evaluate", node |-> n]
EachOf(nodes) == [i \in DOMAIN nodes |-> Evaluate(nodes[i])]
\* A global variable that nothing has been stored in is the empty list.
GlobalIn(globals, var) == IF var \in DOMAIN globals THEN globals[var] ELSE List(<<>>)
Begin(p) == [todo |-> <<Evaluate(p)>>, vals |-> <<>>, env |-> <<>>, store |-> <<>>, globals |-> <<>>]

Task == Head(source.todo)
Rest == Tail(source.todo)
Give(v) == source' = [source EXCEPT !.todo = Rest, !.vals = <<v>> \o @]
Do(tasks) == source' = [source EXCEPT !.todo = tasks \o Rest]

\* A sequence of nodes, of which the last one has the value.
InTurn(nodes) ==
  FoldLeft(LAMBDA tasks, n : tasks \o <<[task |-> "drop"], Evaluate(n)>>, <<Evaluate(nodes[1])>>, Tail(nodes))

Closure(n, env) == [kind |-> "closure", params |-> n.params, rest |-> n.rest, body |-> n.children[1], env |-> env]
ValueOf(var) ==
  CASE var \in Primitive -> Closure(EtaExpansion(var), <<>>)
    [] var \in Global    -> GlobalIn(source.globals, var)
    [] OTHER             -> IF source.env[var].kind = "location" THEN source.store[source.env[var].at]
                            ELSE source.env[var]

\* The state with variables bound to values, where the variables in assigned get a
\* location.
Bound(state, params, values, assigned) ==
  LET new == SetToSeq({i \in DOMAIN params : params[i] \in assigned})
      at(i) == Len(state.store) + CHOOSE j \in DOMAIN new : new[j] = i
  IN [state EXCEPT
       !.env = [i \in {params[j] : j \in DOMAIN params} |->
                  LET j == CHOOSE k \in DOMAIN params : params[k] = i
                  IN IF i \in assigned THEN [kind |-> "location", at |-> at(j)] ELSE values[j]] @@ @,
       !.store = @ \o [i \in DOMAIN new |-> values[new[i]]]]

\* What comes last in a procedure leaves nothing behind.
Leave == IF Rest # <<>> /\ Head(Rest).task = "leave" THEN <<>> ELSE <<[task |-> "leave", env |-> source.env]>>

CallOf(op, n) ==
  IF op.kind = "ref" /\ op.var \in Primitive
  THEN <<[task |-> IF op.var \in Folders THEN "compute" ELSE "primitive", id |-> op.var, n |-> n]>>
  ELSE <<Evaluate(op), [task |-> "apply", n |-> n]>>

\* The variables of a letrec have no value before theirs is computed.
Letrec(n) ==
  LET params == n.params
      init(i) == <<Evaluate(n.children[i]), [task |-> "store", var |-> params[i]], [task |-> "drop"]>>
  IN source' = Bound([source EXCEPT !.todo = FlattenSeq([i \in DOMAIN params |-> init(i)])
                                              \o <<Evaluate(Body(n))>> \o Leave \o Rest],
                     params, [i \in DOMAIN params |-> Truth(FALSE)], Range(params))

EvaluateNode(n) ==
  CASE n.kind = "cst" -> Give(n.val)
    [] n.kind = "ref" -> Give(ValueOf(n.var))
    [] n.kind \in {"def", "set"} -> Do(<<Evaluate(n.children[1]), [task |-> "store", var |-> n.var]>>)
    [] n.kind = "if*" ->
         Do(<<Evaluate(n.children[1]), [task |-> "choose", thn |-> n.children[2], els |-> n.children[3]]>>)
    [] n.kind = "prc" ->
         Give(Closure(n, source.env))
    [] n.kind = "seq" -> IF n.children = <<>> THEN Give(Truth(FALSE)) ELSE Do(InTurn(n.children))
    [] n.kind \in {"and", "or"} ->
         IF n.children = <<>> THEN Give(Truth(n.kind = "and"))
         ELSE Do(<<Evaluate(n.children[1])>> \o
                 IF Len(n.children) = 1 THEN <<>>
                 ELSE <<[task |-> "decide", node |-> [n EXCEPT !.children = Tail(@)]]>>)
    [] n.kind = "cond" ->
         IF n.children = <<>> THEN Give(Truth(FALSE))
         ELSE IF n.children[1].kind = "else" THEN Do(<<Evaluate(n.children[1].children[1])>>)
         ELSE Do(<<Evaluate(n.children[1].children[1]), [task |-> "clause", node |-> n]>>)
    [] n.kind = "let" -> Do(EachOf(Inits(n)) \o <<[task |-> "bind", node |-> n]>>)
    [] n.kind = "let*" ->
         IF n.params = <<>> THEN Do(<<Evaluate(Body(n))>>)
         ELSE Do(<<Evaluate(n.children[1]),
                   [task |-> "bind", node |-> Let(<<n.params[1]>>, <<n.children[1]>>,
                                                  Binding("let*", Tail(n.params), Tail(Inits(n)), Body(n)))]>>)
    [] n.kind = "letrec" -> Letrec(n)
    [] n.kind = "call" -> Do(EachOf(Tail(n.children)) \o CallOf(n.children[1], Len(n.children) - 1))

\* The arguments among the values, the first one first.
Arguments(from, n) == [i \in 1 .. n |-> source.vals[from + n - i]]

\* The last parameter may stand for the list of the arguments that are left.
ByParameter(f, args) ==
  IF f.rest THEN Append(SubSeq(args, 1, Len(f.params) - 1), List(SubSeq(args, Len(f.params), Len(args))))
  ELSE args

Apply(n) ==
  LET f == source.vals[1]
  IN source' = Bound([source EXCEPT !.todo = <<Evaluate(f.body)>> \o Leave \o Rest,
                                    !.vals = SubSeq(@, n + 2, Len(@)),
                                    !.env  = f.env],
                     f.params, ByParameter(f, Arguments(2, n)), Assigned(f.body))

Bind(n) ==
  LET count == Len(n.params)
  IN source' = Bound([source EXCEPT !.todo = <<Evaluate(Body(n))>> \o Leave \o Rest,
                                    !.vals = SubSeq(@, count + 1, Len(@))],
                     n.params, Arguments(1, count), Assigned(Body(n)))

Store(var) ==
  source' = IF var \in Global
            THEN [source EXCEPT !.todo = Rest, !.vals = <<Truth(FALSE)>> \o Tail(@),
                                !.globals = (var :> source.vals[1]) @@ @]
            ELSE [source EXCEPT !.todo = Rest, !.vals = <<Truth(FALSE)>> \o Tail(@),
                                !.store[source.env[var].at] = source.vals[1]]

\* After the test of a clause: the next one, what follows the test, or the receiver of
\* the value of the test.
TestDone(n) ==
  LET clause == n.children[1]
  IN IF IsFalse(source.vals[1])
     THEN source' = [source EXCEPT !.todo = <<Evaluate(Cond(Tail(n.children)))>> \o Rest, !.vals = Tail(@)]
     ELSE IF clause.kind = "=>" THEN Do(CallOf(clause.children[2], 1))
     ELSE source' = [source EXCEPT !.todo = <<Evaluate(clause.children[2])>> \o Rest, !.vals = Tail(@)]

AtPrimitive == source.todo # <<>> /\ Task.task = "primitive"

\* What the machine does between two primitives.
Proceed ==
  /\ source.todo # <<>> /\ ~AtPrimitive
  /\ CASE Task.task = "evaluate" -> EvaluateNode(Task.node)
       [] Task.task = "store" -> Store(Task.var)
       [] Task.task = "choose" ->
            source' = [source EXCEPT
              !.todo = <<Evaluate(IF IsFalse(source.vals[1]) THEN Task.els ELSE Task.thn)>> \o Rest,
              !.vals = Tail(@)]
       [] Task.task = "decide" ->
            IF IsFalse(source.vals[1]) = (Task.node.kind = "and") THEN source' = [source EXCEPT !.todo = Rest]
            ELSE source' = [source EXCEPT !.todo = <<Evaluate(Task.node)>> \o Rest, !.vals = Tail(@)]
       [] Task.task = "clause" -> TestDone(Task.node)
       [] Task.task = "compute" ->
            source' = [source EXCEPT
              !.todo = Rest,
              !.vals = <<Fold(Task.id, Arguments(1, Task.n))>> \o SubSeq(@, Task.n + 1, Len(@))]
       [] Task.task = "apply" -> Apply(Task.n)
       [] Task.task = "bind"  -> Bind(Task.node)
       [] Task.task = "drop"  -> source' = [source EXCEPT !.todo = Rest, !.vals = Tail(@)]
       [] Task.task = "leave" -> source' = [source EXCEPT !.todo = Rest, !.env = Task.env]
  /\ UNCHANGED seen

\* The primitive that comes next, and the state after it has given the result v.
Upcoming == Applied(Task.id, Arguments(1, Task.n))
After(v) ==
  [source EXCEPT !.todo = Rest,
                 !.vals = <<IF Task.id \in Unspecified THEN Truth(FALSE) ELSE v>> \o SubSeq(@, Task.n + 1, Len(@))]

PrimitiveApplied ==
  /\ AtPrimitive
  /\ seen' = Upcoming
  /\ \E v \in Results : source' = After(v)

SourceNext == Proceed \/ PrimitiveApplied
=============================================================================
