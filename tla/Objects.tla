------------------------------- MODULE Objects -------------------------------
(***************************************************************************)
(* What a compiled program can refer to: pairs, closures, strings and       *)
(* continuations, which it tells apart by their identity.  A string holds  *)
(* the list of its characters, a continuation the frame of a suspended     *)
(* procedure.                                                              *)
(***************************************************************************)
EXTENDS Heap, Sequences

Pair(a, d)    == [kind |-> "pair", car |-> a, cdr |-> d]
Closure(e, l) == [kind |-> "closure", env |-> e, entry |-> l]
Str(l)        == [kind |-> "string", chars |-> l]
Frame(s, c, t, k) == [kind |-> "cont", stack |-> s, closed |-> c, temps |-> t, parent |-> k]
Spent         == [kind |-> "spent"]

Refs(o) ==
  CASE o.kind = "pair"    -> {o.car, o.cdr}
    [] o.kind = "closure" -> {o.env}
    [] o.kind = "string"  -> {o.chars}
    [] o.kind = "cont"    -> {o.stack[i] : i \in DOMAIN o.stack} \cup {o.closed, o.parent}
    [] o.kind = "spent"   -> {}

\* The objects of s that a set of values leads to.
Referred(s, from) ==
  LET grow[n \in 0 .. HeapEnd] ==
        IF n = 0 THEN from \cap DOMAIN s
        ELSE UNION {{c} \cup (Refs(s[c]) \cap DOMAIN s) : c \in grow[n - 1]}
  IN grow[HeapEnd]

\* The arguments of a call that stay slots: an entry point with a rest parameter
\* gathers the others in a list.
Fixed(entry, nbr_args) ==
  IF entry.rest /\ entry.params < nbr_args THEN entry.params ELSE nbr_args
=============================================================================
