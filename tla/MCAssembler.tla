---------------------------- MODULE MCAssembler ----------------------------
(***************************************************************************)
(* Assembler for TLC: both kinds of branches, with and without the form of *)
(* four bits, and operands on both sides of each limit.                    *)
(***************************************************************************)
EXTENDS Assembler

CONSTANTS p, q

MCBranches ==
  {<<"jump_toplevel", p>>, <<"goto", p>>, <<"closure", p>>, <<"goto_if_false", q>>, <<"call_toplevel", q>>}

\* Globals have the short form only.
MCOperands ==
  {"push_constant"} \X {0, 3, 31, 32, 259, 260, 515} \cup {"push_stack"} \X {0, 31, 32}
  \cup {"push_global", "set_global"} \X {0, 15} \cup {"call", "jump"} \X {0, 15, 16}
=============================================================================
