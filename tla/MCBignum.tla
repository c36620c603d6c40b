------------------------------ MODULE MCBignum ------------------------------
(***************************************************************************)
(* Bignum for TLC.  Where two heaps differ only in the addresses of the    *)
(* digits and in the cells that are free or held by bignum_tmp5 alone, all *)
(* primitives do the same: an address is compared only for identity, and a *)
(* free cell is filled when it is allocated.  The view keeps the digits of *)
(* each integer, which of them lie in RAM, and which two integers share.   *)
(***************************************************************************)
EXTENDS Bignum, Sequences

RECURSIVE Digits(_)
Digits(p) == IF p \in Cell THEN <<p>> \o Digits(vm.hi[p]) ELSE <<p>>

Shape ==
  LET lists == [g \in Global |-> Digits(glob[g])]
  IN <<[g \in Global |-> [i \in DOMAIN lists[g] |->
          IF lists[g][i] \in Cell THEN <<vm.lo[lists[g][i]]>> ELSE <<"end", lists[g][i]>>]],
       {<<g, h, i, j>> \in Global \X Global \X (1 .. 4) \X (1 .. 4) :
          /\ g # h /\ i \in DOMAIN lists[g] /\ j \in DOMAIN lists[h]
          /\ lists[g][i] \in Cell /\ lists[g][i] = lists[h][j]}>>

MCArithmetic == {-17, -16, -9, -8, -5, -4, -3, -2, -1, 0, 1, 2, 3, 4, 5, 7, 8, 15, 16, 17}
=============================================================================
