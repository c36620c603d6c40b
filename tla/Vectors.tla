------------------------------- MODULE Vectors -------------------------------
(***************************************************************************)
(* What the byte vectors promise to a program (primitives-vector.c): a     *)
(* vector holds what was stored in it last, until the program drops it.    *)
(* Where it lies in the vector space, and that it moves, does not show.    *)
(***************************************************************************)
EXTENDS Naturals, Sequences

CONSTANTS Vector, Data

VARIABLES vectors      \* the content of each vector the program can refer to

VInit == vectors = <<>>

\* A new vector holds whatever was left in the memory it got.
Make ==
  \E v \in Vector \ DOMAIN vectors :
    /\ DOMAIN vectors' = DOMAIN vectors \cup {v}
    /\ \A w \in DOMAIN vectors : vectors'[w] = vectors[w]

Store ==
  \E v \in DOMAIN vectors, d \in Data :
    \E i \in 1 .. Len(vectors[v]) : vectors' = [vectors EXCEPT ![v][i] = d]

Forget == \E v \in DOMAIN vectors : vectors' = [w \in DOMAIN vectors \ {v} |-> vectors[w]]

VSpec == VInit /\ [][Make \/ Store \/ Forget]_vectors
=============================================================================
