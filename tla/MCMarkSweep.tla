----------------------------- MODULE MCMarkSweep -----------------------------
EXTENDS MarkSweep

\* One cell of globals and two cells of every shape that mm_gc() tells apart.
MCTypesAt ==
  [c \in Cell |-> IF c \in ReservedCell THEN {CONS_TYPE}
                  ELSE {CONS_TYPE, CLOSURE_TYPE, FIXNUM_TYPE, VECTOR_TYPE}]

\* No globals: the sweep goes down to address 0.
\* Data that looks like the index of a cell, and must not be followed.
MCData == {HeapEnd - 1}
=============================================================================
