-------------------------------- MODULE Heap --------------------------------
(***************************************************************************)
(* The RAM heap of the virtual machine: its address space, the cell types  *)
(* and the two links a cell may hold (src/main/include/vm-arch.h).         *)
(*                                                                         *)
(* A cell has a type, a CAR and a CDR.  What CAR and CDR mean depends on   *)
(* the type: they are links only for the types with a left or right link.  *)
(* A value that is not the index of a RAM cell (a ROM constant, a small    *)
(* integer, #f, #t, the empty list) is never followed; NIL stands for all  *)
(* of them.  The data of a cell without links (a code address, half of an  *)
(* integer) may well have the bits of a cell index, so it is drawn from    *)
(* the same set of values.                                                 *)
(***************************************************************************)
EXTENDS Integers

CONSTANTS
  HeapEnd,     \* ram_heap_end: the number of cells of the RAM heap
  Reserved,    \* reserved_cells_count: leading cells that hold the globals
  NIL          \* an encoded value that is no RAM cell

ASSUME HeapEndAssumption == HeapEnd \in Nat \ {0}
ASSUME ReservedAssumption == Reserved \in Nat /\ Reserved < HeapEnd

Cell == 0 .. HeapEnd - 1

ASSUME NilAssumption == NIL \notin Cell

ReservedCell == {c \in Cell : c < Reserved}
Value == Cell \cup {NIL}

CONS_TYPE         == "cons"
CONTINUATION_TYPE == "continuation"
CLOSURE_TYPE      == "closure"
BIGNUM_TYPE       == "bignum"
STRING_TYPE       == "string"
FIXNUM_TYPE       == "fixnum"
CSTRING_TYPE      == "cstring"
VECTOR_TYPE       == "vector"
SYMBOL_TYPE       == "symbol"

\* Types 0..3 have two links, types 4..7 have a left link only, the others none.
HasRightLinkTypes == {CONS_TYPE, CONTINUATION_TYPE}
HasLeftLinkTypes  == HasRightLinkTypes \cup {CLOSURE_TYPE, BIGNUM_TYPE, STRING_TYPE}
Type == HasLeftLinkTypes \cup {FIXNUM_TYPE, CSTRING_TYPE, VECTOR_TYPE, SYMBOL_TYPE}

-----------------------------------------------------------------------------
(***************************************************************************)
(* Reachability, the reference the collector is compared with.  It is      *)
(* stated by closed sets: a cell is reachable when every set of cells that *)
(* holds the roots and is closed under the links holds it.                 *)
(***************************************************************************)
LinksOf(c, type, car, cdr) ==
  Cell \cap ( (IF type[c] \in HasLeftLinkTypes  THEN {car[c]} ELSE {})
         \cup (IF type[c] \in HasRightLinkTypes THEN {cdr[c]} ELSE {}) )

Closed(S, type, car, cdr) == \A c \in S : LinksOf(c, type, car, cdr) \subseteq S

Reachable(roots, type, car, cdr) ==
  {c \in Cell : \A S \in SUBSET Cell :
     (roots \cap Cell \subseteq S /\ Closed(S, type, car, cdr)) => c \in S}

(***************************************************************************)
(* The list of the cells of a set in increasing order of address, as the   *)
(* sweep links it: NextIn(S, n) is the first of them from address n on.    *)
(***************************************************************************)
Lowest(S) == IF S = {} THEN NIL ELSE CHOOSE c \in S : \A d \in S : c <= d
NextIn(S, n) == Lowest({c \in S : c >= n})
=============================================================================
