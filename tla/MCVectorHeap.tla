---------------------------- MODULE MCVectorHeap ----------------------------
EXTENDS VectorHeap

\* Bytes that look like the header of a used block, and bytes that look like a free one.
MCData == {[length |-> 1, ram_ptr |-> 1, used |-> TRUE], [length |-> 1, ram_ptr |-> 2, used |-> FALSE]}
=============================================================================
