------------------------------ MODULE MCGencgc ------------------------------
EXTENDS Gencgc

TableSizes == [box |-> 1, weak |-> 1, table |-> 1]
LostSizes == [box |-> 1, vec |-> 2, table |-> 1]
LargeSizes == [box |-> 1, vec |-> 4, bytes |-> 3, table |-> 1]
SpanSizes == [box |-> 1, vec |-> 3, table |-> 2]
=============================================================================
