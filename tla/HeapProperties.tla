--------------------------- MODULE HeapProperties ---------------------------
(***************************************************************************)
(* What makes memory.c correct.                                            *)
(***************************************************************************)
EXTENDS Heap

Block(p) == p - HeaderSize

\* Where the block after b begins.
After(b) == b + HeaderSize + hdr[b].size

\* Blocks that follow each other on the list follow each other in memory, the
\* links go both ways, and the last block ends with the heap: what is walked
\* from heap_head is all of the heap and nothing else (24-67, 243-259).
Tiled ==
    /\ HeapStart \in Listed(hdr) /\ hdr[HeapStart].prev = Null
    /\ \A b \in Listed(hdr) :
        /\ hdr[b].next = IF After(b) = HeapEnd THEN Null ELSE After(b)
        /\ After(b) # HeapEnd =>
             After(b) \in Listed(hdr) /\ hdr[After(b)].prev = b
        /\ \A c \in Listed(hdr) : c <= b \/ c >= After(b)

\* Every holder has a block of its own that is in use, as large and as aligned
\* as it was promised, and every block in use has a holder.
Granted ==
    /\ \A p \in Addrs : Holds(p) =>
        /\ Block(p) \in Listed(hdr) /\ ~hdr[Block(p)].free
        /\ hdr[Block(p)].size >= held[p].size /\ p % held[p].align = 0
    /\ \A b \in Listed(hdr) : hdr[b].free \/ Holds(b + HeaderSize)

\* What one holder may write is neither another's nor a header of the list.
HeldApart ==
    \A p \in Addrs : Holds(p) =>
        /\ p + held[p].size <= HeapEnd
        /\ \A q \in Addrs : Holds(q) /\ p < q => p + held[p].size <= Block(q)
        /\ \A b \in Listed(hdr) : p <= b => p + held[p].size <= b

\* No two neighbours are both free, so what is free is found in one piece: kfree
\* need not look further than one block to either side (48, 57).
NoFreeNeighbours ==
    \A b \in Listed(hdr) :
        hdr[b].free /\ hdr[b].next # Null => ~hdr[hdr[b].next].free

\* The header that a freed pointer leads to, or what has become of it, never
\* passes the tests of kfree: a second free is always found out (127-135).
DoubleFreeFound ==
    \A p \in freed : ~(hdr[Block(p)].magic /\ ~hdr[Block(p)].free)

=============================================================================
