-------------------------------- MODULE Heap --------------------------------
(***************************************************************************)
(* The kernel heap mlibc/memory.c: a doubly linked list of blocks, each a  *)
(* header and the bytes after it, searched first fit.                      *)
(*                                                                         *)
(* Memory holds a header, or bytes that are none, at every aligned address *)
(* of the heap. The header of a block that was merged into another stays   *)
(* there until those bytes are overwritten, as does its copy when realloc  *)
(* moves bytes.                                                            *)
(***************************************************************************)
EXTENDS Integers, FiniteSets

CONSTANTS
    HeapStart,   \* heap_start, aligned
    HeapSize,    \* HEAP_SIZE
    Align,       \* 16
    HeaderSize,  \* sizeof(header_t), 32
    Word,        \* 2^64, the values of an unsigned long
    Sizes,       \* sizes callers ask for
    Counts,      \* element counts given to kcalloc
    Alignments   \* given to kmalloc_aligned

Null    == 0
HeapEnd == HeapStart + HeapSize
Addrs   == {a \in HeapStart .. HeapEnd - 1 : a % Align = 0}

align16(size) == LET up == (size + Align - 1) % Word IN up - (up % Align)

ASSUME HeapAssumption ==
    /\ {HeapStart, HeapSize, Align, HeaderSize, Word} \subseteq Nat \ {0}
    /\ HeapStart % Align = 0 /\ HeapSize % Align = 0 /\ HeaderSize % Align = 0
    /\ HeaderSize < HeapSize /\ HeapEnd < Word

\* Nobody asks for so much that align16 wraps around. An alignment is a power of
\* two, of which only what rounding up needs is stated.
ASSUME CallerAssumption ==
    /\ Sizes \subseteq 1 .. Word - Align /\ Counts \subseteq Nat
    /\ \A n \in Counts, z \in Sizes : (n * z) % Word <= Word - Align
    /\ \A a \in Alignments : a \in Nat \ {0} /\ a % Align = 0

VARIABLES
    hdr,    \* what lies at an address; "listed" if heap_head leads there
    held,   \* what the holder of a pointer was promised
    freed   \* pointers that were freed and not handed out again

vars == <<hdr, held, freed>>

Headers  == [listed : BOOLEAN, magic : BOOLEAN, free : BOOLEAN, size : Nat,
             next : Addrs \cup {Null}, prev : Addrs \cup {Null}]
Bytes    == [listed |-> FALSE, magic |-> FALSE, free |-> FALSE, size |-> 0,
             next |-> Null, prev |-> Null]
Promises == [size : Nat, align : Nat]
Nothing  == [size |-> 0, align |-> 0]

Listed(h) == {b \in Addrs : h[b].listed}
Holds(p)  == held[p] # Nothing

-----------------------------------------------------------------------------
(* The helpers, as functions of what memory holds.                          *)

\* Of an absorbed header only the magic and the flag are ever read again.
Absorbed(x) == [Bytes EXCEPT !.magic = x.magic, !.free = x.free]

\* Block b takes over its right neighbour n.
Merge(h, b, n) ==
    [a \in Addrs |->
        IF a = b THEN [h[b] EXCEPT !.size = @ + HeaderSize + h[n].size, !.next = h[n].next]
        ELSE IF a = n THEN Absorbed(h[n])
        ELSE IF a = h[n].next THEN [h[a] EXCEPT !.prev = b]
        ELSE h[a]]

\* Fault: the block after the new one keeps its link back.
CarveNoBackLink(h, b, size) ==
    LET n == b + HeaderSize + size
    IN  [h EXCEPT ![b].size = size, ![b].next = n,
                  ![n] = [listed |-> TRUE, magic |-> TRUE, free |-> TRUE,
                          size |-> h[b].size - size - HeaderSize,
                          next |-> h[b].next, prev |-> b]]

\* Block b keeps size bytes; a new header takes the rest.
Carve(h, b, size) ==
    LET n == b + HeaderSize + size
    IN  [a \in Addrs |->
            IF a = b THEN [h[b] EXCEPT !.size = size, !.next = n]
            ELSE IF a = n
              THEN [listed |-> TRUE, magic |-> TRUE, free |-> TRUE,
                    size |-> h[b].size - size - HeaderSize,
                    next |-> h[b].next, prev |-> b]
            ELSE IF a = h[b].next THEN [h[a] EXCEPT !.prev = n]
            ELSE h[a]]

\* Fault: every block is split.
split_always(h, b, size) == Carve(h, b, size)

split_block(h, b, size) ==
    IF h[b].size >= size + HeaderSize + Align THEN Carve(h, b, size) ELSE h

\* Fault: only the previous block is looked at.
coalesce_previous_only(h, b) ==
    LET p == h[b].prev
    IN  IF p # Null /\ h[p].free /\ h[p].magic THEN Merge(h, p, b) ELSE h

coalesce(h, b) ==
    LET n  == h[b].next
        h1 == IF n # Null /\ h[n].free /\ h[n].magic THEN Merge(h, b, n) ELSE h
        p  == h1[b].prev
    IN  IF p # Null /\ h1[p].free /\ h1[p].magic THEN Merge(h1, p, b) ELSE h1

Allocate(h, b, size) == [split_block(h, b, size) EXCEPT ![b].free = FALSE]

\* Fault: the block that results is marked free, not the one that was given.
ReleaseResult(h, b) ==
    LET h1 == coalesce(h, b)
    IN  [h1 EXCEPT ![IF h1[b].listed THEN b ELSE h[b].prev].free = TRUE]

Release(h, b) == coalesce([h EXCEPT ![b].free = TRUE], b)

\* The first block of the list that fits; the search stops at a broken header.
FirstOf(fits) == {b \in fits : \A c \in Listed(hdr) : c < b => c \notin fits}
FirstFit(size) ==
    {b \in FirstOf({b \in Listed(hdr) : hdr[b].free /\ hdr[b].size >= size}) :
        \A c \in Listed(hdr) : c <= b => hdr[c].magic}

Overwrite(h, from, n) ==
    [a \in Addrs |-> IF from <= a /\ a < from + n THEN Bytes ELSE h[a]]

Copy(h, to, from, n) ==
    [a \in Addrs |-> IF to <= a /\ a < to + n THEN h[a - to + from] ELSE h[a]]

-----------------------------------------------------------------------------
(* init_heap has run before anything else (kernel.c:14).                    *)

Init ==
    /\ hdr = [a \in Addrs |-> IF a # HeapStart THEN Bytes
                ELSE [listed |-> TRUE, magic |-> TRUE, free |-> TRUE,
                      size |-> HeapSize - HeaderSize, next |-> Null, prev |-> Null]]
    /\ held = [p \in Addrs |-> Nothing]
    /\ freed = {}

\* A pointer is handed out with a promise.
Grant(p, size, align) ==
    /\ held' = [held EXCEPT ![p] = [size |-> size, align |-> align]]
    /\ freed' = freed \ {p}

kmalloc(size) ==
    \E b \in FirstFit(align16(size)) :
        /\ hdr' = Allocate(hdr, b, align16(size))
        /\ Grant(b + HeaderSize, size, Align)

\* Fault: the product is not checked.
kcalloc_unchecked(n, size) ==
    LET total == (n * size) % Word
    IN  /\ total # 0
        /\ \E b \in FirstFit(align16(total)) :
            /\ hdr' = Overwrite(Allocate(hdr, b, align16(total)), b + HeaderSize, total)
            /\ Grant(b + HeaderSize, n * size, Align)

kcalloc(n, size) ==
    LET total == (n * size) % Word
    IN  /\ total # 0 /\ total \div n = size
        /\ \E b \in FirstFit(align16(total)) :
            /\ hdr' = Overwrite(Allocate(hdr, b, align16(total)), b + HeaderSize, total)
            /\ Grant(b + HeaderSize, n * size, Align)

\* Callers may free a pointer twice, but not one that is somebody else's now.
kfree(p) ==
    /\ Holds(p) \/ p \in freed
    /\ hdr[p - HeaderSize].magic /\ ~hdr[p - HeaderSize].free
    /\ hdr' = Release(hdr, p - HeaderSize)
    /\ held' = [held EXCEPT ![p] = Nothing] /\ freed' = freed \cup {p}

\* krealloc for a pointer that is held and a size that is not zero.
ReallocKeeps(p, size) ==
    /\ Holds(p) /\ hdr[p - HeaderSize].magic /\ hdr[p - HeaderSize].size >= size
    /\ Grant(p, size, held[p].align)
    /\ UNCHANGED hdr

\* The next block is free and together they are large enough.
Expandable(p, size) ==
    LET b == p - HeaderSize
        n == hdr[b].next
    IN  n # Null /\ hdr[n].free /\ hdr[b].size + HeaderSize + hdr[n].size >= size

\* Fault: the list is not closed behind the block that is absorbed.
ReallocLeavesNext(p, size) ==
    /\ Holds(p) /\ hdr[p - HeaderSize].magic /\ hdr[p - HeaderSize].size < size
    /\ Expandable(p, size)
    /\ LET b == p - HeaderSize
       IN  hdr' = split_block([hdr EXCEPT ![b].size = @ + HeaderSize + hdr[hdr[b].next].size],
                              b, align16(size))
    /\ Grant(p, size, held[p].align)

ReallocExpands(p, size) ==
    /\ Holds(p) /\ hdr[p - HeaderSize].magic /\ hdr[p - HeaderSize].size < size
    /\ Expandable(p, size)
    /\ LET b == p - HeaderSize
       IN  hdr' = split_block(Merge(hdr, b, hdr[b].next), b, align16(size))
    /\ Grant(p, size, held[p].align)

ReallocMoves(p, size) ==
    /\ Holds(p) /\ hdr[p - HeaderSize].magic /\ hdr[p - HeaderSize].size < size
    /\ ~Expandable(p, size)
    /\ \E b \in FirstFit(align16(size)) :
        LET q == b + HeaderSize
        IN  /\ hdr' = Release(Copy(Allocate(hdr, b, align16(size)), q, p,
                                   hdr[p - HeaderSize].size), p - HeaderSize)
            /\ held' = [held EXCEPT ![p] = Nothing,
                                    ![q] = [size |-> size, align |-> Align]]
            /\ freed' = (freed \cup {p}) \ {q}

\* Bytes to skip so that the data of block b is aligned.
Padding(b, align) ==
    LET start == b + HeaderSize
        up    == start + align - 1
    IN  up - (up % align) - start

\* A block is cut in front only when the padding has room for a block.
AlignedFits(size, align) ==
    {b \in Listed(hdr) :
        /\ hdr[b].free /\ hdr[b].size >= size + Padding(b, align)
        /\ Padding(b, align) = 0 \/ Padding(b, align) >= HeaderSize + Align}

kmalloc_aligned(size, align) ==
    \E b \in FirstOf(AlignedFits(align16(size), align)) :
        LET pad == Padding(b, align)
        IN  /\ hdr' = IF pad = 0 THEN Allocate(hdr, b, align16(size))
                      ELSE Allocate(Carve(hdr, b, pad - HeaderSize), b + pad, align16(size))
            /\ Grant(b + pad + HeaderSize, size, align)

\* A holder writes the bytes it was promised, never with the image of a header.
UseMemory(p) ==
    /\ Holds(p)
    /\ hdr' = Overwrite(hdr, p, held[p].size)
    /\ UNCHANGED <<held, freed>>

Next ==
    \/ \E z \in Sizes : kmalloc(z) \/ (\E n \in Counts : kcalloc(n, z))
                                   \/ (\E a \in Alignments : kmalloc_aligned(z, a))
    \/ \E p \in Addrs :
          \/ kfree(p) \/ UseMemory(p)
          \/ \E z \in Sizes : ReallocKeeps(p, z) \/ ReallocExpands(p, z) \/ ReallocMoves(p, z)

Spec == Init /\ [][Next]_vars

TypeOK ==
    /\ hdr \in [Addrs -> Headers]
    /\ held \in [Addrs -> Promises]
    /\ freed \subseteq {p \in Addrs : ~Holds(p)}

=============================================================================
