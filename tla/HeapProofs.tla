----------------------------- MODULE HeapProofs -----------------------------
(***************************************************************************)
(* Proofs about the kernel heap: the list of blocks always tiles the heap, *)
(* no two free blocks are neighbours, and what is handed out is what was   *)
(* promised, apart from everything else, for every heap size, header size, *)
(* alignment and request.                                                  *)
(*                                                                         *)
(* The operations of memory.c change the list in steps, so what is kept is *)
(* stated for any content h of memory and proved helper by helper: Merge,  *)
(* Carve, split_block, Allocate, coalesce, Release, Overwrite and Copy.    *)
(***************************************************************************)
EXTENDS HeapProperties, NumberLemmas, TLAPS

\* Where the block after b begins, in memory h.
End(h, b) == b + HeaderSize + h[b].size

\* A block of the list has the magic number and room for data.
Blocks(h) ==
    \A b \in Listed(h) : h[b].magic /\ h[b].size >= Align /\ h[b].size % Align = 0

\* The part of Tiled that follows the links.
Linked(h) ==
    /\ HeapStart \in Listed(h) /\ h[HeapStart].prev = Null
    /\ \A b \in Listed(h) :
        /\ h[b].next = IF End(h, b) = HeapEnd THEN Null ELSE End(h, b)
        /\ End(h, b) # HeapEnd => End(h, b) \in Listed(h) /\ h[End(h, b)].prev = b

\* The part of Tiled that says that no block reaches into another.
Apart(h) == \A b, c \in Listed(h) : c <= b \/ c >= End(h, b)

\* The link back of every block but the first leads to the block before it.
Back(h) ==
    \A c \in Listed(h) :
        c # HeapStart => h[c].prev \in Listed(h) /\ End(h, h[c].prev) = c

\* A header that is not on the list any more says free, if it says anything.
Stale(h) == \A a \in Addrs : ~h[a].listed /\ h[a].magic => h[a].free

Shape(h) ==
    /\ h \in [Addrs -> Headers]
    /\ Blocks(h) /\ Linked(h) /\ Apart(h) /\ Back(h) /\ Stale(h)

Used(h, b) == h[b].listed /\ ~h[b].free

\* From h to g only the blocks in X come into use, go out of it or change size.
Keeps(h, g, X) ==
    \A c \in Addrs : c \notin X =>
        /\ Used(g, c) <=> Used(h, c)
        /\ Used(h, c) => g[c].size = h[c].size

\* No two free neighbours, but for those that concern the blocks in X.
NoPair(h, X) ==
    \A c \in Listed(h) :
        c \notin X /\ h[c].next \notin X /\ h[c].free /\ h[c].next # Null
            => ~h[h[c].next].free

NextUsed(h, b) == h[b].next # Null => ~h[h[b].next].free

FreedInHeap == \A p \in freed : Block(p) \in Addrs

IInv ==
    /\ TypeOK
    /\ Shape(hdr)
    /\ NoPair(hdr, {})
    /\ Granted
    /\ FreedInHeap

-----------------------------------------------------------------------------
(* Numbers.                                                                 *)

\* The parameters are numbers, and the sums of them that name addresses too.
LEMMA Constants ==
    /\ HeapStart \in Nat \ {0} /\ HeapSize \in Nat \ {0} /\ Align \in Nat \ {0}
    /\ HeaderSize \in Nat \ {0} /\ Word \in Nat \ {0} /\ HeapEnd \in Nat
    /\ HeapStart % Align = 0 /\ HeapEnd % Align = 0 /\ HeaderSize % Align = 0
    /\ HeaderSize < HeapSize /\ HeapEnd = HeapStart + HeapSize
BY HeapAssumption, MultipleSum DEF HeapEnd

\* What is an aligned address of the heap.
LEMMA InAddrs ==
    ASSUME NEW a \in Nat, HeapStart <= a, a < HeapEnd, a % Align = 0
    PROVE  a \in Addrs
BY Constants DEF Addrs

\* An address is an aligned number and not the null pointer.
LEMMA OfAddrs ==
    ASSUME NEW a \in Addrs
    PROVE  /\ a \in Nat /\ HeapStart <= a /\ a < HeapEnd /\ a % Align = 0
           /\ a # Null
BY Constants DEF Addrs, Null

\* The data of a block begin at an aligned address.
LEMMA DataAligned ==
    ASSUME NEW b \in Addrs
    PROVE  b + HeaderSize \in Nat /\ (b + HeaderSize) % Align = 0
<1>1. b \in Nat /\ b % Align = 0
  BY OfAddrs
<1>2. HeaderSize \in Nat /\ HeaderSize % Align = 0 /\ Align \in Nat \ {0}
  BY Constants
<1>3. (b + HeaderSize) % Align = 0
  BY <1>1, <1>2, MultipleSum
<1> QED BY <1>1, <1>2, <1>3

\* A number that a positive number divides is no smaller, but for zero.
LEMMA LeastMultiple ==
    ASSUME NEW x \in Nat \ {0}, NEW m \in Nat \ {0}, x % m = 0
    PROVE  x >= m
<1> DEFINE q == x \div m
<1>1. q \in Nat /\ x = m * q
  BY DivMod
<1> HIDE DEF q
<1>2. q # 0
  BY <1>1
<1> QED BY <1>1, <1>2, TimesPositive

\* align16 rounds up: no request that CallerAssumption admits wraps around.
LEMMA Aligned16 ==
    ASSUME NEW size \in 1 .. Word - Align
    PROVE  /\ align16(size) \in Nat /\ align16(size) % Align = 0
           /\ align16(size) >= size /\ align16(size) >= Align
<1> DEFINE up == size + Align - 1
           r  == up - (up % Align)
<1>1. /\ size \in Nat \ {0} /\ up \in Nat /\ up < Word
      /\ Align \in Nat \ {0} /\ Word \in Nat \ {0}
  BY Constants
<1>2. up % Word = up
  BY <1>1
<1>3. align16(size) = r
  BY <1>2 DEF align16
<1>4. r \in Nat /\ r % Align = 0 /\ size <= r
  BY <1>1, RoundUp
<1>5. r >= Align
  <2> HIDE DEF r
  <2> QED BY <1>1, <1>4, LeastMultiple
<1> QED BY <1>3, <1>4, <1>5

-----------------------------------------------------------------------------
(* Blocks of the list.                                                      *)

\* The fields of what lies at an address.
LEMMA Fields ==
    ASSUME NEW h \in [Addrs -> Headers], NEW a \in Addrs
    PROVE  /\ h[a] \in Headers
           /\ h[a].listed \in BOOLEAN /\ h[a].magic \in BOOLEAN /\ h[a].free \in BOOLEAN
           /\ h[a].size \in Nat
           /\ h[a].next \in Addrs \cup {Null} /\ h[a].prev \in Addrs \cup {Null}
<1>1. h[a] \in Headers
  OBVIOUS
<1> QED BY <1>1 DEF Headers

\* A block of the list lies in the heap, and all of its data with it; its next
\* block is the one after it.
LEMMA BlockFacts ==
    ASSUME NEW h, Shape(h), NEW b \in Listed(h)
    PROVE  /\ b \in Addrs /\ b \in Nat /\ h[b].size \in Nat /\ End(h, b) \in Nat
           /\ b < End(h, b) /\ End(h, b) <= HeapEnd /\ h[b].magic
           /\ h[b].size >= Align /\ h[b].size % Align = 0
           /\ b + HeaderSize \in Addrs
           /\ h[b].next = Null => End(h, b) = HeapEnd
           /\ h[b].next # Null => /\ h[b].next = End(h, b)
                                  /\ h[b].next \in Listed(h)
                                  /\ h[h[b].next].prev = b
<1>1. b \in Addrs /\ h \in [Addrs -> Headers]
  BY DEF Listed, Shape
<1>2. /\ b \in Nat /\ HeapStart <= b /\ b # Null /\ h[b].size \in Nat
      /\ h[b].magic /\ h[b].size >= Align /\ h[b].size % Align = 0
  BY <1>1, OfAddrs, Fields DEF Shape, Blocks
<1>3. /\ h[b].next = IF End(h, b) = HeapEnd THEN Null ELSE End(h, b)
      /\ End(h, b) # HeapEnd => End(h, b) \in Listed(h) /\ h[End(h, b)].prev = b
  BY DEF Shape, Linked
<1>4. End(h, b) \in Nat /\ b + HeaderSize < End(h, b) /\ End(h, b) # Null
  BY <1>2, Constants DEF End, Null
<1>5. End(h, b) <= HeapEnd
  <2>1. CASE End(h, b) = HeapEnd
    BY <2>1, <1>4
  <2>2. CASE End(h, b) # HeapEnd
    <3>1. End(h, b) \in Addrs
      BY <2>2, <1>3 DEF Listed
    <3>2. End(h, b) < HeapEnd
      BY <3>1, OfAddrs
    <3> QED BY <3>2, <1>4, Constants
  <2> QED BY <2>1, <2>2
<1>6. b + HeaderSize \in Addrs
  <2>1. b + HeaderSize \in Nat /\ (b + HeaderSize) % Align = 0
    BY <1>1, DataAligned
  <2>2. HeapStart <= b + HeaderSize /\ b + HeaderSize < HeapEnd
    BY <1>2, <1>4, <1>5, <2>1, Constants
  <2> QED BY <2>1, <2>2, InAddrs
<1>7. b < End(h, b)
  BY <1>2, <1>4, Constants
<1> QED BY <1>1, <1>2, <1>3, <1>4, <1>5, <1>6, <1>7

\* Two blocks of the list are the same, or one ends before the other begins.
LEMMA BlocksApart ==
    ASSUME NEW h, Shape(h), NEW b \in Listed(h), NEW c \in Listed(h), b < c
    PROVE  End(h, b) <= c
<1>1. b \in Nat /\ c \in Nat /\ End(h, b) \in Nat
  BY BlockFacts
<1> QED BY <1>1 DEF Shape, Apart

\* Only one block leads to another.
LEMMA OneBefore ==
    ASSUME NEW h, Shape(h), NEW b \in Listed(h), NEW c \in Listed(h),
           h[b].next = h[c].next, h[b].next # Null
    PROVE  b = c
BY BlockFacts

\* A block lies before the next one.
LEMMA NextAfter ==
    ASSUME NEW h, Shape(h), NEW b \in Listed(h), h[b].next # Null
    PROVE  /\ h[b].next \in Listed(h) /\ b < h[b].next /\ b # h[b].next
           /\ h[h[b].next].next # b
<1>1. h[b].next \in Listed(h) /\ b \in Nat /\ b < h[b].next /\ h[b].next \in Nat
  BY BlockFacts
<1>2. h[h[b].next].next # Null => h[b].next < h[h[b].next].next /\ h[h[b].next].next \in Nat
  BY <1>1, BlockFacts
<1>3. b # Null
  BY OfAddrs, BlockFacts
<1> QED BY <1>1, <1>2, <1>3

\* The link back of a block that is not the first leads to the one before it.
LEMMA PrevFacts ==
    ASSUME NEW h, Shape(h), NEW b \in Listed(h), h[b].prev # Null
    PROVE  /\ h[b].prev \in Listed(h) /\ h[h[b].prev].next = b
           /\ h[b].prev < b
<1>1. b # HeapStart
  BY DEF Shape, Linked
<1>2. h[b].prev \in Listed(h) /\ End(h, h[b].prev) = b
  BY <1>1 DEF Shape, Back
<1>3. b \in Addrs /\ b # HeapEnd
  BY OfAddrs, Constants, BlockFacts
<1> DEFINE p == h[b].prev
<1>4. h[p].next = b
  BY <1>2, <1>3 DEF Shape, Linked
<1>5. p < End(h, p)
  BY <1>2, BlockFacts
<1> QED BY <1>2, <1>4, <1>5

-----------------------------------------------------------------------------
(* Merge.                                                                   *)

\* What is left of an absorbed header.
LEMMA AbsorbedHeader ==
    ASSUME NEW x \in Headers
    PROVE  /\ Absorbed(x) \in Headers /\ Absorbed(x).listed = FALSE
           /\ Absorbed(x).free = x.free /\ Absorbed(x).magic = x.magic
<1>1. Bytes \in Headers
  BY DEF Bytes, Headers
<1>2. Bytes.listed = FALSE
  BY DEF Bytes
<1> HIDE DEF Bytes
<1> QED BY <1>1, <1>2 DEF Absorbed, Headers

\* When a free block is absorbed the list stays whole, and only the block that
\* absorbs it changes.
LEMMA MergeShape ==
    ASSUME NEW h, Shape(h), NEW b \in Listed(h), h[b].next # Null, h[h[b].next].free,
           NEW n, n = h[b].next, NEW g, g = Merge(h, b, n)
    PROVE  /\ Shape(g)
           /\ Listed(g) = Listed(h) \ {n} /\ b \in Listed(g)
           /\ g[b].size = h[b].size + HeaderSize + h[n].size
           /\ g[b].next = h[n].next /\ g[b].prev = h[b].prev
           /\ ~g[n].listed
           /\ \A c \in Listed(g) :
                /\ g[c].free = h[c].free
                /\ c # b => g[c].next = h[c].next /\ g[c].size = h[c].size
<1> DEFINE m == h[n].next
<1>1. /\ n \in Listed(h) /\ n \in Addrs /\ b \in Addrs /\ n = End(h, b)
      /\ b < n /\ b # n /\ m # b /\ m # n /\ h[n].prev = b
      /\ n \in Nat /\ b \in Nat /\ h[b].size \in Nat /\ h[n].size \in Nat
      /\ End(h, n) \in Nat /\ n < End(h, n) /\ h[b].magic /\ h[n].magic
      /\ h[b].size >= Align /\ h[b].size % Align = 0
      /\ h[n].size >= Align /\ h[n].size % Align = 0
  BY BlockFacts, NextAfter
<1>2. h \in [Addrs -> Headers] /\ h[b] \in Headers /\ h[n] \in Headers /\ h[b].listed
  BY <1>1, Fields DEF Shape, Listed
<1>3. /\ h[n].next \in Addrs \cup {Null} /\ h[b].prev \in Addrs \cup {Null}
      /\ h[n].magic \in BOOLEAN /\ h[n].free \in BOOLEAN
  BY <1>1, <1>2, Fields
<1>4. g[b] = [h[b] EXCEPT !.size = @ + HeaderSize + h[n].size, !.next = m]
  BY <1>1 DEF Merge
<1>5. g[n] = Absorbed(h[n])
  BY <1>1 DEF Merge
<1>6. \A a \in Addrs : a # b /\ a # n => g[a] = IF a = m THEN [h[a] EXCEPT !.prev = b] ELSE h[a]
  BY DEF Merge
<1>7. /\ g[b] \in Headers /\ g[b].listed /\ g[b].magic /\ g[b].free = h[b].free
      /\ g[b].size = h[b].size + HeaderSize + h[n].size
      /\ g[b].next = m /\ g[b].prev = h[b].prev
  <2> DEFINE z == h[b].size + HeaderSize + h[n].size
  <2>1. z \in Nat
    BY <1>1, Constants
  <2>2. g[b] = [h[b] EXCEPT !.size = z, !.next = m]
    BY <1>4
  <2> HIDE DEF z, m
  <2>3. m \in Addrs \cup {Null}
    BY <1>3 DEF m
  <2>4. /\ g[b] \in Headers /\ g[b].size = z /\ g[b].next = m
        /\ g[b].listed = h[b].listed /\ g[b].magic = h[b].magic
        /\ g[b].free = h[b].free /\ g[b].prev = h[b].prev
    BY <1>2, <2>1, <2>2, <2>3 DEF Headers
  <2> QED BY <2>4, <1>1, <1>2 DEF z
<1>8. g[n] \in Headers /\ ~g[n].listed /\ g[n].free
  <2>1. /\ Absorbed(h[n]).listed = FALSE /\ Absorbed(h[n]).free = h[n].free
        /\ Absorbed(h[n]) \in Headers
    BY <1>2, AbsorbedHeader
  <2> QED BY <2>1, <1>1, <1>5
<1>9. \A a \in Addrs : a # b /\ a # n =>
        /\ g[a] \in Headers /\ g[a].listed = h[a].listed /\ g[a].magic = h[a].magic
        /\ g[a].free = h[a].free /\ g[a].size = h[a].size /\ g[a].next = h[a].next
        /\ g[a].prev = IF a = m THEN b ELSE h[a].prev
  <2> TAKE a \in Addrs
  <2> HAVE a # b /\ a # n
  <2>1. h[a] \in Headers /\ b \in Addrs \cup {Null}
    BY <1>1, <1>2
  <2>2. CASE a = m
    BY <2>1, <2>2, <1>6 DEF Headers
  <2>3. CASE a # m
    BY <2>1, <2>3, <1>6
  <2> QED BY <2>2, <2>3
<1>10. g \in [Addrs -> Headers]
  <2>1. \A a \in Addrs : g[a] \in Headers
    BY <1>7, <1>8, <1>9
  <2>2. g = [a \in Addrs |-> g[a]]
    BY DEF Merge
  <2> QED BY <2>1, <2>2
<1>11. Listed(g) = Listed(h) \ {n}
  BY <1>1, <1>2, <1>7, <1>8, <1>9 DEF Listed
<1>12. b \in Listed(g)
  BY <1>1, <1>11
<1>13. End(g, b) = End(h, n)
  BY <1>1, <1>7, Constants DEF End
<1>14. \A c \in Listed(g) : c # b => End(g, c) = End(h, c) /\ c \in Listed(h) /\ c # n /\ c \in Addrs
  BY <1>9, <1>11 DEF End, Listed
<1>15. Blocks(g)
  <2>1. (h[b].size + HeaderSize + h[n].size) % Align = 0
    <3>1. (h[b].size + HeaderSize) % Align = 0
      BY <1>1, Constants, MultipleSum
    <3> QED BY <3>1, <1>1, Constants, MultipleSum
  <2>2. g[b].size >= Align /\ g[b].size % Align = 0 /\ g[b].magic
    BY <2>1, <1>1, <1>7, Constants
  <2>3. ASSUME NEW c \in Listed(g), c # b
        PROVE  g[c].magic /\ g[c].size >= Align /\ g[c].size % Align = 0
    BY <2>3, <1>9, <1>14 DEF Shape, Blocks
  <2> QED BY <2>2, <2>3 DEF Blocks
<1>16. Apart(g)
  <2> SUFFICES ASSUME NEW c \in Listed(g), NEW d \in Listed(g), d > c
               PROVE  d >= End(g, c)
    <3>1. \A c \in Listed(g) : c \in Nat
      BY <1>11, BlockFacts
    <3> QED BY <3>1 DEF Apart
  <2>1. c \in Listed(h) /\ d \in Listed(h) /\ d # n /\ c \in Nat /\ d \in Nat
    BY <1>11, BlockFacts
  <2>2. End(h, c) <= d
    BY <2>1, BlocksApart
  <2>3. CASE c # b
    BY <2>2, <2>3, <1>14
  <2>4. CASE c = b
    BY <2>1, <2>2, <2>4, <1>1, <1>13, BlocksApart
  <2> QED BY <2>3, <2>4
<1>17. Back(g)
  <2> SUFFICES ASSUME NEW c \in Listed(g), c # HeapStart
               PROVE  g[c].prev \in Listed(g) /\ End(g, g[c].prev) = c
    BY DEF Back
  <2>1. c \in Listed(h) /\ c # n /\ c \in Addrs
    BY <1>11 DEF Listed
  <2>2. h[c].prev \in Listed(h) /\ End(h, h[c].prev) = c
    BY <2>1 DEF Shape, Back
  <2>3. CASE c = m
    <3>1. g[c].prev = b
      BY <2>1, <2>3, <1>1, <1>9
    <3>2. End(h, n) = c
      <4>1. m # Null
        BY <2>1, <2>3, OfAddrs
      <4> QED BY <4>1, <2>3, <1>1, BlockFacts
    <3> QED BY <3>1, <3>2, <1>12, <1>13
  <2>4. CASE c # m
    <3>1. g[c].prev = h[c].prev
      BY <2>1, <2>4, <1>7, <1>9
    <3>2. h[c].prev # n
      <4> SUFFICES ASSUME h[c].prev = n PROVE FALSE
        OBVIOUS
      <4>1. End(h, n) = c /\ c # HeapEnd
        BY <2>1, <2>2, OfAddrs, Constants
      <4>2. m = c
        BY <4>1, <1>1 DEF Shape, Linked
      <4> QED BY <4>2, <2>4
    <3>3. h[c].prev # b
      BY <1>1, <2>1, <2>2
    <3> QED BY <3>1, <3>2, <3>3, <2>2, <1>11, <1>14
  <2> QED BY <2>3, <2>4
<1>18. Linked(g)
  <2>1. HeapStart \in Listed(g)
    <3>1. HeapStart # n
      BY <1>1, OfAddrs, Constants
    <3> QED BY <3>1, <1>11 DEF Shape, Linked
  <2>2. g[HeapStart].prev = Null
    <3>1. HeapStart # m
      <4>1. m # Null => m > n /\ n > HeapStart
        BY <1>1, OfAddrs, BlockFacts, Constants
      <4> QED BY <4>1, <1>1, Constants DEF Null
    <3>2. HeapStart \in Addrs /\ HeapStart # n /\ h[HeapStart].prev = Null
      BY <2>1, <1>11 DEF Listed, Shape, Linked
    <3> QED BY <3>1, <3>2, <1>7, <1>9
  <2>3. ASSUME NEW c \in Listed(g)
        PROVE  /\ g[c].next = IF End(g, c) = HeapEnd THEN Null ELSE End(g, c)
               /\ End(g, c) # HeapEnd => End(g, c) \in Listed(g) /\ g[End(g, c)].prev = c
    <3>1. CASE c = b
      <4>1. g[b].next = IF End(g, b) = HeapEnd THEN Null ELSE End(g, b)
        BY <1>1, <1>7, <1>13 DEF Shape, Linked
      <4>2. ASSUME End(g, b) # HeapEnd
            PROVE  End(g, b) \in Listed(g) /\ g[End(g, b)].prev = b
        <5>1. End(h, n) \in Listed(h) /\ m = End(h, n) /\ m # Null
          <6>1. End(h, n) \in Listed(h) /\ m = End(h, n)
            BY <4>2, <1>1, <1>13 DEF Shape, Linked
          <6> QED BY <6>1, <1>1, Constants DEF Null
        <5>2. m \in Addrs /\ m # n /\ m # b
          BY <5>1, <1>1 DEF Listed
        <5> QED BY <5>1, <5>2, <1>9, <1>11, <1>13
      <4> QED BY <3>1, <4>1, <4>2
    <3>2. CASE c # b
      <4>1. /\ g[c].next = h[c].next /\ End(g, c) = End(h, c)
            /\ c \in Listed(h) /\ c # n /\ c \in Addrs
        BY <3>2, <1>9, <1>14
      <4>2. ASSUME End(h, c) # HeapEnd
            PROVE  End(h, c) \in Listed(g) /\ g[End(h, c)].prev = c
        <5> DEFINE d == End(h, c)
        <5>1. d \in Listed(h) /\ h[d].prev = c /\ d \in Addrs
          BY <4>1, <4>2 DEF Shape, Linked, Listed
        <5>2. d # n
          BY <5>1, <3>2, <1>1
        <5>3. d # m
          <6> SUFFICES ASSUME d = m PROVE FALSE
            OBVIOUS
          <6>1. h[m].prev = n
            BY <5>1, <1>1, BlockFacts, OfAddrs
          <6> QED BY <6>1, <5>1, <4>1
        <5> QED BY <5>1, <5>2, <5>3, <1>7, <1>9, <1>11
      <4> QED BY <4>1, <4>2 DEF Shape, Linked
    <3> QED BY <3>1, <3>2
  <2> QED BY <2>1, <2>2, <2>3 DEF Linked
<1>19. Stale(g)
  BY <1>7, <1>8, <1>9 DEF Stale, Shape
<1>20. \A c \in Listed(g) :
        /\ g[c].free = h[c].free
        /\ c # b => g[c].next = h[c].next /\ g[c].size = h[c].size
  BY <1>7, <1>9, <1>14
<1> QED BY <1>7, <1>8, <1>10, <1>11, <1>12, <1>15, <1>16, <1>17, <1>18, <1>19, <1>20 DEF Shape

-----------------------------------------------------------------------------
(* Carve.                                                                   *)

\* Where the new header goes.
Rest(b, size) == b + HeaderSize + size

\* A block that is large enough to be cut, and a size it may be cut at.
MayCarve(h, b, size) ==
    /\ b \in Listed(h) /\ size \in Nat /\ size >= Align /\ size % Align = 0
    /\ h[b].size >= size + HeaderSize + Align

\* In g block b of h is cut in two: it keeps size bytes, n is free, and the other
\* blocks are what they were.
Carved(h, b, size, n, g) ==
    /\ n \in Addrs /\ n \notin Listed(h) /\ Listed(g) = Listed(h) \cup {n} /\ b # n
    /\ g[b].size = size /\ g[b].next = n /\ g[b].prev = h[b].prev
    /\ g[b].free = h[b].free
    /\ g[n].free /\ g[n].next = h[b].next
    /\ g[n].size = h[b].size - size - HeaderSize
    /\ \A c \in Listed(h) :
         /\ g[c].free = h[c].free
         /\ c # b => g[c].next = h[c].next /\ g[c].size = h[c].size

\* When a block is cut in two the list stays whole, and only that block changes
\* and a free one appears behind it.
LEMMA CarveShape ==
    ASSUME NEW h, Shape(h), NEW b, NEW size, MayCarve(h, b, size)
    PROVE  /\ Shape(Carve(h, b, size))
           /\ Carved(h, b, size, Rest(b, size), Carve(h, b, size))
<1> SUFFICES ASSUME b \in Listed(h), size \in Nat, size >= Align, size % Align = 0,
                    h[b].size >= size + HeaderSize + Align,
                    NEW n, n = b + HeaderSize + size, NEW g, g = Carve(h, b, size)
             PROVE  Shape(g) /\ Carved(h, b, size, n, g)
  BY DEF MayCarve, Rest
<1> DEFINE m == h[b].next
           z == h[b].size - size - HeaderSize
<1>1. /\ b \in Addrs /\ b \in Nat /\ h[b].size \in Nat /\ End(h, b) \in Nat
      /\ b < End(h, b) /\ End(h, b) <= HeapEnd /\ h[b].magic /\ b # Null
      /\ h[b].size >= Align /\ h[b].size % Align = 0
      /\ b + HeaderSize \in Nat /\ (b + HeaderSize) % Align = 0
      /\ HeapStart <= b
  BY BlockFacts, DataAligned, OfAddrs
<1>2. h \in [Addrs -> Headers] /\ h[b] \in Headers /\ h[b].listed
  BY <1>1, Fields DEF Shape, Listed
<1>3. h[b].next \in Addrs \cup {Null} /\ h[b].prev \in Addrs \cup {Null}
  BY <1>1, <1>2, Fields
<1>4. /\ z \in Nat /\ z >= Align /\ n \in Nat /\ b < n /\ n < End(h, b)
      /\ n + HeaderSize + z = End(h, b)
  BY <1>1, Constants DEF End
<1>5. z % Align = 0
  <2> DEFINE y == h[b].size - size
  <2>1. y % Align = 0 /\ y \in Nat /\ y >= HeaderSize
    <3>1. /\ size <= h[b].size /\ size \in Nat /\ size % Align = 0 /\ Align \in Nat \ {0}
          /\ h[b].size \in Nat /\ h[b].size % Align = 0
      BY <1>1, Constants
    <3>2. y % Align = 0
      BY ONLY <3>1, MultipleDifference
    <3> QED BY <3>1, <3>2, <1>4, Constants
  <2>2. HeaderSize \in Nat /\ HeaderSize % Align = 0 /\ Align \in Nat \ {0}
    BY Constants
  <2> HIDE DEF y
  <2>3. (y - HeaderSize) % Align = 0
    BY <2>1, <2>2, MultipleDifference
  <2> QED BY <2>3 DEF y
<1>6. n \in Addrs
  <2>1. n % Align = 0
    <3> DEFINE d == b + HeaderSize
    <3>1. d \in Nat /\ d % Align = 0 /\ Align \in Nat \ {0} /\ n = d + size
      BY <1>1, Constants
    <3>2. size \in Nat /\ size % Align = 0
      OBVIOUS
    <3> HIDE DEF d
    <3>3. (d + size) % Align = 0
      BY ONLY <3>1, <3>2, MultipleSum
    <3> QED BY <3>1, <3>3
  <2> QED BY <2>1, <1>1, <1>4, Constants, InAddrs
<1>7. n \notin Listed(h)
  BY <1>1, <1>4, BlocksApart
<1>8. n # m /\ b # m /\ b # n
  <2>1. m # Null => m = End(h, b)
    BY BlockFacts
  <2>2. n # Null
    BY <1>6, OfAddrs
  <2> QED BY <2>1, <2>2, <1>1, <1>4
<1>9. /\ g[b] \in Headers /\ g[b].listed /\ g[b].magic /\ g[b].free = h[b].free
      /\ g[b].size = size /\ g[b].next = n /\ g[b].prev = h[b].prev
  <2>1. g[b] = [h[b] EXCEPT !.size = size, !.next = n]
    BY <1>1 DEF Carve
  <2>2. size \in Nat /\ n \in Addrs \cup {Null}
    BY <1>6
  <2> QED BY <2>1, <2>2, <1>1, <1>2 DEF Headers
<1>10. /\ g[n] \in Headers /\ g[n].listed /\ g[n].magic /\ g[n].free
       /\ g[n].size = z /\ g[n].next = m /\ g[n].prev = b
  <2>1. g[n] = [listed |-> TRUE, magic |-> TRUE, free |-> TRUE,
                size |-> z, next |-> m, prev |-> b]
    BY <1>6, <1>8 DEF Carve
  <2>2. z \in Nat /\ m \in Addrs \cup {Null} /\ b \in Addrs \cup {Null}
    BY <1>1, <1>3, <1>4
  <2> HIDE DEF z, m
  <2> QED BY <2>1, <2>2 DEF Headers
<1>11. \A a \in Addrs : a # b /\ a # n =>
        /\ g[a] \in Headers /\ g[a].listed = h[a].listed /\ g[a].magic = h[a].magic
        /\ g[a].free = h[a].free /\ g[a].size = h[a].size /\ g[a].next = h[a].next
        /\ g[a].prev = IF a = m THEN n ELSE h[a].prev
  <2> TAKE a \in Addrs
  <2> HAVE a # b /\ a # n
  <2>1. h[a] \in Headers /\ n \in Addrs \cup {Null}
    BY <1>2, <1>6
  <2>2. g[a] = IF a = m THEN [h[a] EXCEPT !.prev = n] ELSE h[a]
    BY DEF Carve
  <2>3. CASE a = m
    BY <2>1, <2>2, <2>3 DEF Headers
  <2>4. CASE a # m
    BY <2>1, <2>2, <2>4
  <2> QED BY <2>3, <2>4
<1>12. g \in [Addrs -> Headers]
  <2>1. \A a \in Addrs : g[a] \in Headers
    BY <1>9, <1>10, <1>11
  <2>2. g = [a \in Addrs |-> g[a]]
    BY DEF Carve
  <2> QED BY <2>1, <2>2
<1>13. Listed(g) = Listed(h) \cup {n}
  BY <1>1, <1>2, <1>6, <1>9, <1>10, <1>11 DEF Listed
<1>14. End(g, b) = n /\ End(g, n) = End(h, b)
  BY <1>4, <1>9, <1>10 DEF End
<1>15. \A c \in Listed(h) : c # b => End(g, c) = End(h, c) /\ c # n /\ c \in Addrs
  BY <1>7, <1>11 DEF End, Listed
<1>16. Blocks(g)
  <2> SUFFICES ASSUME NEW c \in Listed(g)
               PROVE  g[c].magic /\ g[c].size >= Align /\ g[c].size % Align = 0
    BY DEF Blocks
  <2>1. CASE c = b
    BY <2>1, <1>9
  <2>2. CASE c = n
    BY <2>2, <1>4, <1>5, <1>10
  <2>3. CASE c # b /\ c # n
    BY <2>3, <1>11, <1>13, <1>15 DEF Shape, Blocks
  <2> QED BY <2>1, <2>2, <2>3
<1>17. Apart(g)
  <2> SUFFICES ASSUME NEW c \in Listed(g), NEW d \in Listed(g), d > c
               PROVE  d >= End(g, c)
    <3>1. \A c \in Listed(g) : c \in Nat
      BY <1>4, <1>13, BlockFacts
    <3> QED BY <3>1 DEF Apart
  <2>1. \A e \in Listed(h) : e \in Nat /\ End(h, e) \in Nat
    BY BlockFacts
  <2>2. CASE c = b
    <3>1. d # n => d \in Listed(h) /\ End(h, b) <= d
      BY <2>2, <1>13, BlocksApart
    <3> QED BY <3>1, <2>1, <2>2, <1>4, <1>14, <1>1
  <2>3. CASE c = n
    <3>1. d \in Listed(h) /\ b < d
      BY <2>1, <2>3, <1>1, <1>4, <1>13
    <3> QED BY <3>1, <2>3, <1>14, BlocksApart
  <2>4. CASE c # b /\ c # n
    <3>1. c \in Listed(h) /\ End(g, c) = End(h, c)
      BY <2>4, <1>13, <1>15
    <3>2. CASE d # n
      BY <3>1, <3>2, <1>13, BlocksApart
    <3>3. CASE d = n
      <4>1. c < b
        <5>1. b < c => End(h, b) <= c
          BY <3>1, BlocksApart
        <5>2. c \in Nat /\ b \in Nat /\ n \in Nat /\ End(h, b) \in Nat /\ n < End(h, b) /\ c # b
          BY <2>1, <2>4, <3>1, <1>4
        <5>3. c < n
          BY <3>3
        <5> QED BY <5>1, <5>2, <5>3
      <4>2. End(h, c) <= b
        BY <4>1, <3>1, BlocksApart
      <4> QED BY <4>2, <3>1, <3>3, <2>1, <1>1, <1>4
    <3> QED BY <3>2, <3>3
  <2> QED BY <2>2, <2>3, <2>4
<1>18. Back(g)
  <2> SUFFICES ASSUME NEW c \in Listed(g), c # HeapStart
               PROVE  g[c].prev \in Listed(g) /\ End(g, g[c].prev) = c
    BY DEF Back
  <2>1. CASE c = n
    BY <2>1, <1>10, <1>13, <1>14
  <2>2. CASE c # n
    <3>1. c \in Listed(h) /\ c \in Addrs
      BY <2>2, <1>13 DEF Listed
    <3>2. h[c].prev \in Listed(h) /\ End(h, h[c].prev) = c
      BY <3>1 DEF Shape, Back
    <3>3. CASE c = m
      <4>1. g[c].prev = n
        BY <2>2, <3>1, <3>3, <1>8, <1>11
      <4>2. End(h, b) = c
        BY <3>1, <3>3, OfAddrs, BlockFacts
      <4> QED BY <4>1, <4>2, <1>13, <1>14
    <3>4. CASE c # m
      <4>1. g[c].prev = h[c].prev
        BY <2>2, <3>1, <3>4, <1>9, <1>11
      <4>2. h[c].prev # b
        <5> SUFFICES ASSUME h[c].prev = b PROVE FALSE
          OBVIOUS
        <5>1. End(h, b) = c /\ c # HeapEnd
          BY <3>1, <3>2, OfAddrs, Constants
        <5>2. m = c
          BY <5>1 DEF Shape, Linked
        <5> QED BY <5>2, <3>4
      <4> QED BY <4>1, <4>2, <3>2, <1>13, <1>15
    <3> QED BY <3>3, <3>4
  <2> QED BY <2>1, <2>2
<1>19. Linked(g)
  <2>1. HeapStart \in Listed(h) /\ HeapStart \in Listed(g)
    BY <1>13 DEF Shape, Linked
  <2>2. g[HeapStart].prev = Null
    <3>1. HeapStart # m
      <4>1. m # Null => m > HeapStart
        BY <1>1, BlockFacts, Constants
      <4> QED BY <4>1, Constants DEF Null
    <3>2. HeapStart \in Addrs /\ HeapStart # n /\ h[HeapStart].prev = Null
      BY <2>1, <1>1, <1>4, Constants DEF Listed, Shape, Linked
    <3> QED BY <3>1, <3>2, <1>9, <1>11
  <2>3. ASSUME NEW c \in Listed(g)
        PROVE  /\ g[c].next = IF End(g, c) = HeapEnd THEN Null ELSE End(g, c)
               /\ End(g, c) # HeapEnd => End(g, c) \in Listed(g) /\ g[End(g, c)].prev = c
    <3>1. CASE c = b
      <4>1. n # HeapEnd
        BY <1>6, OfAddrs, Constants
      <4> QED BY <4>1, <3>1, <1>9, <1>10, <1>13, <1>14
    <3>2. CASE c = n
      <4>1. g[n].next = IF End(g, n) = HeapEnd THEN Null ELSE End(g, n)
        BY <1>10, <1>14 DEF Shape, Linked
      <4>2. ASSUME End(g, n) # HeapEnd
            PROVE  End(g, n) \in Listed(g) /\ g[End(g, n)].prev = n
        <5>1. End(h, b) \in Listed(h) /\ m = End(h, b)
          BY <4>2, <1>14 DEF Shape, Linked
        <5>2. m \in Addrs
          BY <5>1 DEF Listed
        <5> QED BY <5>1, <5>2, <1>8, <1>11, <1>13, <1>14
      <4> QED BY <3>2, <4>1, <4>2
    <3>3. CASE c # b /\ c # n
      <4>1. /\ g[c].next = h[c].next /\ End(g, c) = End(h, c)
            /\ c \in Listed(h) /\ c \in Addrs
        BY <3>3, <1>11, <1>13, <1>15
      <4>2. ASSUME End(h, c) # HeapEnd
            PROVE  End(h, c) \in Listed(g) /\ g[End(h, c)].prev = c
        <5> DEFINE d == End(h, c)
        <5>1. d \in Listed(h) /\ h[d].prev = c /\ d \in Addrs /\ d # n
          BY <4>1, <4>2, <1>7 DEF Shape, Linked, Listed
        <5>2. d # m
          <6> SUFFICES ASSUME d = m PROVE FALSE
            OBVIOUS
          <6>1. h[m].prev = b
            BY <5>1, BlockFacts, OfAddrs
          <6> QED BY <6>1, <5>1, <3>3
        <5> QED BY <5>1, <5>2, <1>9, <1>11, <1>13
      <4> QED BY <4>1, <4>2 DEF Shape, Linked
    <3> QED BY <3>1, <3>2, <3>3
  <2> QED BY <2>1, <2>2, <2>3 DEF Linked
<1>20. Stale(g)
  BY <1>9, <1>10, <1>11 DEF Stale, Shape
<1>21. \A c \in Listed(h) :
        /\ g[c].free = h[c].free
        /\ c # b => g[c].next = h[c].next /\ g[c].size = h[c].size
  BY <1>9, <1>11, <1>15
<1>22. Shape(g)
  BY <1>12, <1>16, <1>17, <1>18, <1>19, <1>20 DEF Shape
<1>23. Carved(h, b, size, n, g)
  BY <1>6, <1>7, <1>8, <1>9, <1>10, <1>13, <1>21 DEF Carved
<1> QED BY <1>22, <1>23

-----------------------------------------------------------------------------
(* Changes that leave the list alone.                                       *)

\* The list is in g what it is in h.
SameList(h, g) ==
    /\ Listed(g) = Listed(h)
    /\ \A c \in Listed(h) :
         /\ g[c].magic = h[c].magic /\ g[c].size = h[c].size
         /\ g[c].next = h[c].next /\ g[c].prev = h[c].prev

\* Then it is whole in g if it was in h.
LEMMA SameShape ==
    ASSUME NEW h, Shape(h), NEW g \in [Addrs -> Headers], SameList(h, g), Stale(g)
    PROVE  Shape(g)
<1>1. \A c \in Listed(h) : End(g, c) = End(h, c)
  BY DEF SameList, End
<1>2. Blocks(g)
  BY DEF Shape, SameList, Blocks
<1>3. Linked(g)
  <2>1. HeapStart \in Listed(g) /\ g[HeapStart].prev = Null
    BY DEF Shape, SameList, Linked
  <2> QED BY <1>1, <2>1 DEF Shape, SameList, Linked
<1>4. Apart(g)
  BY <1>1 DEF Shape, SameList, Apart
<1>5. Back(g)
  BY <1>1 DEF Shape, SameList, Back
<1> QED BY <1>2, <1>3, <1>4, <1>5 DEF Shape

\* Setting the flag of one block.
Flagged(h, b, f) == [h EXCEPT ![b].free = f]

\* It leaves the list alone.
LEMMA SetFree ==
    ASSUME NEW h, Shape(h), NEW b \in Listed(h), NEW f \in BOOLEAN,
           NEW g, g = Flagged(h, b, f)
    PROVE  /\ Shape(g) /\ SameList(h, g) /\ g[b].free = f
           /\ \A c \in Listed(h) : c # b => g[c].free = h[c].free
<1>1. h \in [Addrs -> Headers] /\ b \in Addrs /\ h[b].listed
  BY DEF Shape, Listed
<1>2. /\ g[b] \in Headers /\ g[b].free = f
      /\ g[b].listed = h[b].listed /\ g[b].magic = h[b].magic /\ g[b].size = h[b].size
      /\ g[b].next = h[b].next /\ g[b].prev = h[b].prev
  <2>1. g[b] = [h[b] EXCEPT !.free = f] /\ h[b] \in Headers
    BY <1>1 DEF Flagged
  <2> QED BY <2>1 DEF Headers
<1>3. \A a \in Addrs : a # b => g[a] = h[a]
  BY <1>1 DEF Flagged
<1>4. g \in [Addrs -> Headers]
  <2>1. \A a \in Addrs : g[a] \in Headers
    BY <1>1, <1>2, <1>3
  <2>2. g = [a \in Addrs |-> g[a]]
    BY <1>1 DEF Flagged
  <2> QED BY <2>1, <2>2
<1>5. Listed(g) = Listed(h)
  BY <1>1, <1>2, <1>3 DEF Listed
<1>6. SameList(h, g)
  BY <1>2, <1>3, <1>5 DEF SameList, Listed
<1>7. Stale(g)
  BY <1>1, <1>2, <1>3 DEF Stale, Shape
<1>8. \A c \in Listed(h) : c # b => g[c].free = h[c].free
  BY <1>3 DEF Listed
<1> QED BY <1>2, <1>4, <1>6, <1>7, <1>8, SameShape

\* No header of the list lies among the data of a block.
LEMMA DataHasNoHeader ==
    ASSUME NEW h, Shape(h), NEW b \in Listed(h), NEW c \in Listed(h),
           NEW n \in Nat, n <= h[b].size
    PROVE  ~(b + HeaderSize <= c /\ c < b + HeaderSize + n)
<1>1. /\ b \in Nat /\ c \in Nat /\ h[b].size \in Nat
      /\ End(h, b) = b + HeaderSize + h[b].size /\ HeaderSize \in Nat \ {0}
  BY BlockFacts, Constants DEF End
<1>2. b < c => End(h, b) <= c
  BY BlocksApart
<1> QED BY <1>1, <1>2

\* Writing data into a block leaves the list alone.
LEMMA OverwriteShape ==
    ASSUME NEW h, Shape(h), NEW b \in Listed(h), NEW n \in Nat, n <= h[b].size,
           NEW g, g = Overwrite(h, b + HeaderSize, n)
    PROVE  Shape(g) /\ SameList(h, g) /\ \A c \in Listed(h) : g[c] = h[c]
<1>1. h \in [Addrs -> Headers]
  BY DEF Shape
<1>2. Bytes \in Headers /\ ~Bytes.listed /\ ~Bytes.magic
  BY DEF Bytes, Headers
<1>3. \A a \in Addrs : g[a] = h[a] \/ g[a] = Bytes
  BY DEF Overwrite
<1>4. \A c \in Listed(h) : g[c] = h[c]
  BY DataHasNoHeader DEF Overwrite, Listed
<1>5. g \in [Addrs -> Headers]
  <2>1. \A a \in Addrs : g[a] \in Headers
    BY <1>1, <1>2, <1>3
  <2>2. g = [a \in Addrs |-> g[a]]
    BY DEF Overwrite
  <2> QED BY <2>1, <2>2
<1>6. Listed(g) = Listed(h)
  BY <1>2, <1>3, <1>4 DEF Listed
<1>7. SameList(h, g)
  BY <1>4, <1>6 DEF SameList
<1>8. Stale(g)
  BY <1>2, <1>3 DEF Stale, Shape
<1> QED BY <1>4, <1>5, <1>7, <1>8, SameShape

\* So does copying data from another block; what looks like a header among them
\* looks like one in the copy, and still says free.
LEMMA CopyShape ==
    ASSUME NEW h, Shape(h), NEW b \in Listed(h), NEW d \in Listed(h),
           NEW n \in Nat, n <= h[b].size, n <= h[d].size,
           NEW g, g = Copy(h, b + HeaderSize, d + HeaderSize, n)
    PROVE  Shape(g) /\ SameList(h, g) /\ \A c \in Listed(h) : g[c] = h[c]
<1> DEFINE src(a) == a - (b + HeaderSize) + (d + HeaderSize)
<1>1. h \in [Addrs -> Headers]
  BY DEF Shape
<1>2. ASSUME NEW a \in Addrs, b + HeaderSize <= a, a < b + HeaderSize + n
      PROVE  /\ src(a) \in Addrs /\ src(a) \notin Listed(h)
             /\ g[a] = h[src(a)]
  <2>1. /\ b + HeaderSize \in Addrs /\ d + HeaderSize \in Addrs
        /\ End(h, d) <= HeapEnd /\ h[d].size \in Nat /\ d \in Nat /\ b \in Nat
    BY BlockFacts
  <2> DEFINE p == b + HeaderSize
             q == d + HeaderSize
             k == a - p
  <2>2. /\ p \in Nat /\ p % Align = 0 /\ q \in Nat /\ q % Align = 0
        /\ a \in Nat /\ a % Align = 0 /\ Align \in Nat \ {0} /\ HeapStart <= q
        /\ HeapStart \in Nat /\ HeapEnd \in Nat
    BY <2>1, OfAddrs, Constants
  <2>3. k \in Nat /\ k < n
    BY <1>2, <2>1, <2>2, Constants
  <2>4. k % Align = 0
    <3>1. p <= a
      BY <1>2
    <3> HIDE DEF p
    <3> QED BY <2>2, <3>1, MultipleDifference
  <2>5. q + n <= HeapEnd
    BY <2>1, Constants DEF End
  <2>6. src(a) = k + q
    BY <2>1, <2>2, Constants
  <2> HIDE DEF k
  <2>7. src(a) \in Addrs
    <3> HIDE DEF q
    <3>1. (k + q) % Align = 0
      BY <2>2, <2>3, <2>4, MultipleSum
    <3>2. k + q \in Nat /\ HeapStart <= k + q /\ k + q < HeapEnd
      BY <2>2, <2>3, <2>5
    <3> QED BY <3>1, <3>2, <2>6, InAddrs
  <2>8. d + HeaderSize <= src(a) /\ src(a) < d + HeaderSize + n
    BY <2>2, <2>3, <2>6
  <2>9. src(a) \notin Listed(h)
    BY <2>8, DataHasNoHeader
  <2>10. g[a] = h[src(a)]
    BY <1>2 DEF Copy
  <2> QED BY <2>7, <2>9, <2>10
<1>3. \A a \in Addrs :
        \/ g[a] = h[a]
        \/ \E s \in Addrs : s \notin Listed(h) /\ g[a] = h[s]
  <2> TAKE a \in Addrs
  <2>1. CASE b + HeaderSize <= a /\ a < b + HeaderSize + n
    BY <1>2, <2>1
  <2>2. CASE ~(b + HeaderSize <= a /\ a < b + HeaderSize + n)
    BY <2>2 DEF Copy
  <2> QED BY <2>1, <2>2
<1> HIDE DEF src
<1>4. \A c \in Listed(h) : g[c] = h[c]
  BY DataHasNoHeader DEF Copy, Listed
<1>5. g \in [Addrs -> Headers]
  <2>1. \A a \in Addrs : g[a] \in Headers
    BY <1>1, <1>3
  <2>2. g = [a \in Addrs |-> g[a]]
    BY DEF Copy
  <2> QED BY <2>1, <2>2
<1>6. \A s \in Addrs : s \notin Listed(h) => ~h[s].listed
  BY DEF Listed
<1>7. Listed(g) = Listed(h)
  BY <1>3, <1>4, <1>6 DEF Listed
<1>8. SameList(h, g)
  BY <1>4, <1>7 DEF SameList
<1>9. Stale(g)
  BY <1>3, <1>6 DEF Stale, Shape
<1> QED BY <1>4, <1>5, <1>8, <1>9, SameShape

-----------------------------------------------------------------------------
(* split_block, Allocate, coalesce and Release.                             *)

\* A block that is large enough for size bytes, next to no free block.
MaySplit(h, b, size) ==
    /\ b \in Listed(h) /\ NoPair(h, {b}) /\ NextUsed(h, b)
    /\ size \in Nat /\ size >= Align /\ size % Align = 0 /\ h[b].size >= size

\* In g the block still has size bytes, and the blocks in use are what they were.
Split(h, b, size, g) ==
    /\ Shape(g) /\ b \in Listed(g) /\ NoPair(g, {b})
    /\ g[b].size >= size /\ g[b].free = h[b].free
    /\ \A c \in Addrs : c # b => (Used(g, c) <=> Used(h, c))
    /\ \A c \in Listed(h) : c # b => g[c].size = h[c].size

\* split_block keeps the size that was asked for, or more, and nothing but this
\* block and the free rest behind it changes. The rest is a neighbour of this
\* block and of the next one, which must be in use.
LEMMA SplitShape ==
    ASSUME NEW h, Shape(h), NEW b, NEW size, MaySplit(h, b, size)
    PROVE  Split(h, b, size, split_block(h, b, size))
<1> SUFFICES ASSUME b \in Listed(h), NoPair(h, {b}), NextUsed(h, b),
                    size \in Nat, size >= Align, size % Align = 0, h[b].size >= size,
                    NEW g, g = split_block(h, b, size)
             PROVE  Split(h, b, size, g)
  BY DEF MaySplit
<1>1. b \in Nat /\ h[b].size \in Nat
  BY BlockFacts
<1>2. CASE ~(h[b].size >= size + HeaderSize + Align)
  <2>1. g = h
    BY <1>2 DEF split_block
  <2> QED BY <2>1 DEF Split
<1>3. CASE h[b].size >= size + HeaderSize + Align
  <2> DEFINE n == Rest(b, size)
  <2>1. g = Carve(h, b, size) /\ MayCarve(h, b, size)
    BY <1>3 DEF split_block, MayCarve
  <2>2. /\ Shape(g)
        /\ n \in Addrs /\ n \notin Listed(h) /\ Listed(g) = Listed(h) \cup {n} /\ b # n
        /\ g[b].size = size /\ g[b].next = n /\ g[b].free = h[b].free
        /\ g[n].free /\ g[n].next = h[b].next
        /\ \A c \in Listed(h) :
             /\ g[c].free = h[c].free
             /\ c # b => g[c].next = h[c].next /\ g[c].size = h[c].size
    BY <2>1, CarveShape DEF Carved
  <2> HIDE DEF n
  <2>3. NoPair(g, {b})
    <3> SUFFICES ASSUME NEW c \in Listed(g), c # b, g[c].next # b, g[c].free, g[c].next # Null
                 PROVE  ~g[g[c].next].free
      BY DEF NoPair
    <3>1. CASE c = n
      <4>1. h[b].next # Null /\ g[c].next = h[b].next /\ h[b].next \in Listed(h)
        BY <2>2, <3>1, BlockFacts
      <4> QED BY <4>1, <2>2 DEF NextUsed
    <3>2. CASE c # n
      <4>1. c \in Listed(h) /\ h[c].next = g[c].next /\ h[c].free
        BY <2>2, <3>2
      <4>2. h[c].next \in Listed(h)
        BY <4>1, BlockFacts
      <4> QED BY <4>1, <4>2, <2>2 DEF NoPair
    <3> QED BY <3>1, <3>2
  <2>4. \A c \in Addrs : c # b => (Used(g, c) <=> Used(h, c))
    <3> TAKE c \in Addrs
    <3> HAVE c # b
    <3>1. h[c].listed \in BOOLEAN /\ g[c].listed \in BOOLEAN
      BY <2>2, Fields DEF Shape
    <3>2. CASE c \in Listed(h)
      BY <2>2, <3>1, <3>2 DEF Used, Listed
    <3>3. CASE c \notin Listed(h)
      BY <2>2, <3>1, <3>3 DEF Used, Listed
    <3> QED BY <3>2, <3>3
  <2> QED BY <2>2, <2>3, <2>4 DEF Split
<1> QED BY <1>2, <1>3

\* Allocating a free block that fits: it is in use afterwards and at least as
\* large as was asked for, and nothing else that is in use changes.
LEMMA AllocateShape ==
    ASSUME NEW h, Shape(h), NEW b \in Listed(h), NoPair(h, {b}), NextUsed(h, b),
           NEW size \in Nat, size >= Align, size % Align = 0, h[b].size >= size,
           NEW g, g = Allocate(h, b, size)
    PROVE  /\ Shape(g) /\ b \in Listed(g) /\ NoPair(g, {}) /\ Keeps(h, g, {b})
           /\ Used(g, b) /\ g[b].size >= size
<1> DEFINE s == split_block(h, b, size)
<1>1. /\ Shape(s) /\ b \in Listed(s) /\ NoPair(s, {b}) /\ s[b].size >= size
      /\ \A c \in Addrs : c # b => (Used(s, c) <=> Used(h, c))
      /\ \A c \in Listed(h) : c # b => s[c].size = h[c].size
  <2>1. MaySplit(h, b, size)
    BY DEF MaySplit
  <2>2. Split(h, b, size, s)
    BY <2>1, SplitShape
  <2> QED BY <2>2 DEF Split
<1>2. g = Flagged(s, b, FALSE)
  BY DEF Allocate, Flagged
<1> HIDE DEF s
<1>3. /\ Shape(g) /\ SameList(s, g) /\ g[b].free = FALSE
      /\ \A c \in Listed(s) : c # b => g[c].free = s[c].free
  <2> DEFINE f == FALSE
  <2>1. f \in BOOLEAN /\ g = Flagged(s, b, f)
    BY <1>2
  <2> HIDE DEF f
  <2>2. /\ Shape(g) /\ SameList(s, g) /\ g[b].free = f
        /\ \A c \in Listed(s) : c # b => g[c].free = s[c].free
    BY <1>1, <2>1, SetFree
  <2> QED BY <2>2 DEF f
<1>4. Used(g, b) /\ b \in Listed(g) /\ g[b].size >= size
  BY <1>1, <1>3 DEF SameList, Used, Listed
<1>5. NoPair(g, {})
  <2> SUFFICES ASSUME NEW c \in Listed(g), g[c].free, g[c].next # Null
               PROVE  ~g[g[c].next].free
    BY DEF NoPair
  <2>1. c \in Listed(s) /\ c # b /\ g[c].next = s[c].next /\ s[c].free
    BY <1>3 DEF SameList
  <2>2. s[c].next \in Listed(s)
    BY <1>1, <2>1, BlockFacts
  <2> QED BY <2>1, <2>2, <1>1, <1>3 DEF NoPair
<1>6. Keeps(h, g, {b})
  <2> SUFFICES ASSUME NEW c \in Addrs, c # b
               PROVE  /\ Used(g, c) <=> Used(h, c)
                      /\ Used(h, c) => g[c].size = h[c].size
    BY DEF Keeps
  <2>1. Used(g, c) <=> Used(s, c)
    <3>1. s[c].listed \in BOOLEAN /\ g[c].listed \in BOOLEAN
      BY <1>1, <1>3, Fields DEF Shape
    <3>2. CASE c \in Listed(s)
      BY <1>3, <3>1, <3>2 DEF Used, SameList, Listed
    <3>3. CASE c \notin Listed(s)
      BY <1>3, <3>1, <3>3 DEF Used, SameList, Listed
    <3> QED BY <3>2, <3>3
  <2>2. Used(h, c) => g[c].size = h[c].size
    <3> SUFFICES ASSUME Used(h, c) PROVE g[c].size = h[c].size
      OBVIOUS
    <3>1. c \in Listed(h) /\ c \in Listed(s)
      BY <1>1 DEF Used, Listed
    <3> QED BY <3>1, <1>1, <1>3 DEF SameList
  <2> QED BY <2>1, <2>2, <1>1
<1> QED BY <1>3, <1>4, <1>5, <1>6

\* Merging two free blocks changes no block in use.
LEMMA MergeKeeps ==
    ASSUME NEW h, Shape(h), NEW b \in Listed(h), h[b].free,
           h[b].next # Null, h[h[b].next].free,
           NEW n, n = h[b].next, NEW g, g = Merge(h, b, n)
    PROVE  Keeps(h, g, {})
<1>1. /\ Shape(g) /\ Listed(g) = Listed(h) \ {n}
      /\ \A c \in Listed(g) : g[c].free = h[c].free /\ (c # b => g[c].size = h[c].size)
  BY MergeShape
<1>2. n \in Listed(h)
  BY NextAfter
<1> SUFFICES ASSUME NEW c \in Addrs
             PROVE  /\ Used(g, c) <=> Used(h, c)
                    /\ Used(h, c) => g[c].size = h[c].size
  BY DEF Keeps
<1>3. h[c].listed \in BOOLEAN /\ g[c].listed \in BOOLEAN
  BY <1>1, Fields DEF Shape
<1>4. CASE c \in Listed(g)
  BY <1>1, <1>3, <1>4 DEF Used, Listed
<1>5. CASE c = n
  BY <1>1, <1>2, <1>3, <1>5 DEF Used, Listed
<1>6. CASE c \notin Listed(h)
  BY <1>1, <1>3, <1>6 DEF Used, Listed
<1> QED BY <1>1, <1>4, <1>5, <1>6

\* What is kept over two changes is kept over both.
LEMMA KeepsTwice ==
    ASSUME NEW h, NEW g, NEW k, NEW X, NEW Y, Keeps(h, g, X), Keeps(g, k, Y)
    PROVE  Keeps(h, k, X \cup Y)
BY DEF Keeps

\* The first half of coalesce: the next block, if it is free, is absorbed, and
\* the one after it is in use.
LEMMA JoinNext ==
    ASSUME NEW h, Shape(h), NEW b \in Listed(h), h[b].free, NoPair(h, {b}),
           NEW n, n = h[b].next,
           NEW g, g = IF n # Null /\ h[n].free /\ h[n].magic THEN Merge(h, b, n) ELSE h
    PROVE  /\ Shape(g) /\ b \in Listed(g) /\ g[b].free
           /\ NoPair(g, {b}) /\ NextUsed(g, b) /\ Keeps(h, g, {})
<1>1. n # Null => n \in Listed(h) /\ h[n].magic
  BY BlockFacts
<1>2. CASE n # Null /\ h[n].free
  <2>1. g = Merge(h, b, n)
    BY <1>1, <1>2
  <2>2. /\ Shape(g) /\ Listed(g) = Listed(h) \ {n} /\ b \in Listed(g)
        /\ g[b].next = h[n].next
        /\ \A c \in Listed(g) : g[c].free = h[c].free /\ (c # b => g[c].next = h[c].next)
    BY <1>2, <2>1, MergeShape
  <2>3. Keeps(h, g, {})
    BY <1>2, <2>1, MergeKeeps
  <2>4. NextUsed(g, b)
    <3> SUFFICES ASSUME h[n].next # Null PROVE ~g[h[n].next].free
      BY <2>2 DEF NextUsed
    <3>1. h[n].next \in Listed(h) /\ h[n].next # n /\ h[n].next # b /\ n # b
      BY <1>1, <1>2, NextAfter
    <3>2. ~h[h[n].next].free
      BY <1>1, <1>2, <3>1 DEF NoPair
    <3> QED BY <2>2, <3>1, <3>2
  <2>5. NoPair(g, {b})
    <3> SUFFICES ASSUME NEW c \in Listed(g), c # b, g[c].next # b, g[c].free, g[c].next # Null
                 PROVE  ~g[g[c].next].free
      BY DEF NoPair
    <3>1. c \in Listed(h) /\ h[c].free /\ g[c].next = h[c].next
      BY <2>2
    <3>2. h[c].next \in Listed(h) /\ h[c].next # n
      BY <3>1, NextAfter, OneBefore
    <3> QED BY <2>2, <3>1, <3>2 DEF NoPair
  <2> QED BY <2>2, <2>3, <2>4, <2>5
<1>3. CASE ~(n # Null /\ h[n].free)
  <2>1. g = h
    BY <1>3
  <2> QED BY <1>3, <2>1 DEF NextUsed, Keeps
<1> QED BY <1>2, <1>3

\* Then the previous block, if it is free, absorbs it in turn, and no two free
\* blocks are neighbours any more.
LEMMA CoalesceShape ==
    ASSUME NEW h, Shape(h), NEW b \in Listed(h), h[b].free, NoPair(h, {b}),
           NEW g, g = coalesce(h, b)
    PROVE  Shape(g) /\ NoPair(g, {}) /\ Keeps(h, g, {})
<1> DEFINE n  == h[b].next
           h1 == IF n # Null /\ h[n].free /\ h[n].magic THEN Merge(h, b, n) ELSE h
           p  == h1[b].prev
<1>1. /\ Shape(h1) /\ b \in Listed(h1) /\ h1[b].free
      /\ NoPair(h1, {b}) /\ NextUsed(h1, b) /\ Keeps(h, h1, {})
  BY JoinNext
<1>2. g = IF p # Null /\ h1[p].free /\ h1[p].magic THEN Merge(h1, p, b) ELSE h1
  BY DEF coalesce
<1> HIDE DEF h1
<1>3. p # Null => p \in Listed(h1) /\ h1[p].next = b /\ h1[p].magic /\ b # Null
  BY <1>1, PrevFacts, BlockFacts, OfAddrs
<1>4. CASE p # Null /\ h1[p].free
  <2>1. g = Merge(h1, p, b)
    BY <1>2, <1>3, <1>4
  <2>2. /\ Shape(g) /\ Listed(g) = Listed(h1) \ {b}
        /\ g[p].next = h1[b].next
        /\ \A c \in Listed(g) : g[c].free = h1[c].free /\ (c # p => g[c].next = h1[c].next)
    BY <1>1, <1>3, <1>4, <2>1, MergeShape
  <2>3. Keeps(h1, g, {})
    BY <1>1, <1>3, <1>4, <2>1, MergeKeeps
  <2>4. NoPair(g, {})
    <3> SUFFICES ASSUME NEW c \in Listed(g), g[c].free, g[c].next # Null
                 PROVE  ~g[g[c].next].free
      BY DEF NoPair
    <3>1. c \in Listed(h1) /\ c # b /\ h1[c].free
      BY <2>2
    <3>2. CASE c = p
      <4>1. h1[b].next # Null /\ g[c].next = h1[b].next
        BY <2>2, <3>2
      <4>2. h1[b].next \in Listed(h1) /\ h1[b].next # b
        BY <1>1, <4>1, NextAfter
      <4> QED BY <1>1, <2>2, <4>1, <4>2 DEF NextUsed
    <3>3. CASE c # p
      <4>1. g[c].next = h1[c].next
        BY <2>2, <3>3
      <4>2. h1[c].next \in Listed(h1) /\ h1[c].next # b
        BY <1>1, <1>3, <1>4, <3>1, <3>3, <4>1, NextAfter, OneBefore
      <4> QED BY <1>1, <2>2, <3>1, <4>1, <4>2 DEF NoPair
    <3> QED BY <3>2, <3>3
  <2> QED BY <1>1, <2>2, <2>3, <2>4, KeepsTwice
<1>5. CASE ~(p # Null /\ h1[p].free)
  <2>1. g = h1
    BY <1>2, <1>5
  <2>2. NoPair(h1, {})
    <3> SUFFICES ASSUME NEW c \in Listed(h1), h1[c].free, h1[c].next # Null
                 PROVE  ~h1[h1[c].next].free
      BY DEF NoPair
    <3>1. CASE c = b
      BY <1>1, <3>1 DEF NextUsed
    <3>2. CASE h1[c].next = b
      <4>1. h1[b].prev = c
        BY <1>1, <3>2, BlockFacts
      <4>2. c # Null
        BY <1>1, BlockFacts, OfAddrs
      <4> QED BY <1>5, <4>1, <4>2
    <3>3. CASE c # b /\ h1[c].next # b
      BY <1>1, <3>3 DEF NoPair
    <3> QED BY <3>1, <3>2, <3>3
  <2> QED BY <1>1, <2>1, <2>2
<1> QED BY <1>4, <1>5

\* Giving a block back that is in use: afterwards it is not, or is part of a
\* larger free block, and no other block that is in use changes.
LEMMA ReleaseShape ==
    ASSUME NEW h, Shape(h), NEW b \in Listed(h), NoPair(h, {}),
           NEW g, g = Release(h, b)
    PROVE  Shape(g) /\ NoPair(g, {}) /\ Keeps(h, g, {b}) /\ ~Used(g, b)
<1> DEFINE s == Flagged(h, b, TRUE)
<1>1. Shape(s) /\ SameList(h, s) /\ s[b].free /\ \A c \in Listed(h) : c # b => s[c].free = h[c].free
  <2> DEFINE f == TRUE
  <2>1. f \in BOOLEAN /\ s = Flagged(h, b, f)
    OBVIOUS
  <2> HIDE DEF f, s
  <2>2. /\ Shape(s) /\ SameList(h, s) /\ s[b].free = f
        /\ \A c \in Listed(h) : c # b => s[c].free = h[c].free
    BY <2>1, SetFree
  <2> QED BY <2>2 DEF f
<1>2. g = coalesce(s, b)
  BY DEF Release, Flagged
<1> HIDE DEF s
<1>3. b \in Listed(s) /\ b \in Addrs
  BY <1>1 DEF SameList, Listed
<1>4. NoPair(s, {b})
  <2> SUFFICES ASSUME NEW c \in Listed(s), c # b, s[c].next # b, s[c].free, s[c].next # Null
               PROVE  ~s[s[c].next].free
    BY DEF NoPair
  <2>1. c \in Listed(h) /\ s[c].next = h[c].next /\ h[c].free
    BY <1>1 DEF SameList
  <2>2. h[c].next \in Listed(h)
    BY <2>1, BlockFacts
  <2> QED BY <1>1, <2>1, <2>2 DEF NoPair
<1>5. Keeps(h, s, {b})
  <2> SUFFICES ASSUME NEW c \in Addrs, c # b
               PROVE  /\ Used(s, c) <=> Used(h, c)
                      /\ Used(h, c) => s[c].size = h[c].size
    BY DEF Keeps
  <2>1. h[c].listed \in BOOLEAN /\ s[c].listed \in BOOLEAN
    BY <1>1, Fields DEF Shape
  <2>2. CASE c \in Listed(h)
    BY <1>1, <2>1, <2>2 DEF Used, SameList, Listed
  <2>3. CASE c \notin Listed(h)
    BY <1>1, <2>1, <2>3 DEF Used, SameList, Listed
  <2> QED BY <2>2, <2>3
<1>6. Shape(g) /\ NoPair(g, {}) /\ Keeps(s, g, {})
  BY <1>1, <1>2, <1>3, <1>4, CoalesceShape
<1>7. Keeps(h, g, {b})
  <2>1. Keeps(h, g, {b} \cup {})
    BY <1>5, <1>6, KeepsTwice
  <2> QED BY <2>1 DEF Keeps
<1>8. ~Used(g, b)
  <2>1. ~Used(s, b)
    BY <1>1, <1>3 DEF Used
  <2> QED BY <1>3, <1>6, <2>1 DEF Keeps
<1> QED BY <1>6, <1>7, <1>8

\* Where the list is the same, flags included, so is what it says.
LEMMA SameKeeps ==
    ASSUME NEW h, Shape(h), NEW g, Shape(g), SameList(h, g), \A c \in Listed(h) : g[c] = h[c],
           NoPair(h, {})
    PROVE  NoPair(g, {}) /\ Keeps(h, g, {})
<1>1. NoPair(g, {})
  <2> SUFFICES ASSUME NEW c \in Listed(h), h[c].free, h[c].next # Null
               PROVE  ~g[h[c].next].free
    BY DEF NoPair, SameList
  <2>1. h[c].next \in Listed(h)
    BY BlockFacts
  <2> QED BY <2>1 DEF NoPair
<1>2. Keeps(h, g, {})
  <2> SUFFICES ASSUME NEW c \in Addrs
               PROVE  /\ Used(g, c) <=> Used(h, c)
                      /\ Used(h, c) => g[c].size = h[c].size
    BY DEF Keeps
  <2>1. h[c].listed \in BOOLEAN /\ g[c].listed \in BOOLEAN
    BY Fields DEF Shape
  <2>2. CASE c \in Listed(h)
    BY <2>2 DEF Used
  <2>3. CASE c \notin Listed(h)
    BY <2>1, <2>3 DEF Used, SameList, Listed
  <2> QED BY <2>2, <2>3
<1> QED BY <1>1, <1>2

\* The block after a free one is in use.
LEMMA FreeAlone ==
    ASSUME NEW h, NEW b \in Listed(h), h[b].free, NoPair(h, {})
    PROVE  NoPair(h, {b}) /\ NextUsed(h, b)
BY DEF NoPair, NextUsed

-----------------------------------------------------------------------------
(* The actions.                                                             *)

\* What the actions have in common: only the blocks in X, and the promises about
\* their data, change.
LEMMA Step ==
    ASSUME IInv, Shape(hdr'), NoPair(hdr', {}), NEW X, Keeps(hdr, hdr', X),
           held' \in [Addrs -> Promises],
           \A p \in freed' : p \in Addrs /\ held'[p] = Nothing /\ Block(p) \in Addrs,
           \A q \in Addrs : Block(q) \notin X => held'[q] = held[q],
           \A q \in Addrs : Block(q) \in X /\ held'[q] # Nothing =>
              /\ Block(q) \in Addrs /\ Used(hdr', Block(q))
              /\ hdr'[Block(q)].size >= held'[q].size
              /\ q % held'[q].align = 0,
           \A b \in X : Used(hdr', b) => held'[b + HeaderSize] # Nothing
    PROVE  IInv'
<1>1. TypeOK'
  <2>1. hdr' \in [Addrs -> Headers]
    BY DEF Shape
  <2> QED BY <2>1 DEF TypeOK, Holds
<1>2. FreedInHeap'
  BY DEF FreedInHeap, Block
<1>3. Granted'
  <2>1. ASSUME NEW q \in Addrs, held'[q] # Nothing
        PROVE  /\ Block(q) \in Listed(hdr') /\ ~hdr'[Block(q)].free
               /\ hdr'[Block(q)].size >= held'[q].size /\ q % held'[q].align = 0
    <3>1. CASE Block(q) \in X
      BY <2>1, <3>1 DEF Used, Listed
    <3>2. CASE Block(q) \notin X
      <4>1. held'[q] = held[q] /\ Holds(q)
        BY <2>1, <3>2 DEF Holds
      <4>2. /\ Block(q) \in Listed(hdr) /\ ~hdr[Block(q)].free
            /\ hdr[Block(q)].size >= held[q].size /\ q % held[q].align = 0
        BY <4>1 DEF IInv, Granted
      <4>3. Block(q) \in Addrs /\ Used(hdr, Block(q))
        BY <4>2 DEF Used, Listed
      <4>4. Used(hdr', Block(q)) /\ hdr'[Block(q)].size = hdr[Block(q)].size
        BY <3>2, <4>3 DEF Keeps
      <4> QED BY <4>1, <4>2, <4>3, <4>4 DEF Used, Listed
    <3> QED BY <3>1, <3>2
  <2>2. ASSUME NEW b \in Listed(hdr'), ~hdr'[b].free
        PROVE  held'[b + HeaderSize] # Nothing
    <3>1. Used(hdr', b) /\ b \in Addrs
      BY <2>2 DEF Used, Listed
    <3>2. CASE b \in X
      BY <3>1, <3>2
    <3>3. CASE b \notin X
      <4>1. b \in Listed(hdr) /\ ~hdr[b].free
        BY <3>1, <3>3 DEF Keeps, Used, Listed
      <4>2. held[b + HeaderSize] # Nothing
        BY <4>1 DEF IInv, Granted, Holds
      <4>3. b + HeaderSize \in Addrs
        BY <4>1, BlockFacts DEF IInv
      <4>4. Block(b + HeaderSize) = b
        BY <3>1, OfAddrs, Constants DEF Block
      <4> QED BY <3>3, <4>2, <4>3, <4>4
    <3> QED BY <3>2, <3>3
  <2> QED BY <2>1, <2>2 DEF Granted, Holds, Block
<1> QED BY <1>1, <1>2, <1>3 DEF IInv

\* A block that comes into use, or stays in it, is handed out with a promise that
\* it can keep.
LEMMA Granting ==
    ASSUME IInv, NEW b \in Listed(hdr'), NEW size \in Nat \ {0}, NEW align \in Nat,
           (b + HeaderSize) % align = 0,
           Shape(hdr'), NoPair(hdr', {}), Keeps(hdr, hdr', {b}),
           ~hdr'[b].free, hdr'[b].size >= size,
           Grant(b + HeaderSize, size, align)
    PROVE  IInv'
<1> DEFINE p == b + HeaderSize
           pr == [size |-> size, align |-> align]
<1>1. /\ b \in Addrs /\ p \in Addrs /\ Block(p) = b
  <2>1. b \in Addrs /\ p \in Addrs
    BY BlockFacts
  <2>2. b \in Nat /\ HeaderSize \in Nat
    BY <2>1, OfAddrs, Constants
  <2> QED BY <2>1, <2>2 DEF Block
<1>2. held \in [Addrs -> Promises] /\ \A q \in freed : q \in Addrs /\ held[q] = Nothing
  BY DEF IInv, TypeOK, Holds
<1>3. pr \in Promises /\ pr # Nothing /\ pr.size = size /\ pr.align = align
  BY DEF Promises, Nothing
<1>4. held' = [held EXCEPT ![p] = pr] /\ freed' = freed \ {p}
  BY DEF Grant
<1> HIDE DEF pr
<1>5. held' \in [Addrs -> Promises] /\ held'[p] = pr
  BY <1>1, <1>2, <1>3, <1>4
<1>6. \A q \in Addrs : q # p => held'[q] = held[q]
  BY <1>2, <1>4
<1>7. \A q \in Addrs : Block(q) = b => q = p
  BY <1>1, OfAddrs, Constants DEF Block
<1>8. Used(hdr', b)
  BY DEF Used, Listed
<1>9. \A q \in freed' : q \in Addrs /\ held'[q] = Nothing /\ Block(q) \in Addrs
  BY <1>2, <1>4, <1>6 DEF IInv, FreedInHeap
<1>10. \A q \in Addrs : Block(q) \notin {b} => held'[q] = held[q]
  BY <1>1, <1>6
<1>11. \A q \in Addrs : Block(q) \in {b} /\ held'[q] # Nothing =>
              /\ Block(q) \in Addrs /\ Used(hdr', Block(q))
              /\ hdr'[Block(q)].size >= held'[q].size
              /\ q % held'[q].align = 0
  BY <1>1, <1>3, <1>5, <1>7, <1>8
<1>12. \A c \in {b} : Used(hdr', c) => held'[c + HeaderSize] # Nothing
  BY <1>3, <1>5
<1> QED BY <1>5, <1>9, <1>10, <1>11, <1>12, Step

\* What first fit finds.
LEMMA Found ==
    ASSUME NEW size, NEW b \in FirstFit(size)
    PROVE  b \in Listed(hdr) /\ hdr[b].free /\ hdr[b].size >= size
BY DEF FirstFit, FirstOf

\* kmalloc and what it hands out.
LEMMA MallocStep ==
    ASSUME IInv, NEW z \in Sizes, kmalloc(z)
    PROVE  IInv'
<1>1. z \in 1 .. Word - Align /\ z \in Nat \ {0}
  BY CallerAssumption, Constants
<1>2. /\ align16(z) \in Nat /\ align16(z) % Align = 0
      /\ align16(z) >= z /\ align16(z) >= Align
  BY <1>1, Aligned16
<1>3. PICK b \in FirstFit(align16(z)) :
        /\ hdr' = Allocate(hdr, b, align16(z))
        /\ Grant(b + HeaderSize, z, Align)
  BY DEF kmalloc
<1>4. b \in Listed(hdr) /\ hdr[b].free /\ hdr[b].size >= align16(z)
  BY Found
<1>5. NoPair(hdr, {b}) /\ NextUsed(hdr, b)
  BY <1>4, FreeAlone DEF IInv
<1>6. /\ Shape(hdr') /\ b \in Listed(hdr') /\ NoPair(hdr', {}) /\ Keeps(hdr, hdr', {b})
      /\ Used(hdr', b) /\ hdr'[b].size >= align16(z)
  BY <1>2, <1>3, <1>4, <1>5, AllocateShape DEF IInv
<1>7. (b + HeaderSize) % Align = 0 /\ Align \in Nat
  BY <1>6, BlockFacts, DataAligned, Constants
<1>8. hdr'[b].size >= z /\ ~hdr'[b].free
  <2>1. hdr'[b].size \in Nat
    BY <1>6, BlockFacts
  <2> QED BY <1>1, <1>2, <1>6, <2>1 DEF Used
<1> QED BY <1>1, <1>3, <1>6, <1>7, <1>8, Granting

\* kcalloc: the test on the product means that the block has room for all of it.
LEMMA CallocStep ==
    ASSUME IInv, NEW n \in Counts, NEW z \in Sizes, kcalloc(n, z)
    PROVE  IInv'
<1> DEFINE x     == n * z
           total == x % Word
           a     == align16(total)
<1>1. n \in Nat /\ z \in Nat \ {0} /\ x \in Nat /\ total <= Word - Align
  BY CallerAssumption, Constants
<1>2. /\ total # 0 /\ total \div n = z
      /\ \E b \in FirstFit(a) :
          /\ hdr' = Overwrite(Allocate(hdr, b, a), b + HeaderSize, total)
          /\ Grant(b + HeaderSize, x, Align)
  BY DEF kcalloc
<1>3. x # 0 /\ n # 0
  <2>1. 0 % Word = 0
    BY Constants
  <2> QED BY <1>1, <1>2, <2>1
<1>4. total \in Nat
  <2> HIDE DEF x
  <2> QED BY <1>1, Constants
<1>5. x <= total
  <2> DEFINE t == total
  <2>1. t \in Nat /\ n \in Nat \ {0} /\ t \div n = z
    BY <1>1, <1>2, <1>3, <1>4
  <2> HIDE DEF t
  <2>2. t = n * z + (t % n) /\ t % n \in 0 .. n - 1
    BY <2>1, DivMod
  <2>3. n * z <= t
    <3> DEFINE y == n * z
    <3>1. y \in Nat
      BY <1>1
    <3>2. t = y + (t % n)
      BY <2>2
    <3>3. t % n \in Nat
      BY <2>1, <2>2
    <3> HIDE DEF y
    <3>4. y <= t
      BY <3>1, <3>2, <3>3
    <3> QED BY <3>4 DEF y
  <2> QED BY <2>3 DEF t
<1>6. total \in 1 .. Word - Align
  <2> HIDE DEF x
  <2> QED BY <1>1, <1>2, <1>4, Constants
<1> HIDE DEF x, total
<1>7. a \in Nat /\ a % Align = 0 /\ a >= total /\ a >= Align
  BY <1>6, Aligned16
<1> HIDE DEF a
<1>8. PICK b \in FirstFit(a) :
        /\ hdr' = Overwrite(Allocate(hdr, b, a), b + HeaderSize, total)
        /\ Grant(b + HeaderSize, x, Align)
  BY <1>2
<1>9. b \in Listed(hdr) /\ hdr[b].free /\ hdr[b].size >= a
  BY Found
<1>10. NoPair(hdr, {b}) /\ NextUsed(hdr, b)
  BY <1>9, FreeAlone DEF IInv
<1> DEFINE h == Allocate(hdr, b, a)
<1>11. /\ Shape(h) /\ b \in Listed(h) /\ NoPair(h, {}) /\ Keeps(hdr, h, {b})
       /\ Used(h, b) /\ h[b].size >= a
  BY <1>7, <1>9, <1>10, AllocateShape DEF IInv
<1> HIDE DEF h
<1>12. h[b].size \in Nat
  BY <1>11, BlockFacts
<1>13. total <= h[b].size
  BY <1>4, <1>7, <1>11, <1>12
<1>14. Shape(hdr') /\ SameList(h, hdr') /\ \A c \in Listed(h) : hdr'[c] = h[c]
  BY <1>4, <1>8, <1>11, <1>13, OverwriteShape DEF h
<1>15. NoPair(hdr', {}) /\ Keeps(h, hdr', {})
  BY <1>11, <1>14, SameKeeps
<1>16. Keeps(hdr, hdr', {b})
  <2>1. Keeps(hdr, hdr', {b} \cup {})
    BY <1>11, <1>15, KeepsTwice
  <2> QED BY <2>1 DEF Keeps
<1>17. b \in Listed(hdr') /\ ~hdr'[b].free /\ hdr'[b].size >= x
  BY <1>1, <1>4, <1>5, <1>11, <1>12, <1>13, <1>14 DEF SameList, Used
<1>18. (b + HeaderSize) % Align = 0 /\ Align \in Nat
  BY <1>11, BlockFacts, DataAligned, Constants
<1> QED BY <1>1, <1>3, <1>8, <1>14, <1>15, <1>16, <1>17, <1>18, Granting

\* The padding of a free block makes its data aligned, and is as aligned as
\* everything else.
LEMMA PaddingRoundsUp ==
    ASSUME NEW b \in Addrs, NEW align \in Nat \ {0}, align % Align = 0
    PROVE  /\ Padding(b, align) \in Nat /\ Padding(b, align) % Align = 0
           /\ (b + Padding(b, align) + HeaderSize) % align = 0
<1> DEFINE start == b + HeaderSize
           up    == start + align - 1
           r     == up - (up % align)
<1>1. start \in Nat /\ start % Align = 0 /\ b \in Nat /\ HeaderSize \in Nat /\ Align \in Nat \ {0}
  BY OfAddrs, DataAligned, Constants
<1>2. Padding(b, align) = r - start
  BY DEF Padding
<1> HIDE DEF start
<1>3. r \in Nat /\ r % align = 0 /\ start <= r
  BY <1>1, RoundUp
<1> HIDE DEF r
<1>4. r % Align = 0
  BY <1>1, <1>3, MultipleOfMultiple
<1>5. (r - start) % Align = 0
  BY <1>1, <1>3, <1>4, MultipleDifference
<1>6. b + (r - start) + HeaderSize = r
  BY <1>1, <1>3 DEF start
<1>7. r - start \in Nat
  BY <1>1, <1>3
<1> QED BY <1>2, <1>3, <1>5, <1>6, <1>7

\* Cutting a free block in front leaves two free neighbours, of which the second
\* is handed out next.
LEMMA CarveInFront ==
    ASSUME NEW h, Shape(h), NEW b, NEW size, MayCarve(h, b, size), h[b].free, NoPair(h, {}),
           NEW n, n = Rest(b, size), NEW g, g = Carve(h, b, size)
    PROVE  /\ Shape(g) /\ n \in Listed(g) /\ NoPair(g, {n}) /\ NextUsed(g, n)
           /\ g[n].size = h[b].size - size - HeaderSize
           /\ Keeps(h, g, {n})
<1>0. b \in Listed(h)
  BY DEF MayCarve
<1>1. /\ Shape(g)
      /\ n \in Addrs /\ n \notin Listed(h) /\ Listed(g) = Listed(h) \cup {n} /\ b # n
      /\ g[b].size = size /\ g[b].next = n /\ g[b].free = h[b].free
      /\ g[n].free /\ g[n].next = h[b].next
      /\ g[n].size = h[b].size - size - HeaderSize
      /\ \A c \in Listed(h) :
           /\ g[c].free = h[c].free
           /\ c # b => g[c].next = h[c].next /\ g[c].size = h[c].size
  <2>1. Shape(g) /\ Carved(h, b, size, n, g)
    BY CarveShape
  <2> QED BY <2>1 DEF Carved
<1>2. NextUsed(g, n)
  <2> SUFFICES ASSUME h[b].next # Null PROVE ~g[h[b].next].free
    BY <1>1 DEF NextUsed
  <2>1. h[b].next \in Listed(h)
    BY <1>0, BlockFacts
  <2> QED BY <1>0, <1>1, <2>1 DEF NoPair
<1>3. NoPair(g, {n})
  <2> SUFFICES ASSUME NEW c \in Listed(g), c # n, g[c].next # n, g[c].free, g[c].next # Null
               PROVE  ~g[g[c].next].free
    BY DEF NoPair
  <2>1. c \in Listed(h) /\ c # b /\ g[c].next = h[c].next /\ h[c].free
    BY <1>1
  <2>2. h[c].next \in Listed(h)
    BY <2>1, BlockFacts
  <2> QED BY <1>1, <2>1, <2>2 DEF NoPair
<1>4. Keeps(h, g, {n})
  <2> SUFFICES ASSUME NEW c \in Addrs, c # n
               PROVE  /\ Used(g, c) <=> Used(h, c)
                      /\ Used(h, c) => g[c].size = h[c].size
    BY DEF Keeps
  <2>1. h[c].listed \in BOOLEAN /\ g[c].listed \in BOOLEAN
    BY <1>1, Fields DEF Shape
  <2>2. CASE c \in Listed(h)
    BY <1>1, <2>1, <2>2 DEF Used, Listed
  <2>3. CASE c \notin Listed(h)
    BY <1>1, <2>1, <2>3 DEF Used, Listed
  <2> QED BY <2>2, <2>3
<1> QED BY <1>1, <1>2, <1>3, <1>4

\* kmalloc_aligned, with and without a block in front.
LEMMA AlignedStep ==
    ASSUME IInv, NEW z \in Sizes, NEW align \in Alignments, kmalloc_aligned(z, align)
    PROVE  IInv'
<1> DEFINE a == align16(z)
<1>1. /\ z \in 1 .. Word - Align /\ z \in Nat \ {0} /\ align \in Nat \ {0} /\ align % Align = 0
      /\ Align \in Nat \ {0} /\ HeaderSize \in Nat
  BY CallerAssumption, Constants
<1>2. a \in Nat /\ a % Align = 0 /\ a >= z /\ a >= Align
  BY <1>1, Aligned16
<1>3. PICK b \in FirstOf(AlignedFits(a, align)) :
        LET pad == Padding(b, align)
        IN  /\ hdr' = IF pad = 0 THEN Allocate(hdr, b, a)
                      ELSE Allocate(Carve(hdr, b, pad - HeaderSize), b + pad, a)
            /\ Grant(b + pad + HeaderSize, z, align)
  BY DEF kmalloc_aligned
<1> DEFINE pad == Padding(b, align)
<1>4. /\ b \in Listed(hdr) /\ hdr[b].free /\ hdr[b].size >= a + pad
      /\ pad = 0 \/ pad >= HeaderSize + Align
  BY DEF FirstOf, AlignedFits
<1>5. /\ b \in Addrs /\ b \in Nat /\ hdr[b].size \in Nat
      /\ Shape(hdr) /\ NoPair(hdr, {}) /\ NoPair(hdr, {b}) /\ NextUsed(hdr, b)
  BY <1>4, BlockFacts, FreeAlone DEF IInv
<1>6. pad \in Nat /\ pad % Align = 0 /\ (b + pad + HeaderSize) % align = 0
  BY <1>1, <1>5, PaddingRoundsUp
<1>7. /\ hdr' = IF pad = 0 THEN Allocate(hdr, b, a)
                ELSE Allocate(Carve(hdr, b, pad - HeaderSize), b + pad, a)
      /\ Grant(b + pad + HeaderSize, z, align)
  BY <1>3
<1> HIDE DEF a, pad
<1> DEFINE n == b + pad
<1>8. /\ Shape(hdr') /\ n \in Listed(hdr') /\ NoPair(hdr', {}) /\ Keeps(hdr, hdr', {n})
      /\ Used(hdr', n) /\ hdr'[n].size >= a
  <2>1. CASE pad = 0
    <3>1. n = b /\ hdr' = Allocate(hdr, b, a) /\ hdr[b].size >= a
      BY <2>1, <1>2, <1>4, <1>5, <1>7
    <3> HIDE DEF n
    <3> QED BY <3>1, <1>2, <1>4, <1>5, AllocateShape
  <2>2. CASE pad # 0
    <3> DEFINE size == pad - HeaderSize
               h == Carve(hdr, b, size)
    <3>1. size \in Nat /\ size >= Align /\ n = Rest(b, size)
      BY <2>2, <1>1, <1>4, <1>5, <1>6 DEF Rest
    <3>2. size % Align = 0
      <4>1. HeaderSize <= pad /\ HeaderSize % Align = 0
        BY <2>2, <1>1, <1>4, <1>6, Constants
      <4> QED BY <4>1, <1>1, <1>6, MultipleDifference
    <3>3. hdr[b].size >= size + HeaderSize + Align
      BY <1>1, <1>2, <1>4, <1>5, <1>6
    <3>10. MayCarve(hdr, b, size)
      BY <1>4, <3>1, <3>2, <3>3 DEF MayCarve
    <3>4. hdr[b].size - size - HeaderSize >= a
      BY <1>1, <1>2, <1>4, <1>5, <1>6
    <3>5. hdr' = Allocate(h, n, a)
      BY <2>2, <1>7
    <3> HIDE DEF size, n
    <3>6. h = Carve(hdr, b, size)
      OBVIOUS
    <3> HIDE DEF h
    <3>7. /\ Shape(h) /\ n \in Listed(h) /\ NoPair(h, {n}) /\ NextUsed(h, n)
          /\ h[n].size = hdr[b].size - size - HeaderSize
          /\ Keeps(hdr, h, {n})
      BY <1>4, <1>5, <3>1, <3>10, <3>6, CarveInFront
    <3>8. /\ Shape(hdr') /\ n \in Listed(hdr') /\ NoPair(hdr', {}) /\ Keeps(h, hdr', {n})
          /\ Used(hdr', n) /\ hdr'[n].size >= a
      BY <3>4, <3>5, <3>7, <1>2, AllocateShape
    <3>9. Keeps(hdr, hdr', {n})
      BY <3>7, <3>8 DEF Keeps
    <3> QED BY <3>8, <3>9
  <2> QED BY <2>1, <2>2
<1>9. hdr'[n].size >= z /\ ~hdr'[n].free
  <2>1. hdr'[n].size \in Nat
    BY <1>8, BlockFacts
  <2> QED BY <1>1, <1>2, <1>8, <2>1 DEF Used
<1>10. (n + HeaderSize) % align = 0 /\ Grant(n + HeaderSize, z, align)
  BY <1>6, <1>7
<1> HIDE DEF n
<1> QED BY <1>1, <1>8, <1>9, <1>10, Granting

-----------------------------------------------------------------------------
(* Giving back, growing and writing.                                        *)

\* What the invariant says of a pointer that is held.
LEMMA HeldBlock ==
    ASSUME IInv, NEW p \in Addrs, Holds(p)
    PROVE  /\ Block(p) \in Listed(hdr) /\ Used(hdr, Block(p)) /\ ~hdr[Block(p)].free
           /\ Block(p) + HeaderSize = p
           /\ held[p] \in Promises /\ held[p].size \in Nat /\ held[p].align \in Nat
           /\ hdr[Block(p)].size >= held[p].size /\ p % held[p].align = 0
<1>1. /\ Block(p) \in Listed(hdr) /\ ~hdr[Block(p)].free
      /\ hdr[Block(p)].size >= held[p].size /\ p % held[p].align = 0
  BY DEF IInv, Granted
<1>2. held[p] \in Promises
  BY DEF IInv, TypeOK
<1>3. Block(p) + HeaderSize = p
  BY OfAddrs, Constants DEF Block
<1> QED BY <1>1, <1>2, <1>3 DEF Used, Listed, Promises

\* A freed pointer leads to nothing that kfree would take for a block in use.
LEMMA FreedIsFound ==
    ASSUME IInv
    PROVE  DoubleFreeFound
<1> SUFFICES ASSUME NEW p \in freed, hdr[Block(p)].magic, ~hdr[Block(p)].free
             PROVE  FALSE
  BY DEF DoubleFreeFound
<1>1. p \in Addrs /\ ~Holds(p) /\ Block(p) \in Addrs
  BY DEF IInv, TypeOK, FreedInHeap
<1>2. Block(p) + HeaderSize = p
  BY <1>1, OfAddrs, Constants DEF Block
<1>3. Block(p) \notin Listed(hdr)
  BY <1>1, <1>2 DEF IInv, Granted
<1>4. ~hdr[Block(p)].listed
  BY <1>1, <1>3 DEF Listed
<1> QED BY <1>1, <1>4 DEF IInv, Shape, Stale

\* kfree only ever releases the block of a pointer that is held.
LEMMA FreeStep ==
    ASSUME IInv, NEW p \in Addrs, kfree(p)
    PROVE  IInv'
<1> DEFINE b == Block(p)
<1>1. /\ Holds(p) \/ p \in freed
      /\ hdr[b].magic /\ ~hdr[b].free
      /\ hdr' = Release(hdr, b)
      /\ held' = [held EXCEPT ![p] = Nothing] /\ freed' = freed \cup {p}
  BY DEF kfree, Block
<1>2. Holds(p)
  BY <1>1, FreedIsFound DEF DoubleFreeFound
<1>3. b \in Listed(hdr) /\ b \in Addrs /\ b + HeaderSize = p
  BY <1>2, HeldBlock DEF Listed
<1>4. Shape(hdr') /\ NoPair(hdr', {}) /\ Keeps(hdr, hdr', {b}) /\ ~Used(hdr', b)
  BY <1>1, <1>3, ReleaseShape DEF IInv
<1>5. held \in [Addrs -> Promises] /\ \A q \in freed : q \in Addrs /\ held[q] = Nothing
  BY DEF IInv, TypeOK, Holds
<1>6. Nothing \in Promises
  BY DEF Nothing, Promises
<1>7. /\ held' \in [Addrs -> Promises] /\ held'[p] = Nothing
      /\ \A q \in Addrs : q # p => held'[q] = held[q]
  BY <1>1, <1>5, <1>6
<1>8. \A q \in Addrs : Block(q) = b => q = p
  BY <1>3, OfAddrs, Constants DEF Block
<1>9. \A q \in freed' : q \in Addrs /\ held'[q] = Nothing /\ Block(q) \in Addrs
  BY <1>1, <1>3, <1>5, <1>7 DEF IInv, FreedInHeap
<1> DEFINE X == {b}
<1>10. \A q \in Addrs : Block(q) \notin X => held'[q] = held[q]
  BY <1>7
<1>11. \A q \in Addrs : Block(q) \in X /\ held'[q] # Nothing =>
              /\ Block(q) \in Addrs /\ Used(hdr', Block(q))
              /\ hdr'[Block(q)].size >= held'[q].size
              /\ q % held'[q].align = 0
  BY <1>7, <1>8
<1>12. \A c \in X : Used(hdr', c) => held'[c + HeaderSize] # Nothing
  BY <1>4
<1> QED BY <1>4, <1>7, <1>9, <1>10, <1>11, <1>12, Step

\* A block that is large enough already.
LEMMA KeepStep ==
    ASSUME IInv, NEW p \in Addrs, NEW z \in Sizes, ReallocKeeps(p, z)
    PROVE  IInv'
<1> DEFINE b == Block(p)
<1>1. Holds(p) /\ hdr[b].size >= z /\ Grant(p, z, held[p].align) /\ hdr' = hdr
  BY DEF ReallocKeeps, Block
<1>2. z \in Nat \ {0}
  BY CallerAssumption, Constants
<1>3. /\ b \in Listed(hdr') /\ ~hdr'[b].free /\ b + HeaderSize = p
      /\ held[p].align \in Nat /\ p % held[p].align = 0
  BY <1>1, HeldBlock
<1>4. Shape(hdr') /\ NoPair(hdr', {}) /\ Keeps(hdr, hdr', {b})
  BY <1>1 DEF IInv, Keeps
<1> HIDE DEF b
<1> QED BY <1>1, <1>2, <1>3, <1>4, Granting

\* Growing over the free block behind: what is left of the two is given back.
LEMMA GrowShape ==
    ASSUME NEW h, Shape(h), NEW b \in Listed(h), ~h[b].free, NoPair(h, {}),
           NEW n, n = h[b].next, n # Null, h[n].free,
           NEW m, m = Merge(h, b, n),
           NEW z \in Nat, h[b].size + HeaderSize + h[n].size >= z,
           NEW a \in Nat, a >= Align, a % Align = 0, a >= z,
           NEW g, g = split_block(m, b, a)
    PROVE  /\ Shape(g) /\ b \in Listed(g) /\ ~g[b].free /\ g[b].size >= z
           /\ NoPair(g, {}) /\ Keeps(h, g, {b})
<1>1. /\ Shape(m) /\ Listed(m) = Listed(h) \ {n} /\ b \in Listed(m)
      /\ m[b].size = h[b].size + HeaderSize + h[n].size
      /\ m[b].next = h[n].next
      /\ \A c \in Listed(m) :
           /\ m[c].free = h[c].free
           /\ c # b => m[c].next = h[c].next /\ m[c].size = h[c].size
  BY MergeShape
<1>2. n \in Listed(h) /\ n # b /\ h[n].next # b
  BY NextAfter
<1>3. NextUsed(m, b)
  <2> SUFFICES ASSUME h[n].next # Null PROVE ~m[h[n].next].free
    BY <1>1 DEF NextUsed
  <2>1. h[n].next \in Listed(h) /\ h[n].next # n
    BY <1>2, NextAfter
  <2>2. ~h[h[n].next].free
    BY <1>2 DEF NoPair
  <2> QED BY <1>1, <2>1, <2>2
<1>4. NoPair(m, {b})
  <2> SUFFICES ASSUME NEW c \in Listed(m), c # b, m[c].next # b, m[c].free, m[c].next # Null
               PROVE  ~m[m[c].next].free
    BY DEF NoPair
  <2>1. c \in Listed(h) /\ m[c].next = h[c].next /\ h[c].free
    BY <1>1
  <2>2. h[c].next \in Listed(h) /\ h[c].next # n
    BY <2>1, NextAfter, OneBefore
  <2> QED BY <1>1, <2>1, <2>2 DEF NoPair
<1>5. m[b].size \in Nat /\ m[b].size >= z
  BY <1>1, BlockFacts
<1>6. /\ Shape(g) /\ b \in Listed(g) /\ NoPair(g, {b}) /\ g[b].size >= z /\ g[b].free = m[b].free
      /\ \A c \in Addrs : c # b => (Used(g, c) <=> Used(m, c))
      /\ \A c \in Listed(m) : c # b => g[c].size = m[c].size
  <2>1. CASE m[b].size >= a
    <3>1. /\ Shape(g) /\ b \in Listed(g) /\ NoPair(g, {b}) /\ g[b].size >= a /\ g[b].free = m[b].free
          /\ \A c \in Addrs : c # b => (Used(g, c) <=> Used(m, c))
          /\ \A c \in Listed(m) : c # b => g[c].size = m[c].size
      <4>1. MaySplit(m, b, a)
        BY <2>1, <1>1, <1>3, <1>4 DEF MaySplit
      <4>2. Split(m, b, a, g)
        BY <4>1, <1>1, SplitShape
      <4> QED BY <4>2 DEF Split
    <3>2. g[b].size \in Nat
      BY <3>1, BlockFacts
    <3>3. g[b].size >= z
      BY <3>1, <3>2
    <3> QED BY <3>1, <3>3
  <2>2. CASE ~(m[b].size >= a)
    <3>1. HeaderSize \in Nat /\ Align \in Nat
      BY Constants
    <3>2. g = m
      BY <2>2, <3>1, <1>5 DEF split_block
    <3> QED BY <3>2, <1>1, <1>4, <1>5
  <2> QED BY <2>1, <2>2
<1>7. ~g[b].free
  BY <1>1, <1>6
<1>8. NoPair(g, {})
  BY <1>6, <1>7 DEF NoPair
<1>9. Keeps(h, g, {b})
  <2> SUFFICES ASSUME NEW c \in Addrs, c # b
               PROVE  /\ Used(g, c) <=> Used(h, c)
                      /\ Used(h, c) => g[c].size = h[c].size
    BY DEF Keeps
  <2>1. m[c].listed \in BOOLEAN /\ h[c].listed \in BOOLEAN
    BY <1>1, Fields DEF Shape
  <2>2. Used(m, c) <=> Used(h, c)
    <3>1. CASE c \in Listed(m)
      BY <1>1, <2>1, <3>1 DEF Used, Listed
    <3>2. CASE c = n
      BY <1>1, <1>2, <2>1, <3>2 DEF Used, Listed
    <3>3. CASE c \notin Listed(h)
      BY <1>1, <2>1, <3>3 DEF Used, Listed
    <3> QED BY <1>1, <3>1, <3>2, <3>3
  <2>3. Used(h, c) => g[c].size = h[c].size
    <3>1. Used(h, c) => c \in Listed(m)
      BY <2>2 DEF Used, Listed
    <3> QED BY <3>1, <1>1, <1>6
  <2> QED BY <1>6, <2>2, <2>3
<1> QED BY <1>6, <1>7, <1>8, <1>9

\* A block that grows in place.
LEMMA ExpandStep ==
    ASSUME IInv, NEW p \in Addrs, NEW z \in Sizes, ReallocExpands(p, z)
    PROVE  IInv'
<1> DEFINE b == Block(p)
           n == hdr[b].next
           m == Merge(hdr, b, n)
           a == align16(z)
<1>1. /\ Holds(p) /\ n # Null /\ hdr[n].free /\ hdr[b].size + HeaderSize + hdr[n].size >= z
      /\ hdr' = split_block(m, b, a)
      /\ Grant(p, z, held[p].align)
  BY DEF ReallocExpands, Expandable, Block
<1>2. z \in 1 .. Word - Align /\ z \in Nat \ {0} /\ z \in Nat
  BY CallerAssumption, Constants
<1>3. a \in Nat /\ a % Align = 0 /\ a >= z /\ a >= Align
  BY <1>2, Aligned16
<1>4. /\ b \in Listed(hdr) /\ ~hdr[b].free /\ b + HeaderSize = p /\ Shape(hdr) /\ NoPair(hdr, {})
      /\ held[p].align \in Nat /\ p % held[p].align = 0
  BY <1>1, HeldBlock DEF IInv
<1>5. m = Merge(hdr, b, n) /\ n = hdr[b].next
  OBVIOUS
<1> HIDE DEF b, a, n, m
<1>6. /\ Shape(hdr') /\ b \in Listed(hdr') /\ ~hdr'[b].free /\ hdr'[b].size >= z
      /\ NoPair(hdr', {}) /\ Keeps(hdr, hdr', {b})
  BY <1>1, <1>2, <1>3, <1>4, <1>5, GrowShape
<1> QED BY <1>1, <1>2, <1>4, <1>6, Granting

\* Moving: allocate, copy what the old block holds, give the old block back.
Move(h, b, d, a) ==
    Release(Copy(Allocate(h, b, a), b + HeaderSize, d + HeaderSize, h[d].size), d)

\* Block b is free and has room for a bytes, no fewer than the data of block d.
MayMove(h, b, d, a) ==
    /\ Shape(h) /\ NoPair(h, {})
    /\ b \in Listed(h) /\ h[b].free /\ d \in Listed(h) /\ ~h[d].free
    /\ a \in Nat /\ a >= Align /\ a % Align = 0 /\ h[b].size >= a /\ h[d].size <= a

\* Afterwards b is in use and d is not, and nothing else that is in use changed.
LEMMA MoveShape ==
    ASSUME NEW h, NEW b, NEW d, NEW a, MayMove(h, b, d, a), NEW g, g = Move(h, b, d, a)
    PROVE  /\ Shape(g) /\ NoPair(g, {}) /\ Keeps(h, g, {b, d})
           /\ Used(g, b) /\ g[b].size >= a /\ ~Used(g, d)
<1> SUFFICES ASSUME Shape(h), NoPair(h, {}), b \in Listed(h), h[b].free,
                    d \in Listed(h), ~h[d].free,
                    a \in Nat, a >= Align, a % Align = 0, h[b].size >= a,
                    NEW n, n = h[d].size, n <= a,
                    NEW A, A = Allocate(h, b, a),
                    NEW C, C = Copy(A, b + HeaderSize, d + HeaderSize, n),
                    g = Release(C, d)
             PROVE  /\ Shape(g) /\ NoPair(g, {}) /\ Keeps(h, g, {b, d})
                    /\ Used(g, b) /\ g[b].size >= a /\ ~Used(g, d)
  BY DEF MayMove, Move
<1>1. NoPair(h, {b}) /\ NextUsed(h, b)
  BY FreeAlone
<1>2. /\ Shape(A) /\ b \in Listed(A) /\ NoPair(A, {}) /\ Keeps(h, A, {b})
      /\ Used(A, b) /\ A[b].size >= a
  BY <1>1, AllocateShape
<1>3. d # b /\ b \in Addrs /\ d \in Addrs /\ n \in Nat
  BY BlockFacts
<1>4. d \in Listed(A) /\ A[d].size = n
  BY <1>2, <1>3 DEF Keeps, Used, Listed
<1>5. n <= A[b].size /\ n <= A[d].size
  <2>1. A[b].size \in Nat
    BY <1>2, BlockFacts
  <2> QED BY <2>1, <1>2, <1>3, <1>4
<1>6. Shape(C) /\ SameList(A, C) /\ \A c \in Listed(A) : C[c] = A[c]
  BY <1>2, <1>3, <1>4, <1>5, CopyShape
<1>7. NoPair(C, {}) /\ Keeps(A, C, {})
  BY <1>2, <1>6, SameKeeps
<1>8. d \in Listed(C)
  BY <1>4, <1>6 DEF SameList
<1>9. Shape(g) /\ NoPair(g, {}) /\ Keeps(C, g, {d}) /\ ~Used(g, d)
  BY <1>6, <1>7, <1>8, ReleaseShape
<1>10. Keeps(h, g, {b, d})
  <2>1. Keeps(h, C, {b})
    BY <1>2, <1>7 DEF Keeps
  <2> QED BY <2>1, <1>9 DEF Keeps
<1>11. Used(g, b) /\ g[b].size >= a
  <2>1. Used(C, b) /\ C[b].size >= a
    BY <1>2, <1>6 DEF Used
  <2> QED BY <2>1, <1>3, <1>9 DEF Keeps
<1> QED BY <1>9, <1>10, <1>11

\* krealloc when the data have to move: the new pointer has the promise, the old
\* one has none any more.
LEMMA MoveStep ==
    ASSUME IInv, NEW p \in Addrs, NEW z \in Sizes, ReallocMoves(p, z)
    PROVE  IInv'
<1> DEFINE d == Block(p)
           n == hdr[d].size
           a == align16(z)
<1>1. Holds(p) /\ n < z
  BY DEF ReallocMoves, Block
<1>2. PICK b \in FirstFit(a) :
        /\ hdr' = Release(Copy(Allocate(hdr, b, a), b + HeaderSize, p, n), d)
        /\ held' = [held EXCEPT ![p] = Nothing,
                                ![b + HeaderSize] = [size |-> z, align |-> Align]]
        /\ freed' = (freed \cup {p}) \ {b + HeaderSize}
  BY DEF ReallocMoves, Block
<1> DEFINE q  == b + HeaderSize
           pr == [size |-> z, align |-> Align]
<1>3. /\ z \in 1 .. Word - Align /\ z \in Nat \ {0} /\ Align \in Nat \ {0} /\ HeaderSize \in Nat
  BY CallerAssumption, Constants
<1>4. a \in Nat /\ a % Align = 0 /\ a >= z /\ a >= Align
  BY <1>3, Aligned16
<1>5. b \in Listed(hdr) /\ hdr[b].free /\ hdr[b].size >= a
  BY Found
<1>6. d \in Listed(hdr) /\ ~hdr[d].free /\ d + HeaderSize = p
  BY <1>1, HeldBlock
<1>7. Shape(hdr) /\ NoPair(hdr, {}) /\ hdr[d].size \in Nat
  BY <1>6, BlockFacts DEF IInv
<1>8. n <= a
  BY <1>1, <1>3, <1>4, <1>7
<1>9. MayMove(hdr, b, d, a)
  BY <1>4, <1>5, <1>6, <1>7, <1>8 DEF MayMove
<1>10. hdr' = Move(hdr, b, d, a)
  BY <1>2, <1>6 DEF Move
<1> HIDE DEF a, d, n
<1>11. /\ Shape(hdr') /\ NoPair(hdr', {}) /\ Keeps(hdr, hdr', {b, d})
       /\ Used(hdr', b) /\ hdr'[b].size >= a /\ ~Used(hdr', d)
  BY <1>9, <1>10, MoveShape
<1>12. /\ b \in Addrs /\ d \in Addrs /\ b # d /\ q \in Addrs /\ q # p /\ Block(q) = b /\ Block(p) = d
       /\ b \in Nat /\ d \in Nat
  <2>1. b \in Addrs /\ d \in Addrs /\ b # d /\ q \in Addrs
    BY <1>5, <1>6, <1>7, BlockFacts
  <2>2. b \in Nat /\ d \in Nat
    BY <2>1, OfAddrs
  <2> QED BY <2>1, <2>2, <1>3, <1>6 DEF Block
<1>13. \A r \in Addrs : (Block(r) = b => r = q) /\ (Block(r) = d => r = p)
  BY <1>3, <1>6, <1>12, OfAddrs DEF Block
<1>14. pr \in Promises /\ Nothing \in Promises /\ pr # Nothing /\ pr.size = z /\ pr.align = Align
  BY <1>3 DEF Promises, Nothing
<1>15. held \in [Addrs -> Promises] /\ \A r \in freed : r \in Addrs /\ held[r] = Nothing
  BY DEF IInv, TypeOK, Holds
<1>16. held' = [held EXCEPT ![p] = Nothing, ![q] = pr] /\ freed' = (freed \cup {p}) \ {q}
  BY <1>2
<1> HIDE DEF pr
<1>17. q % Align = 0
  BY <1>12, DataAligned
<1> HIDE DEF q
<1>18. /\ held' \in [Addrs -> Promises] /\ held'[p] = Nothing /\ held'[q] = pr
       /\ \A r \in Addrs : r # p /\ r # q => held'[r] = held[r]
  BY <1>12, <1>14, <1>15, <1>16
<1>19. hdr'[b].size >= z
  <2>1. hdr'[b].size \in Nat
    BY <1>11, <1>12, Fields DEF Shape
  <2> QED BY <2>1, <1>3, <1>4, <1>11
<1>20. \A r \in freed' : r \in Addrs /\ held'[r] = Nothing /\ Block(r) \in Addrs
  BY <1>12, <1>15, <1>16, <1>18 DEF IInv, FreedInHeap
<1> DEFINE X == {b, d}
<1>21. \A r \in Addrs : Block(r) \notin X => held'[r] = held[r]
  BY <1>12, <1>18
<1>22. \A r \in Addrs : Block(r) \in X /\ held'[r] # Nothing =>
              /\ Block(r) \in Addrs /\ Used(hdr', Block(r))
              /\ hdr'[Block(r)].size >= held'[r].size
              /\ r % held'[r].align = 0
  <2> SUFFICES ASSUME NEW r \in Addrs, Block(r) \in X, held'[r] # Nothing
               PROVE  /\ Block(r) \in Addrs /\ Used(hdr', Block(r))
                      /\ hdr'[Block(r)].size >= held'[r].size
                      /\ r % held'[r].align = 0
    OBVIOUS
  <2>1. r = q
    BY <1>13, <1>18
  <2> QED BY <2>1, <1>11, <1>12, <1>14, <1>17, <1>18, <1>19
<1>23. \A c \in X : Used(hdr', c) => held'[c + HeaderSize] # Nothing
  BY <1>11, <1>14, <1>18 DEF q
<1> QED BY <1>11, <1>18, <1>20, <1>21, <1>22, <1>23, Step

\* A holder that writes what it was promised reaches nothing but its own data.
LEMMA UseStep ==
    ASSUME IInv, NEW p \in Addrs, UseMemory(p)
    PROVE  IInv'
<1> DEFINE b == Block(p)
           n == held[p].size
<1>1. Holds(p) /\ hdr' = Overwrite(hdr, p, n) /\ held' = held /\ freed' = freed
  BY DEF UseMemory
<1>2. b \in Listed(hdr) /\ b + HeaderSize = p /\ n \in Nat /\ n <= hdr[b].size
  <2>1. b \in Listed(hdr) /\ b + HeaderSize = p /\ n \in Nat /\ hdr[b].size >= n
    BY <1>1, HeldBlock
  <2>2. hdr[b].size \in Nat
    BY <2>1, BlockFacts DEF IInv
  <2> QED BY <2>1, <2>2
<1>3. Shape(hdr) /\ NoPair(hdr, {})
  BY DEF IInv
<1> HIDE DEF b, n
<1>4. Shape(hdr') /\ SameList(hdr, hdr') /\ \A c \in Listed(hdr) : hdr'[c] = hdr[c]
  BY <1>1, <1>2, <1>3, OverwriteShape
<1>5. NoPair(hdr', {}) /\ Keeps(hdr, hdr', {})
  BY <1>3, <1>4, SameKeeps
<1>6. held' \in [Addrs -> Promises]
  BY <1>1 DEF IInv, TypeOK
<1>7. \A q \in freed' : q \in Addrs /\ held'[q] = Nothing /\ Block(q) \in Addrs
  BY <1>1 DEF IInv, TypeOK, Holds, FreedInHeap
<1> DEFINE X == {}
<1>8. \A q \in Addrs : Block(q) \notin X => held'[q] = held[q]
  BY <1>1
<1> QED BY <1>4, <1>5, <1>6, <1>7, <1>8, Step

-----------------------------------------------------------------------------
(* The theorems.                                                            *)

\* init_heap makes one free block of the heap.
LEMMA InitInv == Init => IInv
<1> SUFFICES ASSUME Init PROVE IInv
  OBVIOUS
<1> DEFINE first == [listed |-> TRUE, magic |-> TRUE, free |-> TRUE,
                     size |-> HeapSize - HeaderSize, next |-> Null, prev |-> Null]
           z     == HeapSize - HeaderSize
<1>1. /\ z \in Nat /\ z >= Align /\ z % Align = 0
      /\ HeapStart + HeaderSize + z = HeapEnd
  <2>1. z \in Nat \ {0} /\ HeapStart + HeaderSize + z = HeapEnd
    BY Constants
  <2>2. HeapSize % Align = 0 /\ HeaderSize <= HeapSize
    BY HeapAssumption, Constants
  <2>3. z % Align = 0
    BY <2>2, Constants, MultipleDifference
  <2> HIDE DEF z
  <2> QED BY <2>1, <2>3, Constants, LeastMultiple
<1>2. HeapStart \in Addrs
  BY Constants, InAddrs
<1>3. /\ hdr = [a \in Addrs |-> IF a # HeapStart THEN Bytes ELSE first]
      /\ held = [p \in Addrs |-> Nothing] /\ freed = {}
  BY DEF Init
<1>4. /\ first \in Headers /\ first.listed /\ first.magic /\ first.free /\ first.size = z
      /\ first.next = Null /\ first.prev = Null
  BY <1>1 DEF Headers
<1>5. Bytes \in Headers /\ ~Bytes.listed /\ ~Bytes.magic
  BY DEF Bytes, Headers
<1> HIDE DEF first, z
<1>6. hdr[HeapStart] = first /\ \A a \in Addrs : a # HeapStart => hdr[a] = Bytes
  BY <1>2, <1>3
<1>7. hdr \in [Addrs -> Headers]
  BY <1>3, <1>4, <1>5
<1>8. Listed(hdr) = {HeapStart}
  BY <1>2, <1>4, <1>5, <1>6 DEF Listed
<1>9. End(hdr, HeapStart) = HeapEnd
  BY <1>1, <1>4, <1>6 DEF End
<1>10. Blocks(hdr)
  BY <1>1, <1>4, <1>6, <1>8 DEF Blocks
<1>11. Linked(hdr)
  BY <1>4, <1>6, <1>8, <1>9 DEF Linked
<1>12. Apart(hdr)
  BY <1>8, Constants DEF Apart
<1>13. Back(hdr) /\ Stale(hdr)
  BY <1>4, <1>5, <1>6, <1>8 DEF Back, Stale
<1>14. NoPair(hdr, {})
  BY <1>4, <1>6, <1>8 DEF NoPair
<1>15. Nothing \in Promises
  BY DEF Nothing, Promises
<1>16. TypeOK /\ FreedInHeap
  BY <1>3, <1>7, <1>15 DEF TypeOK, FreedInHeap
<1>17. Granted
  BY <1>3, <1>4, <1>6, <1>8 DEF Granted, Holds
<1> QED BY <1>7, <1>10, <1>11, <1>12, <1>13, <1>14, <1>16, <1>17 DEF IInv, Shape

\* Every operation keeps the invariant.
LEMMA NextInv == IInv /\ [Next]_vars => IInv'
<1> SUFFICES ASSUME IInv, [Next]_vars PROVE IInv'
  OBVIOUS
<1>1. CASE UNCHANGED vars
  BY <1>1 DEF vars, IInv, TypeOK, Granted, FreedInHeap, Holds
<1>2. ASSUME NEW z \in Sizes, kmalloc(z) PROVE IInv'
  BY <1>2, MallocStep
<1>3. ASSUME NEW z \in Sizes, NEW n \in Counts, kcalloc(n, z) PROVE IInv'
  BY <1>3, CallocStep
<1>4. ASSUME NEW z \in Sizes, NEW a \in Alignments, kmalloc_aligned(z, a) PROVE IInv'
  BY <1>4, AlignedStep
<1>5. ASSUME NEW p \in Addrs, kfree(p) PROVE IInv'
  BY <1>5, FreeStep
<1>6. ASSUME NEW p \in Addrs, UseMemory(p) PROVE IInv'
  BY <1>6, UseStep
<1>7. ASSUME NEW p \in Addrs, NEW z \in Sizes, ReallocKeeps(p, z) PROVE IInv'
  BY <1>7, KeepStep
<1>8. ASSUME NEW p \in Addrs, NEW z \in Sizes, ReallocExpands(p, z) PROVE IInv'
  BY <1>8, ExpandStep
<1>9. ASSUME NEW p \in Addrs, NEW z \in Sizes, ReallocMoves(p, z) PROVE IInv'
  BY <1>9, MoveStep
<1> QED BY <1>1, <1>2, <1>3, <1>4, <1>5, <1>6, <1>7, <1>8, <1>9 DEF Next

\* The invariant holds in every state the heap can reach.
THEOREM Inductive == Spec => []IInv
BY InitInv, NextInv, PTL DEF Spec

\* Memory, promises and freed pointers are what they are declared to be.
THEOREM TypeCorrect == Spec => []TypeOK
<1>1. IInv => TypeOK
  BY DEF IInv
<1> QED BY <1>1, Inductive, PTL

\* What is walked from heap_head is always all of the heap and nothing else
\* (memory.c:24-67, 243-259).
THEOREM ListTilesHeap == Spec => []Tiled
<1>1. IInv => Tiled
  <2> SUFFICES ASSUME IInv PROVE Tiled
    OBVIOUS
  <2>1. \A b : After(b) = End(hdr, b)
    BY DEF After, End
  <2> QED BY <2>1 DEF Tiled, IInv, Shape, Linked, Apart
<1> QED BY <1>1, Inductive, PTL

\* What is handed out is a block of its own, as large and as aligned as it was
\* promised, until it is given back (memory.c:85-236).
THEOREM PromisesKept == Spec => []Granted
<1>1. IInv => Granted
  BY DEF IInv
<1> QED BY <1>1, Inductive, PTL

\* What one holder may write is neither another's nor a header of the list.
THEOREM HoldersApart == Spec => []HeldApart
<1>1. IInv => HeldApart
  <2> SUFFICES ASSUME IInv, NEW p \in Addrs, Holds(p)
               PROVE  /\ p + held[p].size <= HeapEnd
                      /\ \A q \in Addrs : Holds(q) /\ p < q => p + held[p].size <= Block(q)
                      /\ \A b \in Listed(hdr) : p <= b => p + held[p].size <= b
    BY DEF HeldApart
  <2> DEFINE d == Block(p)
  <2>1. /\ d \in Listed(hdr) /\ d + HeaderSize = p /\ held[p].size \in Nat
        /\ hdr[d].size >= held[p].size
    BY HeldBlock
  <2>2. /\ hdr[d].size \in Nat /\ d \in Nat /\ End(hdr, d) \in Nat /\ End(hdr, d) <= HeapEnd
        /\ HeapEnd \in Nat /\ HeaderSize \in Nat \ {0}
    BY <2>1, BlockFacts, Constants DEF IInv
  <2>3. p + held[p].size <= End(hdr, d)
    BY <2>1, <2>2 DEF End
  <2>4. ASSUME NEW b \in Listed(hdr), d < b
        PROVE  p + held[p].size <= b
    <3>1. End(hdr, d) <= b /\ b \in Nat
      BY <2>1, <2>4, BlocksApart, BlockFacts DEF IInv
    <3> QED BY <2>1, <2>2, <2>3, <3>1
  <2>5. ASSUME NEW q \in Addrs, Holds(q), p < q
        PROVE  p + held[p].size <= Block(q)
    <3>1. Block(q) \in Listed(hdr)
      BY <2>5, HeldBlock
    <3>2. d < Block(q)
      BY <2>2, <2>5, OfAddrs DEF Block
    <3> QED BY <3>1, <3>2, <2>4
  <2>6. ASSUME NEW b \in Listed(hdr), p <= b
        PROVE  p + held[p].size <= b
    <3>1. d < b
      <4>1. b \in Nat
        BY BlockFacts DEF IInv
      <4> QED BY <2>1, <2>2, <2>6, <4>1
    <3> QED BY <3>1, <2>4
  <2>7. p + held[p].size <= HeapEnd
    BY <2>1, <2>2, <2>3
  <2> QED BY <2>5, <2>6, <2>7
<1> QED BY <1>1, Inductive, PTL

\* Free memory is always found in one piece (memory.c:42-67).
THEOREM FreeIsJoined == Spec => []NoFreeNeighbours
<1>1. IInv => NoFreeNeighbours
  BY DEF IInv, NoPair, NoFreeNeighbours
<1> QED BY <1>1, Inductive, PTL

\* A second free of a pointer always fails the tests of kfree (memory.c:127-135).
THEOREM DoubleFreesFound == Spec => []DoubleFreeFound
BY FreedIsFound, Inductive, PTL

=============================================================================
