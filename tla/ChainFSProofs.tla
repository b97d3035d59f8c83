--------------------------- MODULE ChainFSProofs ---------------------------
(***************************************************************************)
(* Theorems about chainfs.c for every disk geometry, every set of paths    *)
(* and every sequence of calls and resets.                                 *)
(***************************************************************************)
EXTENDS ChainFSProperties, FiniteSetTheorems, WellFoundedInduction, TLAPS

\* What C's division gives for unsigned operands.
LEMMA DivBounds ==
    ASSUME NEW a \in Nat, NEW b \in Nat \ {0}
    PROVE  /\ a \div b \in Nat
           /\ (a \div b) * b <= a
           /\ a < (a \div b) * b + b
OBVIOUS

\* Rounding up covers a, and leaves nothing uncovered when there is something.
LEMMA CeilBounds ==
    ASSUME NEW a \in Nat, NEW b \in Nat \ {0}
    PROVE  /\ Ceil(a, b) \in Nat
           /\ a <= Ceil(a, b) * b
           /\ a > 0 => Ceil(a, b) > 0
<1>1. a + b - 1 \in Nat OBVIOUS
<1>2. /\ Ceil(a, b) \in Nat
      /\ Ceil(a, b) * b <= a + b - 1
      /\ a + b - 1 < Ceil(a, b) * b + b
  BY <1>1, DivBounds DEF Ceil
<1>3. a > 0 => Ceil(a, b) > 0
  BY <1>2
<1> QED BY <1>2, <1>3

\* A scan in ascending order returns the least index that fits.
LEMMA MinIsLeast ==
    ASSUME NEW S \in SUBSET Nat, S # {}
    PROVE  Min(S) \in S /\ \A y \in S : Min(S) <= y
<1> DEFINE Seg == {0 .. m : m \in S}
<1>1. Seg \subseteq FiniteSubsetsOf(Nat) /\ Seg # {}
  <2>1. \A m \in S : 0 .. m \subseteq Nat /\ IsFiniteSet(0 .. m)
    BY FS_Interval
  <2> QED BY <2>1 DEF FiniteSubsetsOf
<1>2. PICK s \in Seg : \A r \in Seg : ~(<<r, s>> \in StrictSubsetOrdering(Nat))
  BY <1>1, WFMin, FS_StrictSubsetOrderingWellFounded
<1>3. PICK x \in S : s = 0 .. x
  OBVIOUS
<1>4. \A y \in S : x <= y
  <2> SUFFICES ASSUME NEW y \in S, y < x PROVE FALSE
    OBVIOUS
  <2>1. 0 .. y \in Seg /\ 0 .. y \subseteq 0 .. x /\ 0 .. y # 0 .. x
    <3>1. x \in 0 .. x /\ x \notin 0 .. y
      OBVIOUS
    <3> QED BY <3>1
  <2>2. <<0 .. y, 0 .. x>> \in StrictSubsetOrdering(Nat)
    BY <2>1 DEF StrictSubsetOrdering
  <2> QED BY <1>2, <1>3, <2>1, <2>2
<1> QED BY <1>4 DEF Min

\* The product of two positive numbers is at least either of them.
LEMMA ProductBounds ==
    ASSUME NEW a \in Nat \ {0}, NEW b \in Nat \ {0}
    PROVE  a * b \in Nat /\ a <= a * b
OBVIOUS

-----------------------------------------------------------------------------
(* The layout of the disk.                                                  *)

\* The three regions chainfs_format lays out (45-54) are not empty, and the block
\* map has room for every data block although it shrinks the data area.
LEMMA Regions ==
    /\ file_table_block_count \in Nat \ {0}
    /\ block_map_block_count \in Nat \ {0}
    /\ data_area_start \in Nat
    /\ total_data_blocks \in Nat
    /\ total_data_blocks <= block_map_block_count * MapEntriesPerBlock
<1>1. /\ EntriesPerBlock \in Nat \ {0} /\ MapEntriesPerBlock \in Nat \ {0}
      /\ MaxFiles \in Nat \ {0} /\ TotalBlocks \in Nat
      /\ TotalBlocks > 1 + file_table_block_count /\ total_data_blocks > 0
  BY GeometryAssumption
<1>2. file_table_block_count \in Nat \ {0}
  BY <1>1, CeilBounds DEF file_table_block_count
<1> DEFINE rest == TotalBlocks - 1 - file_table_block_count
<1>3. rest \in Nat /\ rest > 0
  BY <1>1, <1>2
<1>4. /\ block_map_block_count \in Nat \ {0}
      /\ rest <= block_map_block_count * MapEntriesPerBlock
  BY <1>1, <1>3, CeilBounds DEF block_map_block_count
<1>5. data_area_start \in Nat /\ total_data_blocks = rest - block_map_block_count
  BY <1>1, <1>2, <1>4 DEF data_area_start, total_data_blocks
<1>6. block_map_block_count * MapEntriesPerBlock \in Nat
  BY <1>1, <1>4, ProductBounds
<1>7. total_data_blocks \in Nat /\ total_data_blocks <= rest
  BY <1>1, <1>3, <1>4, <1>5
<1> HIDE DEF rest
<1>8. total_data_blocks <= block_map_block_count * MapEntriesPerBlock
  BY <1>3, <1>4, <1>6, <1>7
<1> QED BY <1>2, <1>4, <1>5, <1>7, <1>8

\* The map has an entry for every data block, and every number a call stores
\* as the parent of an entry is in range.
LEMMA Ranges ==
    /\ Indices \subseteq Nat /\ Root \in Indices /\ Indices \subseteq ParentIds
    /\ MapIndices \subseteq Nat /\ 0 \in MapIndices
    /\ DataBlocks \subseteq MapIndices
    /\ NoParent \in ParentIds
    /\ \A s \in Slots : SectorOf(s) \in ParentIds
<1> DEFINE n == file_table_block_count * EntriesPerBlock
           m == block_map_block_count * MapEntriesPerBlock
<1>0. EntriesPerBlock \in Nat \ {0} /\ MapEntriesPerBlock \in Nat \ {0}
  BY GeometryAssumption
<1>1. /\ n \in Nat /\ n > 0 /\ file_table_block_count <= n
      /\ m \in Nat /\ m > 0
  BY <1>0, Regions, ProductBounds
<1>2. \A s \in Indices : s \div EntriesPerBlock < file_table_block_count
                           /\ s \div EntriesPerBlock \in Nat
  <2> SUFFICES ASSUME NEW s \in Indices
               PROVE  s \div EntriesPerBlock < file_table_block_count
                        /\ s \div EntriesPerBlock \in Nat
    OBVIOUS
  <2>1. s \in Nat /\ s < n
    BY <1>1 DEF Indices
  <2> DEFINE q == s \div EntriesPerBlock
  <2>2. q \in Nat /\ q * EntriesPerBlock <= s
    BY <1>0, <2>1, DivBounds
  <2> HIDE DEF q
  <2>3. q * EntriesPerBlock < file_table_block_count * EntriesPerBlock
    BY <1>0, <1>1, <2>1, <2>2
  <2>4. q < file_table_block_count
    BY <1>0, <2>2, <2>3, Regions
  <2> QED BY <2>2, <2>4 DEF q
<1>3. \A s \in Slots : SectorOf(s) \in ParentIds
  BY <1>1, <1>2, Regions DEF Slots, SectorOf, ParentIds, NoParent
<1>4. Indices \subseteq Nat /\ Root \in Indices /\ Indices \subseteq ParentIds
        /\ NoParent \in ParentIds
  BY <1>1 DEF Indices, Root, ParentIds, NoParent
<1>5. MapIndices \subseteq Nat /\ 0 \in MapIndices /\ DataBlocks \subseteq MapIndices
  <2> HIDE DEF m
  <2>1. MapIndices = 0 .. m - 1 /\ DataBlocks = 0 .. total_data_blocks - 1
          /\ total_data_blocks \in Nat /\ total_data_blocks <= m
    BY Regions DEF m, MapIndices, DataBlocks
  <2> QED BY <1>1, <2>1
<1> QED BY <1>3, <1>4, <1>5

-----------------------------------------------------------------------------
(* Lookups stay inside the table.                                           *)

\* chainfs_find_in_directory returns an entry of the table or fails (488-505).
LEMMA FindType ==
    ASSUME TypeOK, NEW d, NEW n
    PROVE  chainfs_find_in_directory(d, n) \in Indices \cup {NotFound}
<1> DEFINE hits == {i \in ChildrenOf(d) : table[i].name = n}
<1>1. hits \subseteq Indices /\ hits \subseteq Nat
  BY Ranges DEF ChildrenOf, Scanned
<1>2. hits # {} => Min(hits) \in hits
  BY <1>1, MinIsLeast
<1> QED BY <1>1, <1>2 DEF chainfs_find_in_directory

\* chainfs_find_free_file_entry returns an entry that is free (131-144).
LEMMA FreeSlotType ==
    ASSUME TypeOK, FreeSlots # {}
    PROVE  Min(FreeSlots) \in Indices /\ ~Live(Min(FreeSlots))
<1>1. FreeSlots \subseteq Nat
  BY Ranges DEF FreeSlots, Scanned
<1>2. Min(FreeSlots) \in FreeSlots
  BY <1>1, MinIsLeast
<1> QED BY <1>2 DEF FreeSlots, Scanned

\* chainfs_resolve_path returns an entry of the table, sector 0 or fails (509-555).
LEMMA ResolveType ==
    ASSUME TypeOK, NEW p \in Paths
    PROVE  chainfs_resolve_path(p) \in Slots \cup {NotFound}
BY FindType DEF chainfs_resolve_path, Slots

\* Splitting a path at its last slash gives a path and a name (272-299, 560-590).
LEMMA PathType ==
    ASSUME NEW p \in Paths
    PROVE  ParentPath(p) \in Paths /\ LastName(p) \in Names \cup {NoName}
<1>1. p.comps \in Seq(Names) /\ p.abs \in BOOLEAN
  BY DEF Paths
<1>2. CASE p.comps = <<>>
  BY <1>1, <1>2 DEF Paths, ParentPath, LastName
<1>3. CASE p.comps # <<>>
  <2>1. Len(p.comps) \in Nat /\ Len(p.comps) >= 1
    BY <1>1, <1>3
  <2>2. SubSeq(p.comps, 1, Len(p.comps) - 1) \in Seq(Names)
    BY <1>1, <2>1
  <2>3. p.comps[Len(p.comps)] \in Names
    BY <1>1, <2>1
  <2> QED BY <1>1, <1>3, <2>2, <2>3 DEF Paths, ParentPath, LastName
<1> QED BY <1>2, <1>3

\* The parent that a creation stores is in range, index or sector (312, 600).
LEMMA ParentType ==
    ASSUME TypeOK, NEW p \in Paths
    PROVE  /\ MkdirParent(p) \in ParentIds \cup {NotFound}
           /\ WriteParent(p) \in ParentIds \cup {NotFound}
<1>1. chainfs_resolve_path(ParentPath(p)) \in Slots \cup {NotFound}
  BY PathType, ResolveType
<1>2. ParentSector(p) \in ParentIds \cup {NotFound}
  BY <1>1, Ranges DEF ParentSector
<1>3. cwd \in ParentIds /\ Root \in ParentIds
  BY Ranges DEF TypeOK
<1> QED BY <1>2, <1>3 DEF MkdirParent, WriteParent

\* Every file has a block, the empty one too (332-335).
LEMMA BlocksNeededPositive ==
    ASSUME NEW size \in Nat
    PROVE  BlocksNeeded(size) \in Nat \ {0}
BY CeilBounds, GeometryAssumption DEF BlocksNeeded

-----------------------------------------------------------------------------
(* IInv holds initially and every action preserves it.                      *)

\* What the entries that chainfs_format writes hold (78-84).
LEMMA RootEntryFields ==
    /\ RootEntry \in Entries /\ FreeEntry \in Entries /\ SuperEntry \in Entries
    /\ RootEntry.kind = "dir" /\ RootEntry.name = "/" /\ RootEntry.parent = -1
    /\ FreeEntry.kind = "free" /\ SuperEntry.kind = "superblock"
BY Ranges DEF RootEntry, FreeEntry, SuperEntry, Entries, NoParent

\* While the root entry is in place no lookup finds it and it is not free.
LEMMA RootOutOfReach ==
    ASSUME TypeOK, table[Root] = RootEntry
    PROVE  /\ \A p \in Paths : chainfs_resolve_path(p) # Root
           /\ FreeSlots # {} => Min(FreeSlots) # Root
<1>1. \A n : \A d \in Nat : chainfs_find_in_directory(d, n) # Root
  <2> SUFFICES ASSUME NEW n, NEW d \in Nat
               PROVE  chainfs_find_in_directory(d, n) # Root
    OBVIOUS
  <2> DEFINE hits == {i \in ChildrenOf(d) : table[i].name = n}
  <2>1. hits \subseteq Nat
    BY Ranges DEF ChildrenOf, Scanned
  <2>2. Root \notin hits
    <3>1. table[Root].parent # d
      BY RootEntryFields
    <3> QED BY <3>1 DEF ChildrenOf
  <2>3. hits # {} => Min(hits) \in hits
    BY <2>1, MinIsLeast
  <2> QED BY <2>2, <2>3 DEF chainfs_find_in_directory, Root, NotFound
<1>2. ASSUME NEW p \in Paths PROVE chainfs_resolve_path(p) # Root
  <2>1. CASE p.comps = <<>>
    BY <2>1 DEF chainfs_resolve_path, Root, RootSlot, NotFound
  <2>2. CASE p.comps # <<>> /\ Trails(p) = {}
    BY <2>2 DEF chainfs_resolve_path, Root, NotFound
  <2>3. CASE p.comps # <<>> /\ Trails(p) # {}
    <3> DEFINE t == CHOOSE t \in Trails(p) : TRUE
    <3>1. t \in [0 .. Len(p.comps) - 1 -> Indices]
      BY <2>3 DEF Trails
    <3>2. Len(p.comps) - 1 \in 0 .. Len(p.comps) - 1
      BY <2>3 DEF Paths
    <3>3. t[Len(p.comps) - 1] \in Nat
      BY <3>1, <3>2, Ranges
    <3> QED BY <1>1, <2>3, <3>3 DEF chainfs_resolve_path
  <2> QED BY <2>1, <2>2, <2>3
<1>3. FreeSlots # {} => Min(FreeSlots) # Root
  BY FreeSlotType, RootEntryFields DEF Live
<1> QED BY <1>2, <1>3

\* The empty locals between two calls are well typed.
LEMMA NoJobType == NoJob \in Jobs
BY Ranges DEF NoJob, Jobs, Slots, Eof

\* The zero-filled disk satisfies the inductive invariant.
LEMMA InitIInv == Init => IInv
<1> SUFFICES ASSUME Init PROVE IInv
  OBVIOUS
<1>1. TypeOK
  <2>1. [FreeEntry EXCEPT !.kind = "wrecked"] \in Entries
    BY Ranges DEF FreeEntry, Entries
  <2>2. table \in [Slots -> Entries]
    BY <2>1, RootEntryFields DEF Init
  <2>3. table[RootSlot].kind = "wrecked"
    BY DEF Init, Slots, FreeEntry
  <2>4. \A i \in Indices : table[i].kind = "free"
    BY Ranges, RootEntryFields DEF Init, Slots, RootSlot
  <2>5. blockMap \in [MapIndices -> MapIndices \cup {Eof}]
    BY Ranges DEF Init, Free
  <2>6. data \in [DataBlocks -> Chunks]
    BY DEF Init, Chunks
  <2>7. job \in Jobs /\ job.op = "none" /\ cwd \in Indices /\ mounted \in BOOLEAN /\ pc = "idle"
    BY NoJobType, Ranges DEF Init, NoJob
  <2> QED BY <2>2, <2>3, <2>4, <2>5, <2>6, <2>7 DEF TypeOK
<1>2. AscendingLinks /\ UnwrittenFree /\ RootNotInFlight
  BY DEF Init, AscendingLinks, UnwrittenFree, Unwritten, RootNotInFlight, InFlight, NoJob
<1> QED BY <1>1, <1>2 DEF IInv

\* chainfs_init preserves it (7-39).
LEMMA InitStep == ASSUME IInv, chainfs_init PROVE IInv'
<1> USE DEF IInv, chainfs_init, disk
<1>1. TypeOK'
  BY Ranges DEF TypeOK
<1>2. AscendingLinks' /\ UnwrittenFree' /\ RootNotInFlight'
  BY DEF AscendingLinks, UnwrittenFree, Unwritten, RootNotInFlight, InFlight
<1> QED BY <1>1, <1>2

\* So does a reset at any point.
LEMMA CrashStep == ASSUME IInv, Crash PROVE IInv'
<1> USE DEF IInv, Crash, Return, disk
<1>1. TypeOK'
  BY Ranges, NoJobType DEF TypeOK, NoJob
<1>2. AscendingLinks' /\ UnwrittenFree' /\ RootNotInFlight'
  BY DEF AscendingLinks, UnwrittenFree, Unwritten, RootNotInFlight, InFlight, NoJob
<1> QED BY <1>1, <1>2

\* Writing the superblock preserves it (56-68).
LEMMA FormatStep == ASSUME IInv, chainfs_format PROVE IInv'
<1> USE DEF IInv, chainfs_format
<1>1. TypeOK'
  <2>1. table' \in [Slots -> Entries] /\ \A s \in Slots :
          table'[s] = IF s = RootSlot THEN SuperEntry ELSE table[s]
    BY RootEntryFields DEF TypeOK, Slots
  <2>2. job' \in Jobs /\ job'.op = "format"
    BY NoJobType DEF Jobs, NoJob
  <2>3. \A i \in Indices : i # RootSlot
    BY Ranges DEF RootSlot
  <2> QED BY RootEntryFields, <2>1, <2>2, <2>3 DEF TypeOK, Slots
<1>2. AscendingLinks' /\ UnwrittenFree'
  BY DEF AscendingLinks, UnwrittenFree, Unwritten
<1>3. RootNotInFlight'
  BY NoJobType DEF RootNotInFlight, InFlight, NoJob
<1> QED BY <1>1, <1>2, <1>3

\* Clearing a sector of the file table or of the block map preserves it (71-110).
LEMMA FormatSectorStep == ASSUME IInv, FormatSector PROVE IInv'
<1> USE DEF IInv
<1> DEFINE last == ~(job.k + 1 < data_area_start)
<1>1. table' \in [Slots -> Entries] /\ \A s \in Slots :
        table'[s] \in {table[s], FreeEntry, RootEntry}
          /\ (s = RootSlot => table'[s] = table[s])
  BY RootEntryFields DEF FormatSector, TypeOK
<1>2. blockMap' \in [MapIndices -> MapIndices \cup {Eof}]
        /\ \A b \in MapIndices : blockMap'[b] \in {Free, blockMap[b]}
  BY Ranges DEF FormatSector, TypeOK, Free
<1>3. job' \in Jobs /\ pc' \in {"idle", "format"} /\ mounted' \in BOOLEAN /\ cwd' \in Indices
        /\ (pc' = "idle") = (job'.op = "none") /\ (pc' = "format") = (job'.op = "format")
  <2>1. CASE job.k + 1 < data_area_start
    <3>1. job' = [job EXCEPT !.k = @ + 1] /\ pc' = pc /\ mounted' = mounted /\ cwd' = cwd
            /\ pc = "format"
      BY <2>1 DEF FormatSector
    <3>2. job \in Jobs /\ job.op = "format" /\ job.k + 1 \in Nat
      BY <3>1 DEF TypeOK, Jobs
    <3>3. job' \in Jobs /\ job'.op = job.op
      BY <3>1, <3>2 DEF Jobs
    <3> QED BY <3>1, <3>2, <3>3 DEF TypeOK
  <2>2. CASE ~(job.k + 1 < data_area_start)
    <3>1. job' = NoJob /\ pc' = "idle" /\ mounted' = TRUE /\ cwd' = Root
      BY <2>2 DEF FormatSector, Return
    <3> QED BY <3>1, NoJobType, Ranges DEF NoJob
  <2> QED BY <2>1, <2>2
<1>4. TypeOK'
  <2>1. \A i \in Indices : i \in Slots /\ i # RootSlot
    BY Ranges DEF Slots, RootSlot
  <2>2. table'[RootSlot].kind \in {"superblock", "file", "wrecked"}
    BY <1>1 DEF TypeOK, Slots
  <2>3. \A i \in Indices : table'[i].kind \in {"free", "file", "dir"}
    BY <1>1, <2>1, RootEntryFields DEF TypeOK
  <2>4. data' \in [DataBlocks -> Chunks]
    BY DEF FormatSector, TypeOK
  <2> QED BY <1>1, <1>2, <1>3, <2>2, <2>3, <2>4 DEF TypeOK
<1>5. AscendingLinks'
  BY <1>2 DEF AscendingLinks
<1>6. UnwrittenFree' /\ RootNotInFlight'
  BY <1>3 DEF UnwrittenFree, Unwritten, RootNotInFlight, InFlight
<1> QED BY <1>4, <1>5, <1>6

\* An entry written to slot s leaves the table well typed.
LEMMA EntryWritten ==
    ASSUME TypeOK, NEW s \in Slots, NEW e \in Entries,
           table' = [table EXCEPT ![s] = e],
           s = RootSlot => e.kind \in {"superblock", "file", "wrecked"},
           s # RootSlot => e.kind \in {"free", "file", "dir"}
    PROVE  /\ table' \in [Slots -> Entries]
           /\ table'[RootSlot].kind \in {"superblock", "file", "wrecked"}
           /\ \A i \in Indices : table'[i].kind \in {"free", "file", "dir"}
<1>1. \A i \in Indices : i \in Slots /\ i # RootSlot
  BY Ranges DEF Slots, RootSlot
<1> QED BY <1>1 DEF TypeOK, Slots

\* chainfs_mkdir preserves it (558-643).
LEMMA MkdirStep ==
    ASSUME IInv, NEW p \in Paths, chainfs_mkdir(p)
    PROVE  IInv'
<1> USE DEF IInv
<1>0. PICK parent \in {MkdirParent(p)} \ {NotFound} :
        table' = [table EXCEPT ![Min(FreeSlots)] =
              [kind |-> "dir", name |-> LastName(p), size |-> 0, start |-> 0,
               parent |-> parent]]
  BY DEF chainfs_mkdir
<1> DEFINE s == Min(FreeSlots)
           e == [kind |-> "dir", name |-> LastName(p), size |-> 0, start |-> 0,
                 parent |-> parent]
<1>1. s \in Slots /\ s # RootSlot
  BY FreeSlotType, Ranges DEF chainfs_mkdir, Slots, RootSlot
<1>2. e \in Entries /\ e.kind = "dir"
  BY ParentType, PathType, Ranges DEF Entries
<1> HIDE DEF s, e
<1>3. table' = [table EXCEPT ![s] = e]
  BY <1>0 DEF s, e
<1>4. TypeOK'
  BY <1>1, <1>2, <1>3, EntryWritten DEF chainfs_mkdir, TypeOK
<1>5. AscendingLinks' /\ UnwrittenFree'
  BY DEF AscendingLinks, UnwrittenFree, Unwritten, chainfs_mkdir
<1>6. RootNotInFlight'
  BY DEF TypeOK, RootNotInFlight, InFlight, chainfs_mkdir
<1> QED BY <1>4, <1>5, <1>6

\* chainfs_chdir preserves it (646-664).
LEMMA ChdirStep ==
    ASSUME IInv, NEW p \in Paths, chainfs_chdir(p)
    PROVE  IInv'
<1> USE DEF IInv
<1>1. cwd' \in Indices
  BY DEF chainfs_chdir, TypeOK, IsDir, Slots
<1>2. TypeOK'
  BY <1>1 DEF chainfs_chdir, TypeOK, disk
<1>3. AscendingLinks' /\ UnwrittenFree' /\ RootNotInFlight'
  BY DEF AscendingLinks, UnwrittenFree, Unwritten, RootNotInFlight, InFlight,
         chainfs_chdir, disk
<1> QED BY <1>2, <1>3

\* Clearing the status byte of an entry leaves an entry.
LEMMA FreedType ==
    ASSUME TypeOK, NEW s \in Slots
    PROVE  /\ Freed(s) \in Entries
           /\ s = RootSlot => Freed(s).kind = "wrecked"
           /\ s # RootSlot => Freed(s).kind = "free"
<1>1. table[s] \in Entries
  BY DEF TypeOK
<1>2. FreeEntry \in Entries /\ FreeEntry.kind = "free"
  BY RootEntryFields
<1>3. [table[s] EXCEPT !.kind = "wrecked"] \in Entries
        /\ [table[s] EXCEPT !.kind = "wrecked"].kind = "wrecked"
  BY <1>1 DEF Entries
<1>4. [FreeEntry EXCEPT !.parent = table[s].parent] \in Entries
        /\ [FreeEntry EXCEPT !.parent = table[s].parent].kind = "free"
  BY <1>1, <1>2 DEF Entries
<1> QED BY <1>3, <1>4 DEF Freed

\* chainfs_rmdir preserves it (755-791).
LEMMA RmdirStep ==
    ASSUME IInv, NEW p \in Paths, chainfs_rmdir(p)
    PROVE  IInv'
<1> USE DEF IInv
<1>1. PICK s \in Slots : table' = [table EXCEPT ![s] = Freed(s)]
  BY DEF chainfs_rmdir
<1>2. TypeOK'
  BY <1>1, FreedType, EntryWritten DEF chainfs_rmdir, TypeOK
<1>3. AscendingLinks' /\ UnwrittenFree'
  BY DEF AscendingLinks, UnwrittenFree, Unwritten, chainfs_rmdir
<1>4. RootNotInFlight'
  BY DEF TypeOK, RootNotInFlight, InFlight, chainfs_rmdir
<1> QED BY <1>2, <1>3, <1>4

\* What is left of a written type invariant when no call is in progress.
LEMMA ReturnType ==
    ASSUME Return
    PROVE  /\ pc' = "idle" /\ job' \in Jobs /\ job'.op = "none"
           /\ UnwrittenFree' /\ RootNotInFlight'
BY NoJobType DEF Return, NoJob, UnwrittenFree, Unwritten, RootNotInFlight, InFlight

\* write_file replaces an entry that is not the root's (269-270, 321).
LEMMA TargetType ==
    ASSUME TypeOK, NEW p \in Paths, NEW t \in Target(p)
    PROVE  /\ t.slot \in Slots /\ t.chain \in MapIndices \cup {Eof}
           /\ table[Root] = RootEntry => t.slot # Root
<1> DEFINE found == chainfs_resolve_path(p)
<1>1. found \in Slots \cup {NotFound}
  BY ResolveType
<1>2. CASE found # NotFound
  <2>1. t = [slot |-> found, chain |-> table[found].start] /\ found \in Slots
    BY <1>1, <1>2 DEF Target
  <2>2. table[found].start \in MapIndices
    BY <2>1 DEF TypeOK, Entries
  <2> QED BY <2>1, <2>2, RootOutOfReach
<1>3. CASE found = NotFound
  <2>1. FreeSlots # {} /\ t = [slot |-> Min(FreeSlots), chain |-> Eof]
    BY <1>3 DEF Target
  <2>2. Min(FreeSlots) \in Slots
    BY <2>1, FreeSlotType DEF Slots
  <2> QED BY <2>1, <2>2, RootOutOfReach
<1> QED BY <1>2, <1>3

\* The lookups of chainfs_write_file preserve the invariant (266-330).
LEMMA WriteFileStep ==
    ASSUME IInv, NEW p \in Paths, NEW z \in Nat, NEW g \in Tags,
           chainfs_write_file(p, z, g)
    PROVE  IInv'
<1> USE DEF IInv
<1>1. PICK parent \in {WriteParent(p)} \ {NotFound}, t \in Target(p) :
        job' = [NoJob EXCEPT !.op = "write", !.slot = t.slot, !.cur = t.chain,
                 !.parent = parent, !.name = LastName(p), !.size = z, !.tag = g]
  BY DEF chainfs_write_file
<1>2. /\ parent \in ParentIds /\ LastName(p) \in Names \cup {NoName}
      /\ t.slot \in Slots /\ t.chain \in MapIndices \cup {Eof}
      /\ table[Root] = RootEntry => t.slot # Root
  BY ParentType, PathType, TargetType
<1>3. job' \in Jobs /\ job'.op = "write" /\ job'.slot = t.slot
  BY <1>1, <1>2, NoJobType DEF Jobs
<1>4. pc' = "free" /\ UNCHANGED <<disk, mounted, cwd>>
  BY DEF chainfs_write_file
<1>5. TypeOK'
  BY <1>3, <1>4 DEF TypeOK, disk
<1>6. AscendingLinks' /\ UnwrittenFree'
  BY <1>4 DEF AscendingLinks, UnwrittenFree, Unwritten, disk
<1>7. RootNotInFlight'
  BY <1>2, <1>3, <1>4 DEF RootNotInFlight, InFlight, disk
<1> QED BY <1>5, <1>6, <1>7

\* The lookup of chainfs_delete_file preserves it (408-415).
LEMMA DeleteFileStep ==
    ASSUME IInv, NEW p \in Paths, chainfs_delete_file(p)
    PROVE  IInv'
<1> USE DEF IInv
<1>1. PICK s \in {chainfs_resolve_path(p)} \cap Slots :
        job' = [NoJob EXCEPT !.op = "delete", !.slot = s, !.cur = table[s].start]
  BY DEF chainfs_delete_file
<1>2. s \in Slots /\ (table[Root] = RootEntry => s # Root)
  BY <1>1, RootOutOfReach
<1>3. table[s].start \in MapIndices
  BY <1>2 DEF TypeOK, Entries
<1>4. job' \in Jobs /\ job'.op = "delete" /\ job'.slot = s
  BY <1>1, <1>2, <1>3, NoJobType DEF Jobs
<1>5. pc' = "free" /\ UNCHANGED <<disk, mounted, cwd>>
  BY DEF chainfs_delete_file
<1>6. TypeOK'
  BY <1>4, <1>5 DEF TypeOK, disk
<1>7. AscendingLinks' /\ UnwrittenFree'
  BY <1>5 DEF AscendingLinks, UnwrittenFree, Unwritten, disk
<1>8. RootNotInFlight'
  BY <1>2, <1>4, <1>5 DEF RootNotInFlight, InFlight, disk
<1> QED BY <1>6, <1>7, <1>8

\* Freeing one block of a chain preserves it (208-216).
LEMMA FreeBlockChainStep == ASSUME IInv, chainfs_free_block_chain PROVE IInv'
<1> USE DEF IInv
<1>1. /\ job.cur \in MapIndices /\ pc = "free" /\ pc' = "free"
      /\ blockMap' = [blockMap EXCEPT ![job.cur] = Free]
      /\ job' = [job EXCEPT !.cur = blockMap[job.cur]]
      /\ UNCHANGED <<table, data, mounted, cwd>>
  BY DEF chainfs_free_block_chain, Mapped
<1>2. job' \in Jobs /\ job'.op = job.op /\ job'.slot = job.slot
  BY <1>1 DEF TypeOK, Jobs
<1>3. blockMap' \in [MapIndices -> MapIndices \cup {Eof}]
        /\ \A b \in MapIndices : blockMap'[b] \in {Free, blockMap[b]}
  BY <1>1, Ranges DEF TypeOK, Free
<1>4. TypeOK'
  BY <1>1, <1>2, <1>3 DEF TypeOK
<1>5. AscendingLinks' /\ UnwrittenFree'
  BY <1>1, <1>3 DEF AscendingLinks, UnwrittenFree, Unwritten
<1>6. RootNotInFlight'
  BY <1>1, <1>2 DEF RootNotInFlight, InFlight
<1> QED BY <1>4, <1>5, <1>6

\* Allocating blocks preserves it: they are free, and there is one (187-203).
LEMMA FindFreeBlocksStep == ASSUME IInv, chainfs_find_free_blocks PROVE IInv'
<1> USE DEF IInv
<1>1. PICK A \in SUBSET FreeDataBlocks :
        /\ Cardinality(A) = BlocksNeeded(job.size)
        /\ job' = [job EXCEPT !.cur = Eof, !.todo = A, !.start = Min(A)]
  BY DEF chainfs_find_free_blocks
<1>2. pc = "free" /\ job.op = "write" /\ pc' = "data" /\ UNCHANGED <<disk, mounted, cwd>>
  BY DEF chainfs_find_free_blocks
<1>3. A # {}
  BY <1>1, BlocksNeededPositive, FS_EmptySet DEF TypeOK, Jobs
<1>4. A \subseteq DataBlocks /\ \A b \in A : blockMap[b] = Free
  BY DEF FreeDataBlocks
<1>5. Min(A) \in MapIndices
  BY <1>3, <1>4, Ranges, MinIsLeast
<1>6. job' \in Jobs /\ job'.op = "write" /\ job'.slot = job.slot /\ job'.todo = A
  BY <1>1, <1>2, <1>4, <1>5 DEF TypeOK, Jobs
<1>7. TypeOK'
  BY <1>2, <1>3, <1>6 DEF TypeOK, disk
<1>8. AscendingLinks' /\ UnwrittenFree'
  BY <1>2, <1>4, <1>6 DEF AscendingLinks, UnwrittenFree, Unwritten, disk
<1>9. RootNotInFlight'
  BY <1>2, <1>6 DEF RootNotInFlight, InFlight, disk
<1> QED BY <1>7, <1>8, <1>9

\* The error returns of chainfs_write_file preserve it (337-347).
LEMMA GiveUpStep == ASSUME IInv, GiveUp PROVE IInv'
<1> USE DEF IInv
<1>1. TypeOK'
  BY ReturnType DEF GiveUp, TypeOK, disk
<1> QED BY <1>1, ReturnType DEF GiveUp, AscendingLinks, disk

\* Writing a data sector preserves it (363-367).
LEMMA WriteDataBlockStep == ASSUME IInv, WriteDataBlock PROVE IInv'
<1> USE DEF IInv, WriteDataBlock
<1>1. job \in Jobs /\ job.op = "write" /\ job.todo # {}
  BY DEF TypeOK
<1>2. [tag |-> job.tag, k |-> job.k] \in Chunks
  BY <1>1 DEF Jobs, Chunks
<1>3. TypeOK'
  BY <1>1, <1>2 DEF TypeOK
<1>4. AscendingLinks' /\ UnwrittenFree' /\ RootNotInFlight'
  BY DEF AscendingLinks, UnwrittenFree, Unwritten, RootNotInFlight, InFlight
<1> QED BY <1>3, <1>4

\* Linking a block to the next, higher one preserves it (369-371).
LEMMA LinkBlockStep == ASSUME IInv, LinkBlock PROVE IInv'
<1> USE DEF IInv
<1> DEFINE b == Min(job.todo)
           rest == job.todo \ {b}
           next == IF rest = {} THEN Eof ELSE Min(rest)
<1>1. /\ pc = "link" /\ UNCHANGED <<table, data, mounted, cwd>>
      /\ blockMap' = [blockMap EXCEPT ![b] = next]
      /\ job' = [job EXCEPT !.todo = rest, !.k = @ + 1]
      /\ pc' = IF rest = {} THEN "commit" ELSE "data"
  BY DEF LinkBlock
<1>2. job \in Jobs /\ job.op = "write" /\ job.todo # {} /\ job.todo \subseteq DataBlocks
  BY <1>1 DEF TypeOK, Jobs
<1>3. b \in job.todo /\ \A x \in job.todo : b <= x
  BY <1>2, Ranges, MinIsLeast
<1>4. rest # {} => Min(rest) \in rest
  BY <1>2, Ranges, MinIsLeast
<1> HIDE DEF b
<1>5. job' \in Jobs /\ job'.op = "write" /\ job'.slot = job.slot /\ job'.todo = rest
  <2>1. job.k + 1 \in Nat /\ rest \in SUBSET DataBlocks
    BY <1>2 DEF Jobs
  <2> HIDE DEF rest
  <2> QED BY <1>1, <1>2, <2>1 DEF Jobs
<1>6. b \in MapIndices /\ next \in MapIndices \cup {Eof} /\ (next = Eof \/ next > b)
  <2>1. b \in Nat /\ b \in MapIndices
    BY <1>2, <1>3, Ranges
  <2>2. CASE rest = {}
    BY <2>1, <2>2
  <2>3. CASE rest # {}
    <3>1. next = Min(rest) /\ next \in job.todo /\ next # b
      BY <1>4, <2>3
    <3>2. b <= next /\ next \in Nat /\ next \in MapIndices
      BY <1>2, <1>3, <3>1, Ranges
    <3> HIDE DEF next
    <3> QED BY <2>1, <3>1, <3>2
  <2> QED BY <2>2, <2>3
<1> HIDE DEF next
<1>7. TypeOK'
  BY <1>1, <1>5, <1>6 DEF TypeOK
<1>8. AscendingLinks'
  BY <1>1, <1>6 DEF AscendingLinks, TypeOK
<1>9. UnwrittenFree'
  BY <1>1, <1>5, <1>6 DEF UnwrittenFree, Unwritten, TypeOK
<1>10. RootNotInFlight'
  BY <1>1, <1>2, <1>5 DEF RootNotInFlight, InFlight
<1> QED BY <1>7, <1>8, <1>9, <1>10

\* Writing the entry of the file preserves it (377-399).
LEMMA CommitStep == ASSUME IInv, CommitEntry PROVE IInv'
<1> USE DEF IInv
<1> DEFINE e == [kind |-> "file", size |-> job.size, start |-> job.start,
                 parent |-> job.parent,
                 name |-> IF job.name = NoName THEN NoName ELSE Kept[job.name]]
<1>1. job \in Jobs
  BY DEF TypeOK
<1>2. e \in Entries /\ e.kind = "file" /\ job.slot \in Slots
  BY <1>1, CallerAssumption DEF Jobs, Entries
<1>3. table' = [table EXCEPT ![job.slot] = e]
  BY DEF CommitEntry
<1> HIDE DEF e
<1>4. TypeOK'
  BY <1>2, <1>3, EntryWritten, ReturnType DEF CommitEntry, TypeOK
<1> QED BY <1>4, ReturnType DEF CommitEntry, AscendingLinks

\* Freeing the entry of a deleted file preserves it (419-423).
LEMMA UnlinkStep == ASSUME IInv, Unlink PROVE IInv'
<1> USE DEF IInv
<1>1. job.slot \in Slots /\ table' = [table EXCEPT ![job.slot] = Freed(job.slot)]
  BY DEF Unlink, TypeOK, Jobs
<1>2. TypeOK'
  BY <1>1, FreedType, EntryWritten, ReturnType DEF Unlink, TypeOK
<1> QED BY <1>2, ReturnType DEF Unlink, AscendingLinks

\* Every step of the driver and every reset preserves the invariant.
LEMMA NextIInv == IInv /\ [Next]_vars => IInv'
<1> SUFFICES ASSUME IInv, [Next]_vars PROVE IInv'
  OBVIOUS
<1>0. DirPaths \subseteq Paths /\ FilePaths \subseteq Paths /\ Sizes \subseteq Nat
  BY CallerAssumption
<1>1. CASE Call
  BY <1>0, <1>1, InitStep, FormatStep, MkdirStep, ChdirStep, RmdirStep,
     WriteFileStep, DeleteFileStep DEF Call
<1>2. CASE Step
  BY <1>2, FormatSectorStep, FreeBlockChainStep, FindFreeBlocksStep, GiveUpStep,
     WriteDataBlockStep, LinkBlockStep, CommitStep, UnlinkStep DEF Step
<1>3. CASE Crash
  BY <1>3, CrashStep
<1>4. CASE UNCHANGED vars
  BY <1>4 DEF IInv, TypeOK, AscendingLinks, UnwrittenFree, Unwritten, RootNotInFlight,
              InFlight, vars
<1> QED BY <1>1, <1>2, <1>3, <1>4 DEF Next

\* Every reachable state satisfies the inductive invariant.
THEOREM Inductive == Spec => []IInv
BY InitIInv, NextIInv, PTL DEF Spec

-----------------------------------------------------------------------------
(* What follows from it.                                                    *)

\* No call, and no reset in the middle of one, stores a block number, a slot, a
\* parent or a chain head outside the arrays of the disk.
THEOREM TypeCorrect == Spec => []TypeOK
<1>1. IInv => TypeOK
  BY DEF IInv
<1> QED BY <1>1, Inductive, PTL

\* No chain of the block map has a cycle, on any disk: every link leads to a
\* higher block, also in what a reset leaves behind (lines 349-375 and 208-216).
THEOREM AscendingLinksInvariant == Spec => []AscendingLinks
<1>1. IInv => AscendingLinks
  BY DEF IInv
<1> QED BY <1>1, Inductive, PTL

\* A step that writes a data sector writes one the map calls free.
LEMMA OnlyFreeBlocksStep ==
    IInv /\ [Next]_vars =>
      [\A b \in DataBlocks : data'[b] # data[b] => blockMap[b] = Free]_vars
<1> SUFFICES ASSUME IInv, Next,
                    NEW b \in DataBlocks, data'[b] # data[b]
             PROVE  blockMap[b] = Free
  OBVIOUS
<1>1. WriteDataBlock
  BY DEF Next, Call, Step, Crash, chainfs_init, chainfs_format, chainfs_mkdir,
         chainfs_chdir, chainfs_rmdir, chainfs_write_file, chainfs_delete_file,
         FormatSector, chainfs_free_block_chain, chainfs_find_free_blocks,
         GiveUp, LinkBlock, CommitEntry, Unlink, disk
<1>2. b = Min(job.todo) /\ job.todo # {} /\ job.todo \subseteq DataBlocks /\ pc = "data"
  BY <1>1 DEF WriteDataBlock, IInv, TypeOK, Jobs
<1>3. b \in job.todo
  BY <1>2, MinIsLeast, Ranges
<1> QED BY <1>2, <1>3, Ranges DEF IInv, UnwrittenFree, Unwritten

\* write_file overwrites no block that the map says is in use (lines 363-370).
THEOREM WritesOnlyFree == Spec => WritesOnlyFreeBlocks
BY Inductive, OnlyFreeBlocksStep, PTL DEF WritesOnlyFreeBlocks, Spec

\* A step that is no format leaves the root entry alone.
LEMMA RootPersistsStep ==
    IInv /\ [Next]_vars =>
      [table[Root] = RootEntry /\ pc # "format" => table'[Root] = RootEntry]_vars
<1> SUFFICES ASSUME IInv, Next, table[Root] = RootEntry, pc # "format"
             PROVE  table'[Root] = RootEntry
  OBVIOUS
<1> USE DEF IInv
<1>0. Root \in Slots /\ Root # RootSlot /\ DirPaths \subseteq Paths /\ FilePaths \subseteq Paths
  BY Ranges, CallerAssumption DEF Slots, Root, RootSlot
<1>1. CASE Crash \/ chainfs_init
  BY <1>1 DEF Crash, chainfs_init, disk
<1>2. CASE chainfs_format
  BY <1>0, <1>2 DEF chainfs_format, TypeOK
<1>3. ASSUME NEW p \in Paths, chainfs_mkdir(p) PROVE table'[Root] = RootEntry
  BY <1>0, <1>3, RootOutOfReach DEF chainfs_mkdir, TypeOK
<1>4. ASSUME NEW p \in Paths, chainfs_chdir(p) PROVE table'[Root] = RootEntry
  BY <1>4 DEF chainfs_chdir, disk
<1>5. ASSUME NEW p \in Paths, chainfs_rmdir(p) PROVE table'[Root] = RootEntry
  <2>1. PICK s \in {chainfs_resolve_path(p)} \cap Slots :
          table' = [table EXCEPT ![s] = Freed(s)]
    BY <1>5 DEF chainfs_rmdir
  <2>2. s # Root
    BY RootOutOfReach
  <2> QED BY <1>0, <2>1, <2>2 DEF TypeOK
<1>6. ASSUME NEW p \in Paths, chainfs_delete_file(p) PROVE table'[Root] = RootEntry
  BY <1>6 DEF chainfs_delete_file, disk
<1>7. ASSUME NEW p \in Paths, NEW z, NEW g, chainfs_write_file(p, z, g)
      PROVE  table'[Root] = RootEntry
  BY <1>7 DEF chainfs_write_file, disk
<1>8. CASE CommitEntry \/ Unlink
  <2>1. job.slot # Root
    BY <1>8 DEF CommitEntry, Unlink, TypeOK, RootNotInFlight, InFlight
  <2> QED BY <1>0, <1>8, <2>1 DEF CommitEntry, Unlink, TypeOK
<1>9. CASE \/ chainfs_free_block_chain \/ chainfs_find_free_blocks
           \/ GiveUp \/ WriteDataBlock \/ LinkBlock
  BY <1>9 DEF chainfs_free_block_chain, chainfs_find_free_blocks,
              GiveUp, WriteDataBlock, LinkBlock, disk
<1>10. ~FormatSector
  BY DEF FormatSector
<1> QED BY <1>0, <1>1, <1>2, <1>3, <1>4, <1>5, <1>6, <1>7, <1>8, <1>9, <1>10
        DEF Next, Call, Step

\* Whatever paths callers use and whenever the machine is reset, only a format
\* replaces or removes the root directory's entry (lines 509-555, 769).
THEOREM RootEntryPersists == Spec => RootPersists
BY Inductive, RootPersistsStep, PTL DEF RootPersists, Spec

-----------------------------------------------------------------------------
(* What chainfs_read_file walks along.                                      *)

\* The block after block c in a map m.
Onward(m, c) == IF c \in MapIndices THEN m[c] ELSE Eof
After(c) == Onward(blockMap, c)
IsWalk(m, f, c, n) == f = [k \in 0 .. n |-> IF k = 0 THEN c ELSE Onward(m, f[k-1])]

\* There is a walk of every length.
LEMMA WalkExists ==
    ASSUME NEW m, NEW c, NEW n \in Nat
    PROVE  \E f : IsWalk(m, f, c, n)
<1> DEFINE Without == {i \in Nat : ~\E f : IsWalk(m, f, c, i)}
<1> SUFFICES ASSUME Without # {} PROVE FALSE
  OBVIOUS
<1> DEFINE l == Min(Without)
<1>1. l \in Without /\ \A x \in Without : l <= x
  BY MinIsLeast
<1> HIDE DEF l
<1>2. l # 0
  <2>1. IsWalk(m, [k \in 0 .. 0 |-> c], c, 0)
    BY DEF IsWalk
  <2> QED BY <1>1, <2>1
<1>3. l - 1 \in Nat /\ l - 1 \notin Without
  BY <1>1, <1>2
<1>4. PICK f : IsWalk(m, f, c, l - 1)
  BY <1>3
<1> DEFINE g == [k \in 0 .. l |-> IF k < l THEN f[k] ELSE Onward(m, f[l - 1])]
<1>5. IsWalk(m, g, c, l)
  <2>1. l \in Nat /\ l # 0
    BY <1>1, <1>2
  <2>2. \A k \in 0 .. l - 1 : f[k] = IF k = 0 THEN c ELSE Onward(m, f[k-1])
    BY <1>4 DEF IsWalk
  <2>3. ASSUME NEW k \in 0 .. l
        PROVE  g[k] = IF k = 0 THEN c ELSE Onward(m, g[k-1])
    <3>1. CASE k < l
      <4>1. k \in 0 .. l - 1 /\ g[k] = f[k] /\ (k # 0 => g[k-1] = f[k-1])
        BY <2>1, <3>1
      <4> QED BY <2>2, <4>1
    <3>2. CASE k = l
      <4>1. g[k] = Onward(m, f[l - 1]) /\ g[k-1] = f[k-1]
        BY <2>1, <3>2
      <4> QED BY <2>1, <3>2, <4>1
    <3> QED BY <2>1, <3>1, <3>2
  <2> HIDE DEF Onward
  <2>4. g = [k \in 0 .. l |-> IF k = 0 THEN c ELSE Onward(m, g[k-1])]
    BY <2>3
  <2> QED BY <2>4 DEF IsWalk
<1> QED BY <1>1, <1>5

\* There is only one.
LEMMA WalkUnique ==
    ASSUME NEW m, NEW c, NEW n \in Nat, NEW f, NEW g, IsWalk(m, f, c, n), IsWalk(m, g, c, n)
    PROVE  f = g
<1>1. /\ \A k \in 0 .. n : f[k] = IF k = 0 THEN c ELSE Onward(m, f[k-1])
      /\ \A k \in 0 .. n : g[k] = IF k = 0 THEN c ELSE Onward(m, g[k-1])
  BY DEF IsWalk
<1>2. f = [k \in 0 .. n |-> f[k]] /\ g = [k \in 0 .. n |-> g[k]]
  BY DEF IsWalk
<1> DEFINE Differ == {k \in 0 .. n : f[k] # g[k]}
<1>3. SUFFICES ASSUME Differ # {} PROVE FALSE
  BY <1>2
<1>4. PICK k \in Differ : \A j \in Differ : k <= j
  <2>1. Differ \in SUBSET Nat
    OBVIOUS
  <2> HIDE DEF Differ
  <2> QED BY <1>3, <2>1, MinIsLeast
<1>5. k \in 0 .. n /\ f[k] # g[k]
  OBVIOUS
<1>6. k # 0
  BY <1>1, <1>5
<1>7. k - 1 \in 0 .. n /\ k - 1 \notin Differ
  BY <1>4, <1>5, <1>6
<1>8. f[k-1] = g[k-1]
  BY <1>7
<1> QED BY <1>1, <1>5, <1>6, <1>8

\* Walk is one.
LEMMA WalkIs ==
    ASSUME NEW c, NEW n \in Nat
    PROVE  IsWalk(blockMap, Walk(c, n), c, n) /\ IsWalk(blockMap', Walk(c, n)', c, n)
<1>1. Walk(c, n) = CHOOSE f : IsWalk(blockMap, f, c, n)
  BY DEF Walk, IsWalk, Onward
<1>2. Walk(c, n)' = CHOOSE f : IsWalk(blockMap', f, c, n)
  BY DEF Walk, IsWalk, Onward
<1>3. (\E f : IsWalk(blockMap, f, c, n)) /\ (\E f : IsWalk(blockMap', f, c, n))
  BY WalkExists
<1> QED BY <1>1, <1>2, <1>3

\* So it goes from block to block.
LEMMA WalkSteps ==
    ASSUME NEW c, NEW n \in Nat
    PROVE  /\ Walk(c, n)[0] = c
           /\ \A k \in 1 .. n : Walk(c, n)[k] = After(Walk(c, n)[k-1])
<1> DEFINE w == Walk(c, n)
<1>1. IsWalk(blockMap, w, c, n)
  BY WalkIs
<1> HIDE DEF w
<1>2. \A k \in 0 .. n : w[k] = IF k = 0 THEN c ELSE After(w[k-1])
  BY <1>1 DEF IsWalk, After
<1>3. 0 \in 0 .. n /\ \A k \in 1 .. n : k \in 0 .. n /\ k # 0
  OBVIOUS
<1> QED BY <1>2, <1>3 DEF w

\* A step that leaves the links of a walk's blocks alone leaves the walk alone.
LEMMA WalkKept ==
    ASSUME NEW c, NEW n \in Nat,
           \A k \in 0 .. n - 1 : blockMap'[Walk(c, n)[k]] = blockMap[Walk(c, n)[k]]
    PROVE  Walk(c, n)' = Walk(c, n)
<1>1. PICK w : w = Walk(c, n)
  OBVIOUS
<1>2. IsWalk(blockMap, w, c, n) /\ IsWalk(blockMap', Walk(c, n)', c, n)
  BY <1>1, WalkIs
<1>3. \A k \in 0 .. n - 1 : Onward(blockMap', w[k]) = Onward(blockMap, w[k])
  BY <1>1 DEF Onward
<1>4. \A k \in 0 .. n : k # 0 => k - 1 \in 0 .. n - 1
  OBVIOUS
<1>5. [k \in 0 .. n |-> IF k = 0 THEN c ELSE Onward(blockMap', w[k-1])]
        = [k \in 0 .. n |-> IF k = 0 THEN c ELSE Onward(blockMap, w[k-1])]
  BY <1>3, <1>4
<1>6. IsWalk(blockMap', w, c, n)
  BY <1>2, <1>5 DEF IsWalk
<1> QED BY <1>1, <1>2, <1>6, WalkUnique

-----------------------------------------------------------------------------
(* Damage stays where it is.                                                *)

\* What a call that does not work on the entry s does to it.
LEMMA OthersEntry ==
    ASSUME IInv, Next, NEW s \in Settled, pc # "format", pc' # "format", ~InFlight(s)'
    PROVE  table'[s] = table[s]
<1> USE DEF IInv
<1>0. /\ s \in Slots /\ table[s].kind = "file" /\ ~InFlight(s)
      /\ DirPaths \subseteq Paths /\ FilePaths \subseteq Paths
  BY CallerAssumption DEF Settled, IsFile
<1>1. CASE Crash \/ chainfs_init
  BY <1>1 DEF Crash, chainfs_init, disk
<1>2. ~chainfs_format /\ ~FormatSector
  BY DEF chainfs_format, FormatSector
<1>3. ASSUME NEW p \in Paths, chainfs_mkdir(p) PROVE table'[s] = table[s]
  <2>1. PICK r, e : r = Min(FreeSlots) /\ table' = [table EXCEPT ![r] = e] /\ ~Live(r)
    BY <1>3, FreeSlotType DEF chainfs_mkdir
  <2>2. r # s
    BY <1>0, <2>1 DEF Live
  <2> QED BY <1>0, <2>1, <2>2 DEF TypeOK
<1>4. ASSUME NEW p \in Paths, chainfs_chdir(p) PROVE table'[s] = table[s]
  BY <1>4 DEF chainfs_chdir, disk
<1>5. ASSUME NEW p \in Paths, chainfs_rmdir(p) PROVE table'[s] = table[s]
  <2>1. PICK r \in Slots : table' = [table EXCEPT ![r] = Freed(r)] /\ IsDir(r)
    BY <1>5 DEF chainfs_rmdir
  <2>2. r # s
    BY <1>0, <2>1 DEF IsDir
  <2> QED BY <1>0, <2>1, <2>2 DEF TypeOK
<1>6. ASSUME NEW p \in Paths, chainfs_delete_file(p) PROVE table'[s] = table[s]
  BY <1>6 DEF chainfs_delete_file, disk
<1>7. ASSUME NEW p \in Paths, NEW z, NEW g, chainfs_write_file(p, z, g)
      PROVE  table'[s] = table[s]
  BY <1>7 DEF chainfs_write_file, disk
<1>8. CASE CommitEntry \/ Unlink
  <2>1. job.slot # s
    BY <1>0, <1>8 DEF CommitEntry, Unlink, TypeOK, InFlight
  <2> QED BY <1>0, <1>8, <2>1 DEF CommitEntry, Unlink, TypeOK
<1>9. CASE \/ chainfs_free_block_chain \/ chainfs_find_free_blocks
           \/ GiveUp \/ WriteDataBlock \/ LinkBlock
  BY <1>9 DEF chainfs_free_block_chain, chainfs_find_free_blocks,
              GiveUp, WriteDataBlock, LinkBlock, disk
<1> QED BY <1>0, <1>1, <1>2, <1>3, <1>4, <1>5, <1>6, <1>7, <1>8, <1>9 DEF Next, Call, Step

\* The map changes only at the block that is being freed and at one that is free.
LEMMA OthersBlock ==
    ASSUME IInv, Next, pc # "format", NEW b \in DataBlocks, b \notin ToFree, blockMap[b] # Free
    PROVE  blockMap'[b] = blockMap[b] /\ data'[b] = data[b]
<1> USE DEF IInv
<1>0. b \in MapIndices
  BY Ranges
<1>1. data'[b] = data[b]
  <2>1. IInv /\ [Next]_vars
    OBVIOUS
  <2>2. [\A c \in DataBlocks : data'[c] # data[c] => blockMap[c] = Free]_vars
    BY <2>1, OnlyFreeBlocksStep
  <2> QED BY <2>2 DEF vars
<1>2. CASE chainfs_free_block_chain
  <2>1. pc = "free" /\ job.cur \in MapIndices /\ blockMap' = [blockMap EXCEPT ![job.cur] = Free]
    BY <1>2 DEF chainfs_free_block_chain, Mapped
  <2>2. job.cur \in ToFree
    <3> DEFINE n == Cardinality(MapIndices)
               at == Walk(job.cur, n)
    <3>1. n \in Nat
      <4>1. IsFiniteSet(MapIndices)
        <5>1. block_map_block_count * MapEntriesPerBlock - 1 \in Int
          BY Regions, GeometryAssumption
        <5> QED BY <5>1, FS_Interval DEF MapIndices
      <4> QED BY <4>1, FS_CardinalityType
    <3>2. PICK c : c = job.cur
      OBVIOUS
    <3>3. at[0] = job.cur
      <4>1. Walk(c, n)[0] = c
        BY <3>1, WalkSteps
      <4> QED BY <3>2, <4>1
    <3>4. ToFree = {at[k] : k \in 0 .. n}
      BY <2>1 DEF ToFree
    <3>5. 0 \in 0 .. n
      BY <3>1
    <3> HIDE DEF n, at
    <3> QED BY <3>3, <3>4, <3>5
  <2> QED BY <1>0, <1>1, <2>1, <2>2 DEF TypeOK
<1>3. CASE LinkBlock
  <2>1. PICK c, v : c = Min(job.todo) /\ blockMap' = [blockMap EXCEPT ![c] = v]
    BY <1>3 DEF LinkBlock
  <2>2. pc = "link" /\ job.todo # {} /\ job.todo \subseteq DataBlocks
    BY <1>3 DEF LinkBlock, TypeOK, Jobs
  <2>3. c \in job.todo /\ c \in MapIndices
    BY <2>1, <2>2, MinIsLeast, Ranges
  <2>4. blockMap[c] = Free
    BY <2>2, <2>3 DEF UnwrittenFree, Unwritten
  <2> QED BY <1>0, <1>1, <2>1, <2>4 DEF TypeOK
<1>4. CASE ~chainfs_free_block_chain /\ ~LinkBlock
  <2>1. UNCHANGED blockMap
    BY <1>4 DEF Next, Call, Step, Crash, chainfs_init, chainfs_format, chainfs_mkdir,
       chainfs_chdir, chainfs_rmdir, chainfs_write_file, chainfs_delete_file,
       FormatSector, chainfs_find_free_blocks, GiveUp, WriteDataBlock, CommitEntry, Unlink, disk
  <2> QED BY <1>1, <2>1
<1> QED BY <1>2, <1>3, <1>4

\* Of an empty file no block is read, although it has one (237-258, 332-335).
LEMMA NothingToRead == Ceil(0, BlockSize) = 0
<1>1. BlockSize \in Nat \ {0} /\ BlockSize - 1 \in Nat
  BY GeometryAssumption
<1> DEFINE m == (BlockSize - 1) \div BlockSize
<1>2. m \in Nat /\ m * BlockSize <= BlockSize - 1
  BY <1>1, DivBounds
<1>3. 0 + BlockSize - 1 = BlockSize - 1
  BY <1>1
<1>4. Ceil(0, BlockSize) = m
  BY <1>3 DEF Ceil
<1> HIDE DEF m
<1>5. m # 0 => BlockSize <= m * BlockSize
  BY <1>1, <1>2, ProductBounds
<1> QED BY <1>1, <1>2, <1>4, <1>5

\* What chainfs_read_file reads along a walk w.
ReadAlong(size, w, d) ==
    LET n    == Ceil(size, BlockSize)
        read == {k \in 0 .. n - 1 : w[k] # Eof}
    IN  [bytes |-> Min({size, BlockSize * Cardinality(read)}),
         chunks |-> [k \in read |-> IF w[k] \in DataBlocks THEN d[w[k]]
                                    ELSE [tag |-> NoTag, k |-> 0]]]

\* It depends on the data of these blocks only.
LEMMA ReadSame ==
    ASSUME NEW size, NEW w, NEW d, NEW e,
           \A k \in 0 .. Ceil(size, BlockSize) - 1 : d[w[k]] = e[w[k]]
    PROVE  ReadAlong(size, w, d) = ReadAlong(size, w, e)
<1> DEFINE read == {k \in 0 .. Ceil(size, BlockSize) - 1 : w[k] # Eof}
<1>1. [k \in read |-> IF w[k] \in DataBlocks THEN d[w[k]] ELSE [tag |-> NoTag, k |-> 0]]
        = [k \in read |-> IF w[k] \in DataBlocks THEN e[w[k]] ELSE [tag |-> NoTag, k |-> 0]]
  OBVIOUS
<1> QED BY <1>1 DEF ReadAlong

\* A step that leaves an entry and the blocks of its sound chain alone leaves the
\* chain sound and the file as it was.
LEMMA SoundKept ==
    ASSUME TypeOK, NEW s \in Slots, Sound(s), table'[s] = table[s],
           \A b \in BlocksOf(s) : blockMap'[b] = blockMap[b] /\ data'[b] = data[b]
    PROVE  Sound(s)' /\ chainfs_read_file(s)' = chainfs_read_file(s)
<1>1. PICK size, c, n, m : /\ size = table[s].size /\ c = table[s].start
                           /\ n = BlocksNeeded(size) /\ m = Ceil(size, BlockSize)
  OBVIOUS
<1>2. size \in Nat /\ n \in Nat /\ m \in Nat /\ (m = n \/ m = 0)
  <2>1. size \in Nat
    BY <1>1 DEF TypeOK, Entries
  <2>2. n \in Nat /\ m \in Nat
    BY <1>1, <2>1, BlocksNeededPositive, CeilBounds, GeometryAssumption
  <2>3. size = 0 => m = 0
    BY <1>1, NothingToRead
  <2>4. size # 0 => m = n
    BY <1>1 DEF BlocksNeeded
  <2> QED BY <2>1, <2>2, <2>3, <2>4
<1>3. PICK w : w = Walk(c, n)
  OBVIOUS
<1>4. BlocksOf(s) = {w[k] : k \in 0 .. n - 1}
  BY <1>1, <1>3 DEF BlocksOf
<1>5. \A k \in 0 .. n - 1 : blockMap'[w[k]] = blockMap[w[k]] /\ data'[w[k]] = data[w[k]]
  BY <1>4
<1>6. Walk(c, n)' = w
  <2>1. Walk(c, n)' = Walk(c, n)
    BY <1>2, <1>3, <1>5, WalkKept
  <2> QED BY <1>3, <2>1
<1>7. table'[s].size = size /\ table'[s].start = c
  BY <1>1
<1>8. BlocksOf(s)' = BlocksOf(s)
  BY <1>1, <1>4, <1>6, <1>7 DEF BlocksOf
<1>9. Sound(s)'
  <2>1. w[n] = Eof
    BY <1>1, <1>3 DEF Sound
  <2>2. BlocksOf(s)' \subseteq DataBlocks /\ \A b \in BlocksOf(s)' : blockMap'[b] # Free
    BY <1>8 DEF Sound
  <2>3. (Walk(table[s].start, BlocksNeeded(table[s].size))[BlocksNeeded(table[s].size)])' = Eof
    BY <1>1, <1>6, <1>7, <2>1
  <2> QED BY <2>2, <2>3 DEF Sound
<1>10. PICK v : v = Walk(c, m)
  OBVIOUS
<1>11. \A k \in 0 .. m - 1 : v[k] = w[k] /\ k \in 0 .. n - 1
  BY <1>2, <1>3, <1>10
<1>12. Walk(c, m)' = v
  <2>1. \A k \in 0 .. m - 1 : blockMap'[Walk(c, m)[k]] = blockMap[Walk(c, m)[k]]
    BY <1>5, <1>10, <1>11
  <2>2. Walk(c, m)' = Walk(c, m)
    BY <1>2, <2>1, WalkKept
  <2> QED BY <1>10, <2>2
<1>13. chainfs_read_file(s) = ReadAlong(size, v, data)
  BY <1>1, <1>10 DEF chainfs_read_file, ReadAlong
<1>14. chainfs_read_file(s)' = ReadAlong(size, v, data')
  BY <1>1, <1>7, <1>12 DEF chainfs_read_file, ReadAlong
<1>15. ReadAlong(size, v, data) = ReadAlong(size, v, data')
  <2>1. \A k \in 0 .. m - 1 : data[v[k]] = data'[v[k]]
    BY <1>5, <1>11
  <2> QED BY <1>1, <2>1, ReadSame
<1> QED BY <1>9, <1>13, <1>14, <1>15

\* A step keeps the files whose chains are sound and not about to be freed.
LEMMA DamageStep ==
    IInv /\ [Next]_vars =>
      [\A s \in Settled :
         /\ pc # "format" /\ pc' # "format" /\ ~InFlight(s)'
         /\ Sound(s) /\ BlocksOf(s) \cap ToFree = {}
         => /\ table'[s] = table[s] /\ Sound(s)'
            /\ chainfs_read_file(s)' = chainfs_read_file(s)]_vars
<1> SUFFICES ASSUME IInv, Next, NEW s \in Settled, pc # "format", pc' # "format", ~InFlight(s)',
                    Sound(s), BlocksOf(s) \cap ToFree = {}
             PROVE  /\ table'[s] = table[s] /\ Sound(s)'
                    /\ chainfs_read_file(s)' = chainfs_read_file(s)
  OBVIOUS
<1>1. table'[s] = table[s]
  BY OthersEntry
<1>2. \A b \in BlocksOf(s) : blockMap'[b] = blockMap[b] /\ data'[b] = data[b]
  BY OthersBlock DEF Sound
<1>3. s \in Slots /\ TypeOK
  BY DEF Settled, IInv
<1> QED BY <1>1, <1>2, <1>3, SoundKept

\* On any disk, for any caller, and with resets at any step, a call changes no
\* file but the one it works on, unless it frees a chain with a block of that
\* file (318-319, 337-347).
THEOREM DamageStays == Spec => DamageContained
BY Inductive, DamageStep, PTL DEF DamageContained, Spec

=============================================================================
