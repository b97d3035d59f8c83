------------------------- MODULE ChainFSFilesProofs -------------------------
(***************************************************************************)
(* Proofs about chainfs.c on any disk. For callers that keep to what it    *)
(* can do: every block in use has exactly one owner, names are unique, the *)
(* current directory stays one, what was written is found, files stay      *)
(* whole and apart, and the code implements the store of FileStore. For    *)
(* callers that only create, files stay apart also with resets anywhere.   *)
(***************************************************************************)
EXTENDS ChainFSProofs

\* NoSharing without counting: a block that is marked free has no owner, and any
\* other has at most one.
OneOwner(b) ==
    /\ blockMap[b] = Free => HeldBy(b) = {} /\ LinkedFrom(b) = {}
    /\ \A x, y \in HeldBy(b) : x = y
    /\ \A x, y \in LinkedFrom(b) : x = y
    /\ HeldBy(b) = {} \/ LinkedFrom(b) = {}

Owned == \A b \in MapIndices : ~Unwritten(b) => OneOwner(b)

\* A block that a write has allocated and not linked yet is linked from the last
\* one that it has linked, if it comes next, and from nowhere else.
Allocated ==
    /\ pc = "commit" => job.todo = {}
    /\ pc \in {"data", "link"} =>
        /\ \A b \in job.todo : HeldBy(b) = {} /\ job.start <= b
        /\ \A b \in job.todo : (\E x \in job.todo : x < b) \/ b = job.start => LinkedFrom(b) = {}
        /\ \A b \in job.todo : (\A x \in job.todo : b <= x) /\ b # job.start =>
              \E c \in MapIndices : LinkedFrom(b) = {c}

\* What format has done when it comes to sector k.
MapSector(b) == 1 + file_table_block_count + b \div MapEntriesPerBlock
FormatDone(k) ==
    /\ \A i \in Indices : SectorOf(i) < k => table[i] = IF i = Root THEN RootEntry ELSE FreeEntry
    /\ \A b \in MapIndices : MapSector(b) < k => blockMap[b] = Free

\* A mounted disk, or one that can be, has a root directory.
Formatted ==
    /\ table[RootSlot].kind # "file"
    /\ pc = "format" => job.k >= 1 /\ job.k < data_area_start /\ FormatDone(job.k)
    /\ pc \notin {"idle", "format"} => mounted
    /\ pc # "format" /\ (mounted \/ table[RootSlot].kind = "superblock") => table[Root] = RootEntry

\* Which names entries have, and that none is its own parent.
Named ==
    /\ Live(Root) => table[Root] = RootEntry
    /\ \A i \in Indices : IsFile(i) => table[i].name \in FileNames
    /\ \A i \in Indices : IsDir(i) /\ i # Root => table[i].name \in DirNames
    /\ \A i \in Indices : Live(i) => table[i].parent # i

\* The entry that a call works on is a file's, or free if there is nothing to
\* free; nothing else has the name that a write is going to store.
Working ==
    /\ job.op \in {"write", "delete"} => job.slot \in Indices /\ ~IsDir(job.slot)
    /\ pc = "free" /\ ~IsFile(job.slot) => job.cur = Eof
    /\ job.op = "write" =>
        /\ job.name \in FileNames /\ job.parent # job.slot
        /\ \A i \in Indices : Live(i) /\ i # job.slot =>
              <<table[i].parent, table[i].name>> # <<job.parent, job.name>>

NamesInv  == Formatted /\ Named /\ Working /\ UniqueNames /\ CwdIsDirectory
BlocksInv == Owned /\ Allocated /\ NoLeak

FInv == IInv /\ NamesInv /\ BlocksInv

-----------------------------------------------------------------------------
(* Arithmetic of the regions.                                               *)

\* What is below a product has a quotient below the other factor.
LEMMA QuotientBelow ==
    ASSUME NEW a \in Nat, NEW b \in Nat \ {0}, NEW c \in Nat, a < c * b
    PROVE  a \div b \in Nat /\ a \div b < c
<1> DEFINE q == a \div b
<1>1. q \in Nat /\ q * b <= a
  BY DivBounds
<1> HIDE DEF q
<1>2. q * b < c * b
  BY <1>1
<1>3. q < c
  BY <1>1, <1>2
<1> QED BY <1>1, <1>3 DEF q

\* Quotients by one divisor keep the order.
LEMMA QuotientOrder ==
    ASSUME NEW a \in Nat, NEW c \in Nat, NEW b \in Nat \ {0}, a <= c
    PROVE  a \div b <= c \div b
<1> DEFINE q == a \div b
           r == c \div b
<1>1. /\ q \in Nat /\ q * b <= a
      /\ r \in Nat /\ c < r * b + b
  BY DivBounds
<1> HIDE DEF q, r
<1>2. q * b < (r + 1) * b
  BY <1>1
<1>3. q < r + 1
  BY <1>1, <1>2
<1> QED BY <1>1, <1>3 DEF q, r

\* The sectors of the table come before those of the map, and those before the
\* data area; the order of the map's blocks is that of their sectors (45-54).
LEMMA SectorBounds ==
    /\ \A i \in Indices : SectorOf(i) \in Nat /\ 1 <= SectorOf(i)
                            /\ SectorOf(i) <= file_table_block_count
    /\ SectorOf(Root) = 1
    /\ \A b \in MapIndices : MapSector(b) \in Nat /\ file_table_block_count < MapSector(b)
                              /\ MapSector(b) < data_area_start
    /\ \A b, c \in MapIndices : b <= c => MapSector(b) <= MapSector(c)
<1>0. EntriesPerBlock \in Nat \ {0} /\ MapEntriesPerBlock \in Nat \ {0}
  BY GeometryAssumption
<1> DEFINE n == file_table_block_count * EntriesPerBlock
           m == block_map_block_count * MapEntriesPerBlock
<1>1. n \in Nat /\ m \in Nat
  BY <1>0, Regions, ProductBounds
<1>2. ASSUME NEW i \in Indices
      PROVE  SectorOf(i) \in Nat /\ 1 <= SectorOf(i) /\ SectorOf(i) <= file_table_block_count
  <2>1. i \in Nat /\ i < file_table_block_count * EntriesPerBlock
    BY <1>1 DEF Indices
  <2>2. i \div EntriesPerBlock \in Nat /\ i \div EntriesPerBlock < file_table_block_count
    BY <1>0, <2>1, QuotientBelow, Regions
  <2> QED BY <2>1, <2>2, Regions DEF SectorOf, RootSlot
<1>3. SectorOf(Root) = 1
  <2>1. 0 \div EntriesPerBlock = 0
    BY <1>0
  <2> QED BY <2>1 DEF SectorOf, Root, RootSlot
<1>4. ASSUME NEW b \in MapIndices
      PROVE  MapSector(b) \in Nat /\ file_table_block_count < MapSector(b)
               /\ MapSector(b) < data_area_start
  <2>1. b \in Nat /\ b < block_map_block_count * MapEntriesPerBlock
    BY <1>1 DEF MapIndices
  <2>2. b \div MapEntriesPerBlock \in Nat /\ b \div MapEntriesPerBlock < block_map_block_count
    BY <1>0, <2>1, QuotientBelow, Regions
  <2> QED BY <2>2, Regions DEF MapSector, data_area_start
<1>5. ASSUME NEW b \in MapIndices, NEW c \in MapIndices, b <= c
      PROVE  MapSector(b) <= MapSector(c)
  <2>1. b \in Nat /\ c \in Nat
    BY Ranges
  <2>2. /\ b \div MapEntriesPerBlock \in Nat /\ c \div MapEntriesPerBlock \in Nat
        /\ b \div MapEntriesPerBlock <= c \div MapEntriesPerBlock
    BY <1>0, <1>5, <2>1, QuotientOrder, DivBounds
  <2> QED BY <2>2, Regions DEF MapSector
<1> QED BY <1>2, <1>3, <1>4, <1>5

-----------------------------------------------------------------------------
(* Lookups of single names.                                                 *)

\* A lookup that fails passes over every entry, one that succeeds returns an
\* entry in use that has the directory and the name (488-505).
LEMMA FindMeans ==
    ASSUME TypeOK, NEW d, NEW n
    PROVE  /\ chainfs_find_in_directory(d, n) = NotFound =>
                \A i \in Scanned : Live(i) => table[i].parent # d \/ table[i].name # n
           /\ chainfs_find_in_directory(d, n) # NotFound =>
                /\ chainfs_find_in_directory(d, n) \in Scanned
                /\ Live(chainfs_find_in_directory(d, n))
                /\ table[chainfs_find_in_directory(d, n)].parent = d
                /\ table[chainfs_find_in_directory(d, n)].name = n
<1> DEFINE hits == {i \in ChildrenOf(d) : table[i].name = n}
<1>1. hits \subseteq Nat /\ ChildrenOf(d) \subseteq Scanned
  BY Ranges DEF ChildrenOf, Scanned
<1>2. hits # {} => Min(hits) \in hits
  BY <1>1, MinIsLeast
<1>3. hits # {} => Min(hits) # NotFound
  BY <1>1, <1>2 DEF NotFound
<1>4. chainfs_find_in_directory(d, n) = IF hits = {} THEN NotFound ELSE Min(hits)
  BY DEF chainfs_find_in_directory
<1> HIDE DEF hits
<1>5. CASE hits = {}
  BY <1>4, <1>5 DEF hits, ChildrenOf
<1>6. CASE hits # {}
  <2>1. Min(hits) \in ChildrenOf(d) /\ table[Min(hits)].name = n
    BY <1>2, <1>6 DEF hits
  <2> QED BY <1>1, <1>3, <1>4, <1>6, <2>1 DEF ChildrenOf
<1> QED BY <1>5, <1>6

\* A path of one name is looked up in the current directory, and that is where
\* mkdir and write_file create it (272-312, 560-600).
LEMMA PlainPath ==
    ASSUME TypeOK, PlainCallers, NEW p \in FilePaths \cup DirPaths
    PROVE  /\ chainfs_resolve_path(p) = chainfs_find_in_directory(cwd, LastName(p))
           /\ LastName(p) \in Names /\ LastName(p) # NoName
           /\ MkdirParent(p) = cwd /\ WriteParent(p) = cwd
<1> DEFINE n == Len(p.comps)
<1>1. p \in Paths /\ ~p.abs /\ n = 1
  BY CallerAssumption DEF PlainCallers
<1>2. p.comps \in Seq(Names) /\ p.comps # <<>>
  <2>1. p.comps \in Seq(Names)
    BY <1>1 DEF Paths
  <2>2. Len(<<>>) # 1
    OBVIOUS
  <2> QED BY <1>1, <2>1, <2>2
<1>3. p.comps[n] \in Names
  BY <1>1, <1>2
<1>4. LastName(p) = p.comps[n]
  BY <1>2 DEF LastName
<1>5. Trails(p) # {} /\ \A t \in Trails(p) : t[n - 1] = cwd
  <2> HIDE DEF n
  <2>1. Trails(p) = {t \in [0 .. n - 1 -> Indices] :
          /\ t[0] = cwd
          /\ \A i \in 1 .. n - 1 :
                t[i] = chainfs_find_in_directory(t[i-1], p.comps[i]) /\ IsDir(t[i])}
    BY <1>1 DEF Trails, n
  <2>2. 1 .. n - 1 = {} /\ 0 \in 0 .. n - 1 /\ n - 1 = 0
    BY <1>1
  <2>3. [i \in 0 .. n - 1 |-> cwd] \in [0 .. n - 1 -> Indices]
    BY DEF TypeOK
  <2>4. [i \in 0 .. n - 1 |-> cwd] \in Trails(p)
    BY <2>1, <2>2, <2>3
  <2> QED BY <2>1, <2>2, <2>4
<1>6. chainfs_resolve_path(p) = chainfs_find_in_directory(cwd, LastName(p))
  <2>1. chainfs_resolve_path(p) =
          LET t == CHOOSE t \in Trails(p) : TRUE
          IN  chainfs_find_in_directory(t[n - 1], LastName(p))
    BY <1>2, <1>5 DEF chainfs_resolve_path
  <2> QED BY <1>5, <2>1
<1>7. MkdirParent(p) = cwd /\ WriteParent(p) = cwd
  BY <1>1 DEF MkdirParent, WriteParent
<1> QED BY <1>3, <1>4, <1>6, <1>7, CallerAssumption

-----------------------------------------------------------------------------
(* Names and directories, one lemma per operation.                          *)

\* While the driver is mounted the root and the current directory are in place.
LEMMA Mounted ==
    ASSUME IInv, NamesInv, pc # "format", mounted
    PROVE  /\ table[Root] = RootEntry /\ IsDir(Root) /\ ~InFlight(Root)
           /\ cwd \in Indices /\ IsDir(cwd) /\ Scanned = Indices
BY RootEntryFields DEF IInv, NamesInv, Formatted, CwdIsDirectory, RootNotInFlight, TypeOK,
   Scanned, IsDir

\* What a call finds under a single name.
LEMMA PlainFound ==
    ASSUME IInv, NamesInv, PlainCallers, pc = "idle",
           NEW p \in FilePaths \cup DirPaths, NEW f,
           f = chainfs_resolve_path(p), f # NotFound
    PROVE  /\ f \in Indices /\ mounted /\ Live(f) /\ f # Root /\ f # cwd
           /\ table[f].parent = cwd /\ table[f].name = LastName(p)
           /\ p \in FilePaths => IsFile(f)
<1> USE DEF IInv
<1>1. f = chainfs_find_in_directory(cwd, LastName(p))
  BY PlainPath
<1>2. f \in Scanned /\ Live(f) /\ table[f].parent = cwd /\ table[f].name = LastName(p)
  BY <1>1, FindMeans
<1>3. f \in Indices /\ mounted
  BY <1>2 DEF Scanned
<1>4. table[Root] = RootEntry
  BY <1>3, Mounted
<1>5. f # Root
  BY <1>4, RootOutOfReach, CallerAssumption
<1>6. f # cwd
  BY <1>2, <1>3 DEF NamesInv, Named
<1>7. p \in FilePaths => IsFile(f)
  <2> SUFFICES ASSUME p \in FilePaths, IsDir(f) PROVE FALSE
    BY <1>2 DEF Live, IsDir, IsFile
  <2>1. table[f].name \in DirNames
    BY <1>3, <1>5 DEF NamesInv, Named
  <2>2. LastName(p) \in FileNames
    BY DEF FileNames
  <2> QED BY <1>2, <2>1, <2>2 DEF PlainCallers
<1> QED BY <1>2, <1>3, <1>5, <1>6, <1>7

\* Where a call creates an entry under a single name that it did not find.
LEMMA PlainNew ==
    ASSUME IInv, NamesInv, PlainCallers, pc = "idle",
           NEW p \in FilePaths \cup DirPaths, FreeSlots # {}, NEW s,
           s = Min(FreeSlots),
           chainfs_find_in_directory(cwd, LastName(p)) = NotFound
    PROVE  /\ s \in Indices /\ mounted /\ ~Live(s) /\ s # Root /\ s # cwd
           /\ \A i \in Indices : Live(i) => table[i].parent # cwd \/ table[i].name # LastName(p)
<1> USE DEF IInv
<1>1. s \in Indices /\ ~Live(s)
  BY FreeSlotType
<1>2. mounted
  BY DEF FreeSlots, Scanned
<1>3. table[Root] = RootEntry /\ IsDir(cwd) /\ Scanned = Indices
  BY <1>2, Mounted
<1>4. s # Root /\ s # cwd
  BY <1>1, <1>3, RootOutOfReach DEF Live, IsDir
<1> QED BY <1>1, <1>2, <1>3, <1>4, FindMeans

\* The disk is not mounted and has nothing on it.
LEMMA InitNames == Init => NamesInv
<1> SUFFICES ASSUME Init PROVE NamesInv
  OBVIOUS
<1>1. \A i \in Indices : table[i] = FreeEntry
  BY Ranges DEF Init, Slots, RootSlot
<1>2. table[RootSlot].kind = "wrecked"
  BY DEF Init, Slots, FreeEntry
<1>3. \A i \in Indices : ~Live(i) /\ ~IsFile(i) /\ ~IsDir(i)
  BY <1>1, RootEntryFields DEF Live, IsFile, IsDir
<1>4. Formatted
  BY <1>2 DEF Formatted, Init
<1>5. Named /\ UniqueNames
  BY <1>3, Ranges DEF Named, UniqueNames
<1>6. Working /\ CwdIsDirectory
  BY DEF Working, CwdIsDirectory, Init, NoJob
<1> QED BY <1>4, <1>5, <1>6 DEF NamesInv

\* chainfs_init mounts a disk that has a root directory (7-39).
LEMMA InitCallNames == ASSUME IInv, NamesInv, chainfs_init PROVE NamesInv'
<1> USE DEF IInv, NamesInv, chainfs_init, disk
<1>1. Formatted' /\ IsDir(Root)'
  BY RootEntryFields DEF Formatted, IsDir
<1>2. Named' /\ UniqueNames'
  BY DEF Named, UniqueNames, Live, IsFile, IsDir
<1>3. Working'
  BY DEF Working, IsDir, IsFile, Live
<1>4. CwdIsDirectory'
  BY <1>1 DEF CwdIsDirectory, IsDir
<1> QED BY <1>1, <1>2, <1>3, <1>4

\* An entry that a call may store at index s: new, with a name of its own.
NewEntry(s, e) ==
    /\ s \in Indices /\ s # Root /\ s # cwd
    /\ e.kind \in {"file", "dir"} /\ e.parent # s
    /\ e.kind = "file" => e.name \in FileNames
    /\ e.kind = "dir" => e.name \in DirNames
    /\ \A i \in Indices : Live(i) /\ i # s => table[i].parent # e.parent \/ table[i].name # e.name

\* Storing it keeps the names apart.
LEMMA EntryNamed ==
    ASSUME IInv, NamesInv, PlainCallers, pc # "format", mounted,
           NEW s, NEW e, NewEntry(s, e), table' = [table EXCEPT ![s] = e]
    PROVE  /\ Named' /\ UniqueNames'
           /\ table'[RootSlot] = table[RootSlot] /\ table'[Root] = RootEntry /\ table'[cwd] = table[cwd]
<1> USE DEF IInv, NamesInv, NewEntry
<1>1. /\ s \in Slots /\ s # RootSlot /\ cwd \in Indices
      /\ table[Root] = RootEntry
  BY Ranges, Mounted DEF Slots, RootSlot
<1>2. table'[s] = e /\ \A i \in Slots : i # s => table'[i] = table[i]
  BY <1>1 DEF TypeOK
<1>3. Indices \subseteq Slots /\ RootSlot \in Slots /\ Root \in Indices
  BY Ranges DEF Slots
<1>4. Named'
  <2>1. table'[Root] = RootEntry
    BY <1>1, <1>2, <1>3
  <2>2. ASSUME NEW i \in Indices
        PROVE  /\ IsFile(i)' => table'[i].name \in FileNames
               /\ IsDir(i)' /\ i # Root => table'[i].name \in DirNames
               /\ Live(i)' => table'[i].parent # i
    <3>1. CASE i = s
      BY <1>2, <3>1 DEF IsFile, IsDir
    <3>2. CASE i # s
      <4>1. table'[i] = table[i]
        BY <1>2, <1>3, <3>2
      <4> QED BY <4>1 DEF Named, Live, IsFile, IsDir
    <3> QED BY <3>1, <3>2
  <2> QED BY <2>1, <2>2 DEF Named
<1>5. UniqueNames'
  BY <1>2, <1>3 DEF UniqueNames, Live
<1> QED BY <1>1, <1>2, <1>3, <1>4, <1>5

\* chainfs_mkdir looks before it creates (558-643).
LEMMA MkdirNames ==
    ASSUME IInv, NamesInv, PlainCallers, NEW p \in DirPaths, chainfs_mkdir(p)
    PROVE  NamesInv'
<1> USE DEF IInv, NamesInv
<1> DEFINE s == Min(FreeSlots)
           e == [kind |-> "dir", name |-> LastName(p), size |-> 0, start |-> 0, parent |-> cwd]
<1>1. /\ pc = "idle" /\ FreeSlots # {} /\ UNCHANGED <<mounted, cwd, pc, job>>
      /\ chainfs_find_in_directory(cwd, LastName(p)) = NotFound
      /\ table' = [table EXCEPT ![s] = e]
  BY PlainPath DEF chainfs_mkdir
<1>2. /\ s \in Indices /\ mounted /\ s # Root /\ s # cwd
      /\ \A i \in Indices : Live(i) => table[i].parent # cwd \/ table[i].name # LastName(p)
  BY <1>1, PlainNew
<1>3. LastName(p) \in DirNames
  BY DEF DirNames
<1>4. e.kind = "dir" /\ e.parent = cwd /\ e.name = LastName(p)
  OBVIOUS
<1> HIDE DEF s, e
<1>5. /\ Named' /\ UniqueNames'
      /\ table'[RootSlot] = table[RootSlot] /\ table'[Root] = RootEntry /\ table'[cwd] = table[cwd]
  <2>1. NewEntry(s, e)
    BY <1>2, <1>3, <1>4 DEF NewEntry
  <2> QED BY <1>1, <1>2, <2>1, EntryNamed
<1>6. Formatted'
  BY <1>1, <1>2, <1>5 DEF Formatted
<1>7. Working'
  BY <1>1 DEF Working, TypeOK
<1>8. CwdIsDirectory'
  BY <1>1, <1>5 DEF CwdIsDirectory, IsDir
<1> QED BY <1>5, <1>6, <1>7, <1>8

\* chainfs_chdir goes only to directories (660).
LEMMA ChdirNames ==
    ASSUME IInv, NamesInv, NEW p \in DirPaths, chainfs_chdir(p)
    PROVE  NamesInv'
<1> USE DEF IInv, NamesInv
<1>1. Formatted' /\ Named' /\ UniqueNames'
  BY DEF chainfs_chdir, disk, Formatted, FormatDone, Named, UniqueNames, Live, IsFile, IsDir
<1>2. Working'
  BY DEF chainfs_chdir, disk, Working, TypeOK
<1>3. CwdIsDirectory'
  BY DEF chainfs_chdir, disk, CwdIsDirectory, IsDir
<1> QED BY <1>1, <1>2, <1>3

\* An entry that is freed, and is neither the root nor the current directory.
LEMMA EntryFreed ==
    ASSUME IInv, NamesInv, pc # "format", mounted,
           NEW s \in Indices, table' = [table EXCEPT ![s] = Freed(s)], s # Root, s # cwd
    PROVE  /\ Named' /\ UniqueNames'
           /\ table'[RootSlot] = table[RootSlot] /\ table'[Root] = RootEntry /\ table'[cwd] = table[cwd]
           /\ ~Live(s)'
<1> USE DEF IInv, NamesInv
<1>1. /\ s \in Slots /\ s # RootSlot /\ cwd \in Indices
      /\ table[Root] = RootEntry
  BY Ranges, Mounted DEF Slots, RootSlot
<1>2. Freed(s).kind = "free"
  BY <1>1, FreedType
<1>3. /\ table'[s].kind = "free"
      /\ \A i \in Slots : i # s => table'[i] = table[i]
  BY <1>1, <1>2 DEF TypeOK
<1>4. Indices \subseteq Slots /\ RootSlot \in Slots /\ Root \in Indices
  BY Ranges DEF Slots
<1>5. Named'
  BY <1>1, <1>3, <1>4 DEF Named, Live, IsFile, IsDir
<1>6. UniqueNames'
  BY <1>3, <1>4 DEF UniqueNames, Live
<1> QED BY <1>1, <1>3, <1>4, <1>5, <1>6 DEF Live

\* chainfs_rmdir frees neither the root nor the current directory (755-791).
LEMMA RmdirNames ==
    ASSUME IInv, NamesInv, PlainCallers, NEW p \in DirPaths, chainfs_rmdir(p)
    PROVE  NamesInv'
<1> USE DEF IInv, NamesInv
<1>1. PICK s \in {chainfs_resolve_path(p)} \cap Slots :
        IsDir(s) /\ table' = [table EXCEPT ![s] = Freed(s)]
  BY DEF chainfs_rmdir
<1>2. pc = "idle" /\ UNCHANGED <<mounted, cwd, pc, job>>
  BY DEF chainfs_rmdir
<1>3. s # NotFound
  BY Ranges DEF Slots, RootSlot, NotFound
<1>4. s \in Indices /\ mounted /\ s # Root /\ s # cwd
  BY <1>2, <1>3, PlainFound
<1>5. /\ Named' /\ UniqueNames'
      /\ table'[RootSlot] = table[RootSlot] /\ table'[Root] = RootEntry /\ table'[cwd] = table[cwd]
  BY <1>1, <1>2, <1>4, EntryFreed
<1>6. Formatted'
  BY <1>2, <1>4, <1>5 DEF Formatted
<1>7. Working'
  BY <1>2 DEF Working, TypeOK
<1>8. CwdIsDirectory'
  BY <1>2, <1>5 DEF CwdIsDirectory, IsDir
<1> QED BY <1>5, <1>6, <1>7, <1>8

\* chainfs_delete_file finds a file (408-415).
LEMMA DeleteNames ==
    ASSUME IInv, NamesInv, PlainCallers, NEW p \in FilePaths, chainfs_delete_file(p)
    PROVE  /\ NamesInv' /\ mounted
           /\ \E s \in Indices : IsFile(s) /\ job' = [NoJob EXCEPT !.op = "delete", !.slot = s,
                                                                    !.cur = table[s].start]
<1> USE DEF IInv, NamesInv
<1>1. PICK s \in {chainfs_resolve_path(p)} \cap Slots :
        job' = [NoJob EXCEPT !.op = "delete", !.slot = s, !.cur = table[s].start]
  BY DEF chainfs_delete_file
<1>2. pc = "idle" /\ pc' = "free" /\ UNCHANGED <<disk, mounted, cwd>>
  BY DEF chainfs_delete_file
<1>3. s # NotFound
  BY Ranges DEF Slots, RootSlot, NotFound
<1>4. s \in Indices /\ mounted /\ IsFile(s)
  BY <1>2, <1>3, PlainFound
<1>5. job'.op = "delete" /\ job'.slot = s
  BY <1>1 DEF NoJob
<1>6. Formatted'
  BY <1>2, <1>4 DEF Formatted, disk
<1>7. Named' /\ UniqueNames' /\ CwdIsDirectory'
  BY <1>2 DEF disk, Named, UniqueNames, CwdIsDirectory, Live, IsFile, IsDir
<1>8. Working'
  BY <1>2, <1>4, <1>5 DEF disk, Working, IsFile, IsDir
<1> QED BY <1>1, <1>4, <1>6, <1>7, <1>8

\* What chainfs_write_file has found before it frees the old blocks: the file,
\* or an entry that is free (268-330).
Begun(s) ==
    /\ s \in Indices /\ s # cwd /\ job'.op = "write" /\ job'.slot = s
    /\ \/ IsFile(s) /\ job'.cur = table[s].start
       \/ ~Live(s) /\ job'.cur = Eof

\* chainfs_write_file finds the file of the name, or there is none (266-330).
LEMMA WriteNames ==
    ASSUME IInv, NamesInv, PlainCallers, NEW p \in FilePaths, NEW z \in Nat, NEW g \in Tags,
           chainfs_write_file(p, z, g)
    PROVE  NamesInv' /\ mounted /\ \E s \in Indices : Begun(s)
<1> USE DEF IInv, NamesInv
<1>1. PICK t \in Target(p) :
        job' = [NoJob EXCEPT !.op = "write", !.slot = t.slot, !.cur = t.chain,
                 !.parent = cwd, !.name = LastName(p), !.size = z, !.tag = g]
  BY PlainPath DEF chainfs_write_file
<1>2. pc = "idle" /\ pc' = "free" /\ UNCHANGED <<disk, mounted, cwd>>
  BY DEF chainfs_write_file
<1>3. /\ job'.op = "write" /\ job'.slot = t.slot /\ job'.cur = t.chain
      /\ job'.parent = cwd /\ job'.name = LastName(p)
  BY <1>1 DEF NoJob
<1> DEFINE f == chainfs_resolve_path(p)
<1>4. /\ mounted /\ Begun(t.slot)
      /\ \A i \in Indices : Live(i) /\ i # t.slot =>
            table[i].parent # cwd \/ table[i].name # LastName(p)
  <2>1. CASE f # NotFound
    <3>1. t = [slot |-> f, chain |-> table[f].start]
      BY <2>1 DEF Target
    <3>2. /\ f \in Indices /\ mounted /\ f # cwd /\ IsFile(f) /\ Live(f)
          /\ table[f].parent = cwd /\ table[f].name = LastName(p)
      BY <1>2, <2>1, PlainFound
    <3> QED BY <1>3, <3>1, <3>2 DEF Begun, UniqueNames
  <2>2. CASE f = NotFound
    <3>1. t = [slot |-> Min(FreeSlots), chain |-> Eof] /\ FreeSlots # {}
      BY <2>2 DEF Target
    <3>2. chainfs_find_in_directory(cwd, LastName(p)) = NotFound
      BY <2>2, PlainPath
    <3>3. /\ t.slot = Min(FreeSlots) /\ t.chain = Eof
      BY <3>1
    <3>4. /\ t.slot \in Indices /\ mounted /\ ~Live(t.slot) /\ t.slot # cwd
          /\ \A i \in Indices : Live(i) => table[i].parent # cwd \/ table[i].name # LastName(p)
      BY <1>2, <3>1, <3>2, <3>3, PlainNew
    <3> QED BY <1>3, <3>3, <3>4 DEF Begun
  <2> QED BY <2>1, <2>2
<1> HIDE DEF f
<1>5. Formatted'
  BY <1>2, <1>4 DEF Formatted, disk
<1>6. Named' /\ UniqueNames' /\ CwdIsDirectory'
  BY <1>2 DEF disk, Named, UniqueNames, CwdIsDirectory, Live, IsFile, IsDir
<1>7. Working'
  <2>1. LastName(p) \in FileNames
    BY DEF FileNames
  <2>2. ~IsDir(t.slot) /\ t.slot \in Indices /\ (~IsFile(t.slot) => job'.cur = Eof) /\ cwd # t.slot
    BY <1>4 DEF Begun, Live, IsDir, IsFile
  <2> QED BY <1>2, <1>3, <1>4, <2>1, <2>2 DEF disk, Working, IsFile, IsDir, Live
<1> QED BY <1>4, <1>5, <1>6, <1>7 DEF Begun

\* What of the names a step that writes no entry leaves as it was.
LEMMA NamesKept ==
    ASSUME IInv, NamesInv, mounted, pc \notin {"idle", "format"}, pc' # "format",
           UNCHANGED <<table, mounted, cwd>>,
           \/ job' = NoJob /\ pc' = "idle"
           \/ /\ job'.op = job.op /\ job'.slot = job.slot /\ job'.name = job.name
              /\ job'.parent = job.parent
              /\ pc' = "free" => pc = "free" /\ (job.cur = Eof => job'.cur = Eof)
    PROVE  NamesInv'
<1> USE DEF IInv, NamesInv
<1>1. Formatted'
  BY DEF Formatted
<1>2. Named' /\ UniqueNames' /\ CwdIsDirectory'
  BY DEF Named, UniqueNames, CwdIsDirectory, Live, IsFile, IsDir
<1>3. CASE job' = NoJob /\ pc' = "idle"
  BY <1>1, <1>2, <1>3 DEF Working, NoJob
<1>4. CASE ~(job' = NoJob /\ pc' = "idle")
  BY <1>1, <1>2, <1>4 DEF Working, IsFile, IsDir, Live
<1> QED BY <1>1, <1>2, <1>3, <1>4

\* The steps in the middle of a write or a delete write no entry (205-216, 332-375).
LEMMA MiddleNames ==
    ASSUME IInv, NamesInv,
           \/ chainfs_free_block_chain \/ chainfs_find_free_blocks \/ GiveUp
           \/ WriteDataBlock \/ LinkBlock
    PROVE  NamesInv'
<1> USE DEF IInv
<1>0. job \in Jobs
  BY DEF TypeOK
<1>1. pc \notin {"idle", "format"} /\ pc' # "format" /\ UNCHANGED <<table, mounted, cwd>>
  BY DEF chainfs_free_block_chain, chainfs_find_free_blocks, GiveUp, WriteDataBlock,
         LinkBlock, Return, disk
<1>2. mounted
  BY <1>1 DEF NamesInv, Formatted
<1>3. CASE GiveUp
  BY <1>1, <1>2, <1>3, NamesKept DEF GiveUp, Return
<1>4. CASE chainfs_free_block_chain
  <2>1. job.cur # Eof
    BY <1>4, Ranges DEF chainfs_free_block_chain, Mapped, Eof
  <2> QED BY <1>0, <1>1, <1>2, <1>4, <2>1, NamesKept DEF chainfs_free_block_chain, Jobs
<1>5. CASE chainfs_find_free_blocks
  BY <1>0, <1>1, <1>2, <1>5, NamesKept DEF chainfs_find_free_blocks, Jobs
<1>6. CASE WriteDataBlock
  BY <1>0, <1>1, <1>2, <1>6, NamesKept DEF WriteDataBlock
<1>7. CASE LinkBlock
  <2>1. PICK rest, k : job' = [job EXCEPT !.todo = rest, !.k = k] /\ pc' \in {"commit", "data"}
    BY <1>7 DEF LinkBlock
  <2>2. /\ job'.op = job.op /\ job'.slot = job.slot /\ job'.name = job.name
        /\ job'.parent = job.parent
    BY <1>0, <2>1 DEF Jobs
  <2> QED BY <1>1, <1>2, <2>1, <2>2, NamesKept
<1> QED BY <1>3, <1>4, <1>5, <1>6, <1>7

\* The slot of a call in progress is neither the root nor the current directory.
LEMMA SlotApart ==
    ASSUME IInv, NamesInv, job.op \in {"write", "delete"}
    PROVE  /\ mounted /\ pc # "format" /\ job.slot \in Indices /\ ~IsDir(job.slot)
           /\ job.slot # Root /\ job.slot # cwd
<1> USE DEF IInv, NamesInv
<1>1. pc \notin {"idle", "format"} /\ mounted
  BY DEF TypeOK, Formatted
<1>2. job.slot \in Indices /\ ~IsDir(job.slot)
  BY DEF Working
<1>3. IsDir(Root) /\ IsDir(cwd)
  BY <1>1, Mounted
<1> QED BY <1>1, <1>2, <1>3

\* CommitEntry stores a name that no other entry of the directory has (377-399).
LEMMA CommitNames ==
    ASSUME IInv, NamesInv, PlainCallers, CommitEntry
    PROVE  NamesInv'
<1> USE DEF IInv, NamesInv
<1> DEFINE s == job.slot
           e == [kind |-> "file", size |-> job.size, start |-> job.start, parent |-> job.parent,
                 name |-> IF job.name = NoName THEN NoName ELSE Kept[job.name]]
<1>1. /\ pc = "commit" /\ pc' = "idle" /\ job' = NoJob /\ UNCHANGED <<mounted, cwd>>
      /\ table' = [table EXCEPT ![s] = e]
  BY DEF CommitEntry, Return
<1>2. job.op = "write"
  BY <1>1 DEF TypeOK
<1>3. mounted /\ s \in Indices /\ s # Root /\ s # cwd
  BY <1>2, SlotApart
<1>4. /\ job.name \in FileNames /\ job.parent # s
      /\ \A i \in Indices : Live(i) /\ i # s =>
            table[i].parent # job.parent \/ table[i].name # job.name
  BY <1>2 DEF Working
<1>5. e.kind = "file" /\ e.parent = job.parent /\ e.name = job.name
  <2>1. job.name # NoName
    BY <1>4, PlainPath, CallerAssumption DEF FileNames
  <2> QED BY <1>4, <2>1 DEF PlainCallers
<1> HIDE DEF s, e
<1>6. NewEntry(s, e)
  BY <1>3, <1>4, <1>5 DEF NewEntry
<1>7. /\ Named' /\ UniqueNames'
      /\ table'[RootSlot] = table[RootSlot] /\ table'[Root] = RootEntry /\ table'[cwd] = table[cwd]
  BY <1>1, <1>3, <1>6, EntryNamed
<1>8. Formatted' /\ CwdIsDirectory'
  BY <1>1, <1>3, <1>7 DEF Formatted, CwdIsDirectory, IsDir
<1>9. Working'
  BY <1>1 DEF Working, NoJob
<1> QED BY <1>7, <1>8, <1>9

\* Unlink frees the entry of a file (419-423).
LEMMA UnlinkNames ==
    ASSUME IInv, NamesInv, Unlink
    PROVE  NamesInv'
<1> USE DEF IInv, NamesInv
<1>1. /\ job.op = "delete" /\ pc' = "idle" /\ job' = NoJob /\ UNCHANGED <<mounted, cwd>>
      /\ table' = [table EXCEPT ![job.slot] = Freed(job.slot)]
  BY DEF Unlink, Return
<1>2. mounted /\ pc # "format" /\ job.slot \in Indices /\ job.slot # Root /\ job.slot # cwd
  BY <1>1, SlotApart
<1>3. /\ Named' /\ UniqueNames'
      /\ table'[RootSlot] = table[RootSlot] /\ table'[Root] = RootEntry /\ table'[cwd] = table[cwd]
  BY <1>1, <1>2, EntryFreed
<1>4. Formatted' /\ CwdIsDirectory'
  BY <1>1, <1>2, <1>3 DEF Formatted, CwdIsDirectory, IsDir
<1>5. Working'
  BY <1>1 DEF Working, NoJob
<1> QED BY <1>3, <1>4, <1>5

\* Writing the superblock touches no entry (56-68).
LEMMA FormatNames == ASSUME IInv, NamesInv, chainfs_format PROVE NamesInv'
<1> USE DEF IInv, NamesInv
<1>1. /\ pc' = "format" /\ job'.op = "format" /\ job'.k = 1
      /\ table' = [table EXCEPT ![RootSlot] = SuperEntry]
  BY DEF chainfs_format, NoJob
<1>2. /\ table'[RootSlot].kind = "superblock"
      /\ \A i \in Indices : table'[i] = table[i]
  BY <1>1, Ranges, RootEntryFields DEF TypeOK, Slots, RootSlot
<1>3. Formatted'
  <2>1. 1 < data_area_start
    BY Regions DEF data_area_start
  <2>2. FormatDone(1)'
    BY SectorBounds, Regions DEF FormatDone
  <2> QED BY <1>1, <1>2, <2>1, <2>2 DEF Formatted, FormatDone
<1>4. Named' /\ UniqueNames'
  BY <1>2, Ranges DEF Named, UniqueNames, Live, IsFile, IsDir
<1>5. Working' /\ CwdIsDirectory'
  BY <1>1 DEF Working, CwdIsDirectory
<1> QED BY <1>3, <1>4, <1>5

\* FormatSector clears sector k and leaves the others (71-110).
LEMMA SectorCleared ==
    ASSUME IInv, NamesInv, FormatSector, NEW k, k = job.k
    PROVE  /\ k \in Nat /\ 1 <= k /\ k < data_area_start /\ FormatDone(k + 1)'
           /\ table'[RootSlot] = table[RootSlot]
           /\ \A i \in Indices : table'[i] = IF SectorOf(i) # k THEN table[i]
                                             ELSE IF i = Root THEN RootEntry ELSE FreeEntry
           /\ \A b \in MapIndices : blockMap'[b] = IF MapSector(b) # k THEN blockMap[b] ELSE Free
<1> USE DEF IInv, NamesInv
<1>1. k \in Nat /\ 1 <= k /\ k < data_area_start /\ FormatDone(k)
  BY DEF FormatSector, Formatted, TypeOK, Jobs
<1>2. /\ table'[RootSlot] = table[RootSlot]
      /\ \A i \in Indices : table'[i] = IF SectorOf(i) # k THEN table[i]
                                        ELSE IF i = Root THEN RootEntry ELSE FreeEntry
  BY Ranges DEF FormatSector, Slots, RootSlot
<1>3. \A b \in MapIndices : blockMap'[b] = IF MapSector(b) # k THEN blockMap[b] ELSE Free
  BY DEF FormatSector, MapSector
<1>4. /\ \A i \in Indices : SectorOf(i) \in Nat
      /\ \A b \in MapIndices : MapSector(b) \in Nat
  BY SectorBounds
<1>5. FormatDone(k + 1)'
  <2>1. ASSUME NEW i \in Indices, SectorOf(i) < k + 1
        PROVE  table'[i] = IF i = Root THEN RootEntry ELSE FreeEntry
    BY <1>1, <1>2, <1>4, <2>1 DEF FormatDone
  <2>2. ASSUME NEW b \in MapIndices, MapSector(b) < k + 1
        PROVE  blockMap'[b] = Free
    BY <1>1, <1>3, <1>4, <2>2 DEF FormatDone
  <2> QED BY <2>1, <2>2 DEF FormatDone
<1> QED BY <1>1, <1>2, <1>3, <1>5

\* In the end the root is the one entry, and it is the current directory (71-118).
LEMMA FormatSectorNames == ASSUME IInv, NamesInv, PlainCallers, FormatSector PROVE NamesInv'
<1> USE DEF IInv, NamesInv
<1>0. PICK k : k = job.k
  OBVIOUS
<1>1. /\ k \in Nat /\ 1 <= k /\ k < data_area_start
      /\ FormatDone(k + 1)' /\ table'[RootSlot] = table[RootSlot]
      /\ \A i \in Indices : table'[i] \in {table[i], IF i = Root THEN RootEntry ELSE FreeEntry}
  BY <1>0, SectorCleared
<1>2. ASSUME k + 1 < data_area_start PROVE Formatted' /\ Working' /\ CwdIsDirectory'
  <2>1. pc' = "format" /\ job' = [job EXCEPT !.k = k + 1] /\ UNCHANGED <<mounted, cwd>>
    BY <1>0, <1>2 DEF FormatSector
  <2>2. job'.k = k + 1 /\ job'.op = "format"
    BY <2>1 DEF FormatSector, TypeOK, Jobs
  <2> QED BY <1>1, <1>2, <2>1, <2>2 DEF Formatted, Working, CwdIsDirectory
<1>3. ASSUME ~(k + 1 < data_area_start) PROVE Formatted' /\ Working' /\ CwdIsDirectory'
  <2>1. pc' = "idle" /\ job' = NoJob /\ mounted' = TRUE /\ cwd' = Root
    BY <1>0, <1>3 DEF FormatSector, Return
  <2>2. table'[Root] = RootEntry
    BY <1>1, SectorBounds, Ranges DEF FormatDone
  <2> QED BY <1>1, <2>1, <2>2, RootEntryFields DEF Formatted, Working, CwdIsDirectory, NoJob, IsDir
<1>4. \A i \in Indices : i # Root => table'[i] = table[i] \/ ~Live(i)'
  BY <1>1, RootEntryFields DEF Live
<1>5. Live(Root)' => table'[Root] = RootEntry
  BY <1>1, Ranges, RootEntryFields DEF Named, Live
<1>6. Named'
  <2>1. (table'[Root].parent # Root /\ ~IsFile(Root)') \/ ~Live(Root)'
    BY <1>5, RootEntryFields DEF Root, IsFile
  <2> QED BY <1>4, <1>5, <2>1, Ranges DEF Named, Live, IsFile, IsDir
<1>7. UniqueNames'
  <2>1. \A i \in Indices : Live(i)' /\ i # Root => table'[i].name # "/" /\ table'[i] = table[i] /\ Live(i)
    <3>1. "/" \notin FileNames \cup DirNames
      BY PlainPath, CallerAssumption DEF FileNames, DirNames
    <3> QED BY <1>4, <3>1 DEF Named, Live, IsFile, IsDir
  <2> QED BY <1>5, <2>1, RootEntryFields DEF UniqueNames
<1> QED BY <1>2, <1>3, <1>6, <1>7

-----------------------------------------------------------------------------
(* Who owns a block, one lemma per operation.                               *)

\* Element by element: a file that no call works on holds its first block, the
\* call in progress the one it comes to next or the first that it has linked.
CallHolds(b) ==
    \/ pc = "free" /\ job.cur = b
    \/ pc \in {"data", "link", "commit"} /\ job.start = b /\ b \notin job.todo
Holds(x, b) ==
    \/ x \in Slots /\ IsFile(x) /\ ~InFlight(x) /\ table[x].start = b
    \/ x = NotFound /\ CallHolds(b)
Links(c, b) == c \in MapIndices /\ blockMap[c] = b /\ blockMap[c] # Free

\* HeldBy and LinkedFrom, before and after a step.
LEMMA Holding ==
    /\ \A x, b : x \in HeldBy(b) <=> Holds(x, b)
    /\ \A x, b : x \in HeldBy(b)' <=> Holds(x, b)'
    /\ \A c, b : c \in LinkedFrom(b) <=> Links(c, b)
    /\ \A c, b : c \in LinkedFrom(b)' <=> Links(c, b)'
<1>1. \A x, b : x \in HeldBy(b) <=> Holds(x, b)
  BY DEF HeldBy, Holds, Settled, CallHolds
<1>2. \A x, b : x \in HeldBy(b)' <=> Holds(x, b)'
  BY DEF HeldBy, Holds, Settled, CallHolds
<1>3. \A c, b : c \in LinkedFrom(b) <=> Links(c, b)
  BY DEF LinkedFrom, Links
<1>4. \A c, b : c \in LinkedFrom(b)' <=> Links(c, b)'
  BY DEF LinkedFrom, Links
<1> QED BY <1>1, <1>2, <1>3, <1>4

\* Block b has as many holders after the step as before, none or one.
SameHeld(b) ==
    /\ HeldBy(b)' = {} <=> HeldBy(b) = {}
    /\ (\A x, y \in HeldBy(b) : x = y) => \A x, y \in HeldBy(b)' : x = y

\* A step that only passes blocks from one holder to another.
LEMMA BlocksPassed ==
    ASSUME BlocksInv, pc \notin {"data", "link"}, pc' \notin {"data", "link", "commit"},
           pc = "format" => pc' = "format",
           blockMap' = blockMap, \A b \in MapIndices : SameHeld(b)
    PROVE  BlocksInv'
<1> USE DEF BlocksInv
<1>1. \A b \in MapIndices : LinkedFrom(b)' = LinkedFrom(b)
  BY DEF LinkedFrom
<1>2. Owned'
  BY <1>1 DEF Owned, OneOwner, Unwritten, SameHeld
<1>3. NoLeak'
  BY <1>1 DEF NoLeak, SameHeld
<1>4. Allocated'
  BY DEF Allocated
<1> QED BY <1>2, <1>3, <1>4

\* A step that changes neither the files nor what the call in progress holds.
LEMMA BlocksKept ==
    ASSUME BlocksInv, pc \notin {"data", "link"}, pc' \notin {"data", "link", "commit"},
           pc = "format" => pc' = "format", blockMap' = blockMap,
           \A x : \A b \in MapIndices : Holds(x, b)' <=> Holds(x, b)
    PROVE  BlocksInv'
<1>1. \A b \in MapIndices : HeldBy(b)' = HeldBy(b)
  BY Holding
<1>2. \A b \in MapIndices : SameHeld(b)
  BY <1>1 DEF SameHeld
<1> QED BY <1>2, BlocksPassed

\* Nothing is held and nothing is marked used on the empty disk.
LEMMA InitBlocks == Init => BlocksInv
<1> SUFFICES ASSUME Init PROVE BlocksInv
  OBVIOUS
<1>1. \A s \in Slots : ~IsFile(s)
  BY RootEntryFields DEF Init, IsFile, FreeEntry
<1>2. \A x, b : ~Holds(x, b)
  BY <1>1 DEF Holds, CallHolds, Init
<1>3. \A c, b : ~Links(c, b)
  BY DEF Links, Init
<1>4. \A b : HeldBy(b) = {} /\ LinkedFrom(b) = {}
  BY <1>2, <1>3, Holding
<1>5. Owned /\ Allocated
  BY <1>4 DEF Owned, OneOwner, Allocated, Init
<1>6. NoLeak
  BY DEF NoLeak, Init
<1> QED BY <1>5, <1>6 DEF BlocksInv

\* The calls that write no file, and the error returns, leave the owners alone.
LEMMA QuietBlocks ==
    ASSUME IInv, NamesInv, BlocksInv, FilesNext,
           \/ chainfs_init \/ chainfs_format \/ GiveUp \/ Unlink
           \/ \E p \in DirPaths : chainfs_mkdir(p) \/ chainfs_chdir(p) \/ chainfs_rmdir(p)
    PROVE  BlocksInv'
<1> USE DEF IInv
<1>0. DirPaths \subseteq Paths /\ RootSlot \in Slots /\ RootSlot \notin Indices
        /\ ~IsFile(RootSlot)
  BY CallerAssumption, Ranges DEF Slots, RootSlot, NamesInv, Formatted, IsFile
<1> SUFFICES /\ pc \notin {"data", "link"} /\ pc' \notin {"data", "link", "commit"}
             /\ pc = "format" => pc' = "format"
             /\ blockMap' = blockMap
             /\ \A x : \A b \in MapIndices : Holds(x, b)' <=> Holds(x, b)
  BY BlocksKept
<1>1. CASE chainfs_init
  BY <1>1 DEF chainfs_init, disk, Holds, CallHolds, IsFile, InFlight
<1>2. CASE chainfs_format
  <2>1. /\ pc = "idle" /\ pc' = "format" /\ job'.op = "format" /\ blockMap' = blockMap
        /\ table' = [table EXCEPT ![RootSlot] = SuperEntry]
    BY <1>2 DEF chainfs_format, NoJob
  <2>2. job.op = "none"
    BY <2>1 DEF TypeOK
  <2>3. \A s \in Slots : IsFile(s)' <=> IsFile(s)
    BY <1>0, <2>1, RootEntryFields DEF TypeOK, IsFile
  <2>4. \A s \in Slots : IsFile(s) => table'[s] = table[s]
    BY <1>0, <2>1 DEF TypeOK
  <2> QED BY <2>1, <2>2, <2>3, <2>4 DEF Holds, CallHolds, InFlight
<1>3. CASE GiveUp
  <2>1. /\ pc = "free" /\ job.op = "write" /\ job.cur \notin Mapped
        /\ pc' = "idle" /\ job' = NoJob /\ UNCHANGED disk
    BY <1>3 DEF GiveUp, Return
  <2>2. ~IsFile(job.slot)
    BY <2>1 DEF FilesNext, RewriteFits
  <2>3. job.cur \notin MapIndices
    BY <2>1 DEF Mapped, NamesInv, Formatted
  <2> QED BY <2>1, <2>2, <2>3 DEF Holds, CallHolds, IsFile, InFlight, NoJob, disk
<1>4. CASE Unlink
  <2>0. PICK s : s = job.slot
    OBVIOUS
  <2>1. /\ pc = "free" /\ job.op = "delete" /\ job.cur \notin Mapped
        /\ pc' = "idle" /\ job' = NoJob /\ blockMap' = blockMap
        /\ table' = [table EXCEPT ![s] = Freed(s)]
    BY <1>4, <2>0 DEF Unlink, Return
  <2>2. s \in Slots /\ s # RootSlot
    BY <2>0, <2>1, <1>0, SlotApart DEF Slots
  <2>3. job.cur \notin MapIndices
    BY <2>1 DEF Mapped, NamesInv, Formatted
  <2>4. Freed(s).kind = "free"
    BY <2>2, FreedType
  <2>5. /\ ~IsFile(s)'
        /\ \A r \in Slots : r # s => table'[r] = table[r]
    BY <2>1, <2>2, <2>4 DEF TypeOK, IsFile
  <2> QED BY <2>0, <2>1, <2>2, <2>3, <2>5 DEF Holds, CallHolds, IsFile, InFlight, NoJob
<1>5. ASSUME NEW p \in DirPaths, chainfs_mkdir(p) PROVE
             /\ pc \notin {"data", "link"} /\ pc' \notin {"data", "link", "commit"}
             /\ pc = "format" => pc' = "format"
             /\ blockMap' = blockMap
             /\ \A x : \A b \in MapIndices : Holds(x, b)' <=> Holds(x, b)
  <2> DEFINE s == Min(FreeSlots)
  <2>0. PICK parent : table' = [table EXCEPT ![s] = [kind |-> "dir", name |-> LastName(p),
                                  size |-> 0, start |-> 0, parent |-> parent]]
    BY <1>5 DEF chainfs_mkdir
  <2> DEFINE e == [kind |-> "dir", name |-> LastName(p), size |-> 0, start |-> 0,
                   parent |-> parent]
  <2>2. s \in Slots /\ ~Live(s)
    BY <1>5, FreeSlotType DEF chainfs_mkdir, Slots
  <2>4. e.kind = "dir"
    OBVIOUS
  <2> HIDE DEF s, e
  <2>1. table' = [table EXCEPT ![s] = e] /\ e.kind = "dir"
    BY <2>0, <2>4 DEF e
  <2>3. /\ \A r \in Slots : IsFile(r)' <=> IsFile(r)
        /\ \A r \in Slots : IsFile(r) => table'[r] = table[r]
    BY <2>1, <2>2 DEF TypeOK, IsFile, Live
  <2> QED BY <1>5, <2>3 DEF chainfs_mkdir, Holds, CallHolds, InFlight
<1>6. ASSUME NEW p \in DirPaths, chainfs_rmdir(p) PROVE
             /\ pc \notin {"data", "link"} /\ pc' \notin {"data", "link", "commit"}
             /\ pc = "format" => pc' = "format"
             /\ blockMap' = blockMap
             /\ \A x : \A b \in MapIndices : Holds(x, b)' <=> Holds(x, b)
  <2>1. PICK s \in Slots : table' = [table EXCEPT ![s] = Freed(s)] /\ IsDir(s)
    BY <1>6 DEF chainfs_rmdir
  <2>2. Freed(s).kind # "file"
    BY FreedType
  <2>3. /\ \A r \in Slots : IsFile(r)' <=> IsFile(r)
        /\ \A r \in Slots : IsFile(r) => table'[r] = table[r]
    BY <2>1, <2>2 DEF TypeOK, IsFile, IsDir
  <2> QED BY <1>6, <2>3 DEF chainfs_rmdir, Holds, CallHolds, InFlight
<1>7. ASSUME NEW p \in DirPaths, chainfs_chdir(p) PROVE
             /\ pc \notin {"data", "link"} /\ pc' \notin {"data", "link", "commit"}
             /\ pc = "format" => pc' = "format"
             /\ blockMap' = blockMap
             /\ \A x : \A b \in MapIndices : Holds(x, b)' <=> Holds(x, b)
  BY <1>7 DEF chainfs_chdir, disk, Holds, CallHolds, IsFile, InFlight
<1> QED BY <1>1, <1>2, <1>3, <1>4, <1>5, <1>6, <1>7

\* A call takes the chain of its file over: f's first block, or none if f is free.
LEMMA TakenOver ==
    ASSUME IInv, BlocksInv, pc = "idle", pc' = "free", NEW f \in Slots,
           UNCHANGED <<table, blockMap>>,
           job'.op \in {"write", "delete"}, job'.slot = f,
           \/ IsFile(f) /\ job'.cur = table[f].start
           \/ ~IsFile(f) /\ job'.cur = Eof
    PROVE  BlocksInv'
<1> USE DEF IInv
<1>1. job.op = "none"
  BY DEF TypeOK
<1>2. \A x, b : Holds(x, b) <=> x \in Slots /\ IsFile(x) /\ table[x].start = b
  BY <1>1 DEF Holds, CallHolds, InFlight
<1>3. \A x, b : Holds(x, b)' <=> \/ x \in Slots \ {f} /\ IsFile(x) /\ table[x].start = b
                                 \/ x = NotFound /\ job'.cur = b
  BY DEF Holds, CallHolds, InFlight, IsFile
<1>4. Eof \notin MapIndices
  BY Ranges DEF Eof
<1>5. ASSUME NEW b \in MapIndices PROVE SameHeld(b)
  <2>1. \A x : x \in HeldBy(b) <=> x \in Slots /\ IsFile(x) /\ table[x].start = b
    BY <1>2, Holding
  <2>2. \A x : x \in HeldBy(b)' <=> \/ x \in Slots \ {f} /\ IsFile(x) /\ table[x].start = b
                                    \/ x = NotFound /\ job'.cur = b
    BY <1>3, Holding
  <2>3. HeldBy(b)' = {} <=> HeldBy(b) = {}
    BY <1>4, <2>1, <2>2
  <2>4. ASSUME \A x, y \in HeldBy(b) : x = y PROVE \A x, y \in HeldBy(b)' : x = y
    BY <1>4, <2>1, <2>2, <2>4
  <2> QED BY <2>3, <2>4 DEF SameHeld
<1> QED BY <1>5, BlocksPassed

\* CommitEntry hands the new chain to the entry (377-399).
LEMMA CommitBlocks ==
    ASSUME IInv, NamesInv, BlocksInv, CommitEntry
    PROVE  BlocksInv'
<1> USE DEF IInv
<1>0. PICK f, c : f = job.slot /\ c = job.start
  OBVIOUS
<1> DEFINE e == [kind |-> "file", size |-> job.size, start |-> job.start, parent |-> job.parent,
                 name |-> IF job.name = NoName THEN NoName ELSE Kept[job.name]]
<1>1. /\ pc = "commit" /\ pc' = "idle" /\ job' = NoJob /\ blockMap' = blockMap
      /\ table' = [table EXCEPT ![f] = e]
  BY <1>0 DEF CommitEntry, Return
<1>2. job.op = "write" /\ f \in Slots /\ job.todo = {}
  BY <1>0, <1>1 DEF TypeOK, Jobs, BlocksInv, Allocated
<1>3. e.kind = "file" /\ e.start = c
  BY <1>0
<1> HIDE DEF e
<1>4. /\ table'[f] = e /\ \A r \in Slots : r # f => table'[r] = table[r]
  BY <1>1, <1>2 DEF TypeOK
<1>5. \A x, b : Holds(x, b) <=> \/ x \in Slots \ {f} /\ IsFile(x) /\ table[x].start = b
                                \/ x = NotFound /\ c = b
  BY <1>0, <1>1, <1>2 DEF Holds, CallHolds, InFlight
<1>6. \A x, b : Holds(x, b)' <=> \/ x \in Slots \ {f} /\ IsFile(x) /\ table[x].start = b
                                 \/ x = f /\ c = b
  BY <1>1, <1>2, <1>3, <1>4 DEF Holds, CallHolds, InFlight, IsFile, NoJob
<1>7. ASSUME NEW b \in MapIndices PROVE SameHeld(b)
  <2>1. \A x : x \in HeldBy(b) <=> \/ x \in Slots \ {f} /\ IsFile(x) /\ table[x].start = b
                                   \/ x = NotFound /\ c = b
    BY <1>5, Holding
  <2>2. \A x : x \in HeldBy(b)' <=> \/ x \in Slots \ {f} /\ IsFile(x) /\ table[x].start = b
                                    \/ x = f /\ c = b
    BY <1>6, Holding
  <2>3. HeldBy(b)' = {} <=> HeldBy(b) = {}
    BY <2>1, <2>2
  <2>4. NotFound \notin Slots
    BY Ranges DEF Slots, RootSlot, NotFound
  <2>5. ASSUME \A x, y \in HeldBy(b) : x = y PROVE \A x, y \in HeldBy(b)' : x = y
    BY <2>1, <2>2, <2>4, <2>5
  <2> QED BY <2>3, <2>5 DEF SameHeld
<1> QED BY <1>1, <1>7, BlocksPassed

\* chainfs_free_block_chain frees a block nobody else has, and comes to the next
\* one, which was linked from it alone (205-216).
LEMMA FreeBlocks ==
    ASSUME IInv, NamesInv, BlocksInv, chainfs_free_block_chain
    PROVE  BlocksInv'
<1> USE DEF IInv, BlocksInv
<1>0. PICK c, n : c = job.cur /\ n = blockMap[c]
  OBVIOUS
<1>1. /\ c \in MapIndices /\ pc = "free" /\ pc' = "free" /\ table' = table
      /\ blockMap' = [blockMap EXCEPT ![c] = Free]
      /\ job' = [job EXCEPT !.cur = n]
  BY <1>0 DEF chainfs_free_block_chain, Mapped
<1>2. job'.op = job.op /\ job'.slot = job.slot /\ job'.cur = n
  BY <1>1 DEF TypeOK, Jobs
<1>3. \A b \in MapIndices : blockMap'[b] = IF b = c THEN Free ELSE blockMap[b]
  BY <1>1 DEF TypeOK
<1>4. \A b \in MapIndices : OneOwner(b)
  BY <1>1 DEF Owned, Unwritten
<1>5. NotFound \in HeldBy(c) /\ n # Free /\ LinkedFrom(c) = {} /\ \A x \in HeldBy(c) : x = NotFound
  <2>1. NotFound \in HeldBy(c)
    BY <1>0, <1>1, Holding DEF Holds, CallHolds
  <2> QED BY <1>0, <1>1, <1>4, <2>1 DEF OneOwner
<1>6. n \in MapIndices => n # c /\ LinkedFrom(n) = {c} /\ HeldBy(n) = {}
  <2> SUFFICES ASSUME n \in MapIndices PROVE n # c /\ LinkedFrom(n) = {c} /\ HeldBy(n) = {}
    OBVIOUS
  <2>1. n # c
    BY <1>0, <1>1, <1>5, Ranges DEF AscendingLinks, Eof
  <2>2. c \in LinkedFrom(n)
    BY <1>0, <1>1, <1>5, Holding DEF Links
  <2> QED BY <1>4, <2>1, <2>2 DEF OneOwner
<1>7. \A x, b : x \in HeldBy(b)' <=> \/ x \in HeldBy(b) /\ x # NotFound
                                     \/ x = NotFound /\ b = n
  <2>1. NotFound \notin Slots
    BY Ranges DEF Slots, RootSlot, NotFound
  <2>2. \A x, b : Holds(x, b)' <=> \/ Holds(x, b) /\ x # NotFound
                                   \/ x = NotFound /\ b = n
    BY <1>1, <1>2, <2>1 DEF Holds, CallHolds, InFlight, IsFile
  <2> QED BY <2>2, Holding
<1>8. \A x : \A b \in MapIndices : x \in LinkedFrom(b)' <=> x \in LinkedFrom(b) /\ x # c
  <2>1. \A x : \A b \in MapIndices : Links(x, b)' <=> Links(x, b) /\ x # c
    BY <1>3 DEF Links, Free
  <2> QED BY <2>1, Holding
<1>9. \A b \in MapIndices : NotFound \in HeldBy(b) => b = c
  BY <1>0, <1>1, Holding, Ranges DEF Holds, CallHolds, Slots, RootSlot, NotFound
<1>10. ASSUME NEW b \in MapIndices PROVE OneOwner(b)'
  <2>1. CASE b = c
    BY <1>3, <1>5, <1>6, <1>7, <1>8, <2>1 DEF OneOwner
  <2>2. CASE b = n /\ b # c
    <3>1. blockMap'[b] # Free
      BY <1>3, <1>4, <1>6, <2>2 DEF OneOwner
    <3>2. \A x : x \in HeldBy(b)' <=> x = NotFound
      BY <1>6, <1>7, <2>2
    <3>3. \A x : x \notin LinkedFrom(b)'
      BY <1>6, <1>8, <2>2
    <3> QED BY <3>1, <3>2, <3>3 DEF OneOwner
  <2>3. CASE b # n /\ b # c
    BY <1>3, <1>4, <1>7, <1>8, <2>3 DEF OneOwner
  <2> QED BY <2>1, <2>2, <2>3
<1>11. Owned' /\ Allocated'
  BY <1>1, <1>10 DEF Owned, Allocated
<1>12. NoLeak'
  <2> SUFFICES ASSUME NEW b \in MapIndices, blockMap'[b] # Free
               PROVE  HeldBy(b)' # {} \/ LinkedFrom(b)' # {}
    BY DEF NoLeak
  <2>1. b # c /\ blockMap[b] # Free
    BY <1>3
  <2>2. HeldBy(b) # {} \/ LinkedFrom(b) # {}
    BY <1>1, <2>1 DEF NoLeak
  <2>3. CASE b = n
    BY <1>7, <2>3
  <2>4. CASE b # n
    <3>1. c \notin LinkedFrom(b)
      BY <1>0, <2>4, Holding DEF Links
    <3> QED BY <1>7, <1>8, <1>9, <2>1, <2>2, <3>1
  <2> QED BY <2>3, <2>4
<1> QED BY <1>11, <1>12

\* chainfs_find_free_blocks takes blocks that nobody owns (187-203).
LEMMA FindFreeBlocks ==
    ASSUME IInv, NamesInv, BlocksInv, chainfs_find_free_blocks
    PROVE  BlocksInv'
<1> USE DEF IInv, BlocksInv
<1>1. PICK A \in SUBSET FreeDataBlocks :
        /\ Cardinality(A) = BlocksNeeded(job.size)
        /\ job' = [job EXCEPT !.cur = Eof, !.todo = A, !.start = Min(A)]
  BY DEF chainfs_find_free_blocks
<1>2. /\ pc = "free" /\ job.op = "write" /\ pc' = "data" /\ UNCHANGED disk
      /\ job.cur \notin MapIndices
  BY DEF chainfs_find_free_blocks, Mapped, NamesInv, Formatted
<1>3. A # {} /\ A \subseteq MapIndices /\ A \subseteq Nat /\ \A b \in A : blockMap[b] = Free
  <2>1. A # {}
    BY <1>1, BlocksNeededPositive, FS_EmptySet DEF TypeOK, Jobs
  <2> QED BY <2>1, Ranges DEF FreeDataBlocks
<1>4. Min(A) \in A /\ \A b \in A : Min(A) <= b
  BY <1>3, MinIsLeast
<1>5. /\ job'.op = job.op /\ job'.slot = job.slot /\ job'.todo = A /\ job'.start = Min(A)
  BY <1>1 DEF TypeOK, Jobs
<1>6. \A x : \A b \in MapIndices : Holds(x, b)' <=> Holds(x, b)
  BY <1>2, <1>4, <1>5 DEF Holds, CallHolds, InFlight, IsFile, disk
<1>7. \A b \in MapIndices : HeldBy(b)' = HeldBy(b) /\ LinkedFrom(b)' = LinkedFrom(b)
  <2>1. \A b \in MapIndices : HeldBy(b)' = HeldBy(b)
    BY <1>6, Holding
  <2>2. \A b \in MapIndices : LinkedFrom(b)' = LinkedFrom(b)
    BY <1>2 DEF LinkedFrom, disk
  <2> QED BY <2>1, <2>2
<1>8. \A b \in MapIndices : OneOwner(b)
  BY <1>2 DEF Owned, Unwritten
<1>9. Owned' /\ NoLeak'
  BY <1>2, <1>7, <1>8 DEF Owned, OneOwner, NoLeak, disk
<1>10. Allocated'
  <2>1. \A b \in A : HeldBy(b)' = {} /\ LinkedFrom(b)' = {} /\ job'.start <= b
    BY <1>3, <1>4, <1>5, <1>7, <1>8 DEF OneOwner
  <2>2. ASSUME NEW b \in A, \A x \in A : b <= x PROVE b = job'.start
    <3>1. b <= Min(A) /\ Min(A) <= b
      BY <1>4, <2>2
    <3>2. b \in Nat /\ Min(A) \in Nat
      BY <1>3, <1>4
    <3>3. b = Min(A)
      BY ONLY <3>1, <3>2
    <3> QED BY <1>5, <3>3
  <2> QED BY <1>2, <1>5, <2>1, <2>2 DEF Allocated
<1> QED BY <1>9, <1>10

\* Writing a data sector changes no owner (363-367).
LEMMA WriteDataBlocks ==
    ASSUME IInv, BlocksInv, WriteDataBlock
    PROVE  BlocksInv'
<1> USE DEF BlocksInv
<1>1. pc = "data" /\ pc' = "link" /\ UNCHANGED <<table, blockMap, job>>
  BY DEF WriteDataBlock
<1>2. \A x, b : Holds(x, b)' <=> Holds(x, b)
  BY <1>1 DEF Holds, CallHolds, InFlight, IsFile
<1>3. \A b : HeldBy(b)' = HeldBy(b) /\ LinkedFrom(b)' = LinkedFrom(b)
  BY <1>1, <1>2, Holding DEF LinkedFrom
<1>4. Owned' /\ NoLeak'
  BY <1>1, <1>3 DEF Owned, OneOwner, Unwritten, NoLeak
<1>5. Allocated'
  BY <1>1, <1>3 DEF Allocated
<1> QED BY <1>4, <1>5

\* A block that is linked goes to the call or to the block linked before, and the
\* next one is linked from it alone (349-375).
LEMMA LinkBlocks ==
    ASSUME IInv, NamesInv, BlocksInv, LinkBlock
    PROVE  BlocksInv'
<1> USE DEF IInv, BlocksInv
<1>0. PICK T, b, next : /\ T = job.todo /\ b = Min(T)
                        /\ next = IF T \ {b} = {} THEN Eof ELSE Min(T \ {b})
  OBVIOUS
<1>1. /\ pc = "link" /\ table' = table
      /\ blockMap' = [blockMap EXCEPT ![b] = next]
      /\ job' = [job EXCEPT !.todo = T \ {b}, !.k = @ + 1]
      /\ pc' = IF T \ {b} = {} THEN "commit" ELSE "data"
  BY <1>0 DEF LinkBlock
<1>2. T # {} /\ T \subseteq MapIndices /\ T \subseteq Nat
  BY <1>0, <1>1, Ranges DEF TypeOK, Jobs
<1>3. b \in T /\ \A x \in T : b <= x
  BY <1>0, <1>2, MinIsLeast
<1>4. T \ {b} # {} => next \in T \ {b} /\ next > b /\ \A x \in T \ {b} : next <= x
  <2> SUFFICES ASSUME T \ {b} # {}
               PROVE  next \in T \ {b} /\ next > b /\ \A x \in T \ {b} : next <= x
    OBVIOUS
  <2>1. next = Min(T \ {b})
    BY <1>0
  <2>2. next \in T \ {b} /\ \A x \in T \ {b} : next <= x
    BY <1>2, <2>1, MinIsLeast
  <2> QED BY <1>2, <1>3, <2>2
<1>5. /\ job'.op = job.op /\ job'.slot = job.slot /\ job'.todo = T \ {b}
      /\ job'.start = job.start
  <2> DEFINE rest == T \ {b}
  <2> HIDE DEF rest
  <2>1. job' = [job EXCEPT !.todo = rest, !.k = @ + 1]
    BY <1>1 DEF rest
  <2>2. /\ job'.op = job.op /\ job'.slot = job.slot /\ job'.todo = rest
        /\ job'.start = job.start
    BY <2>1 DEF TypeOK, Jobs
  <2> QED BY <2>2 DEF rest
<1>6. \A x \in MapIndices : blockMap'[x] = IF x = b THEN next ELSE blockMap[x]
  BY <1>1 DEF TypeOK
<1>7. \A x \in T : blockMap[x] = Free
  BY <1>0, <1>1, <1>2 DEF UnwrittenFree, Unwritten
<1>8. next # Free /\ (next = Eof <=> T \ {b} = {})
  BY <1>0, <1>2, <1>3, <1>4 DEF Free, Eof
<1>9. \A x : \A d \in MapIndices :
        x \in HeldBy(d)' <=> x \in HeldBy(d) \/ (x = NotFound /\ d = b /\ b = job.start)
  <2>1. \A x : \A d \in MapIndices :
          Holds(x, d)' <=> Holds(x, d) \/ (x = NotFound /\ d = b /\ b = job.start)
    BY <1>0, <1>1, <1>3, <1>5 DEF Holds, CallHolds, InFlight, IsFile
  <2> QED BY <2>1, Holding
<1>10. \A x : \A d \in MapIndices :
         x \in LinkedFrom(d)' <=> x \in LinkedFrom(d) \/ (x = b /\ d = next)
  <2>1. \A x : \A d \in MapIndices :
          Links(x, d)' <=> Links(x, d) \/ (x = b /\ d = next)
    BY <1>2, <1>3, <1>6, <1>7, <1>8 DEF Links
  <2> QED BY <2>1, Holding
<1>11. /\ \A x \in T : HeldBy(x) = {} /\ job.start <= x
       /\ \A x \in T \ {b} : LinkedFrom(x) = {}
       /\ b = job.start => LinkedFrom(b) = {}
       /\ b # job.start => \E c \in MapIndices : LinkedFrom(b) = {c}
  <2>1. \A x \in T \ {b} : b < x
    BY <1>2, <1>3
  <2> QED BY <1>0, <1>1, <1>3, <2>1 DEF Allocated
<1>12. \A d \in MapIndices : d \notin T => OneOwner(d)
  BY <1>0, <1>1 DEF Owned, Unwritten
<1>13. ASSUME NEW d \in MapIndices, d \notin T \ {b} PROVE OneOwner(d)'
  <2>1. d # next
    BY <1>4, <1>8, <1>13, Ranges DEF Eof
  <2>2. \A x : x \in LinkedFrom(d)' <=> x \in LinkedFrom(d)
    BY <1>10, <2>1
  <2>3. CASE d # b
    <3>1. \A x : x \in HeldBy(d)' <=> x \in HeldBy(d)
      BY <1>9, <2>3
    <3> QED BY <1>6, <1>12, <1>13, <2>2, <2>3, <3>1 DEF OneOwner
  <2>4. CASE d = b
    <3>1. blockMap'[d] # Free
      BY <1>6, <1>8, <2>4
    <3>2. \A x : x \in HeldBy(d)' <=> x = NotFound /\ b = job.start
      BY <1>3, <1>9, <1>11, <2>4
    <3> QED BY <1>11, <2>2, <2>4, <3>1, <3>2 DEF OneOwner
  <2> QED BY <2>3, <2>4
<1>14. Owned'
  BY <1>1, <1>5, <1>13 DEF Owned, Unwritten
<1>15. Allocated'
  <2> SUFFICES ASSUME T \ {b} # {}
      PROVE /\ \A x \in T \ {b} : HeldBy(x)' = {} /\ job.start <= x
            /\ \A x \in T \ {b} : (\E y \in T \ {b} : y < x) \/ x = job.start
                                     => LinkedFrom(x)' = {}
            /\ \A x \in T \ {b} : (\A y \in T \ {b} : x <= y) /\ x # job.start =>
                  \E c \in MapIndices : LinkedFrom(x)' = {c}
    BY <1>1, <1>5 DEF Allocated
  <2>1. \A x \in T \ {b} : x \in MapIndices /\ x \in Nat /\ x # b
    BY <1>2
  <2>2. \A x \in T \ {b} : HeldBy(x)' = {} /\ job.start <= x
    BY <1>9, <1>11, <2>1
  <2>3. \A x \in T \ {b} : x # job.start
    BY <1>2, <1>3, <1>11, Ranges DEF TypeOK, Jobs
  <2>4. ASSUME NEW x \in T \ {b}, NEW y \in T \ {b}, y < x PROVE LinkedFrom(x)' = {}
    <3>1. x # next
      BY <1>4, <2>1, <2>4
    <3>2. \A z : z \notin LinkedFrom(x)'
      BY <1>10, <1>11, <2>1, <3>1
    <3> QED BY <3>2
  <2>5. ASSUME NEW x \in T \ {b}, \A y \in T \ {b} : x <= y PROVE LinkedFrom(x)' = {b}
    <3>1. x = next
      BY <1>4, <2>1, <2>5
    <3>2. \A z : z \in LinkedFrom(x)' <=> z = b
      BY <1>10, <1>11, <2>1, <3>1
    <3> QED BY <3>2
  <2> QED BY <1>2, <1>3, <2>2, <2>3, <2>4, <2>5
<1>16. NoLeak'
  <2> SUFFICES ASSUME NEW d \in MapIndices, blockMap'[d] # Free
               PROVE  HeldBy(d)' # {} \/ LinkedFrom(d)' # {}
    BY DEF NoLeak
  <2>1. CASE d = b
    <3>1. CASE b = job.start
      BY <1>9, <2>1, <3>1
    <3>2. CASE b # job.start
      BY <1>10, <1>11, <2>1, <3>2
    <3> QED BY <3>1, <3>2
  <2>2. CASE d # b
    <3>1. HeldBy(d) # {} \/ LinkedFrom(d) # {}
      BY <1>1, <1>6, <2>2 DEF NoLeak
    <3> QED BY <1>9, <1>10, <3>1
  <2> QED BY <2>1, <2>2
<1> QED BY <1>14, <1>15, <1>16

\* A format clears the table before the map: no block of the map is cleared while
\* an entry or a block before it still leads to it (71-110).
LEMMA FormatSectorBlocks ==
    ASSUME IInv, NamesInv, BlocksInv, FormatSector
    PROVE  BlocksInv'
<1> USE DEF IInv, BlocksInv
<1>0. PICK k : k = job.k
  OBVIOUS
<1>1. /\ k \in Nat /\ 1 <= k /\ FormatDone(k + 1)' /\ k < data_area_start
      /\ table'[RootSlot] = table[RootSlot]
      /\ \A i \in Indices : table'[i] = IF SectorOf(i) # k THEN table[i]
                                        ELSE IF i = Root THEN RootEntry ELSE FreeEntry
      /\ \A b \in MapIndices : blockMap'[b] = IF MapSector(b) # k THEN blockMap[b] ELSE Free
  BY <1>0, SectorCleared
<1>2. pc = "format" /\ pc' \in {"format", "idle"} /\ job.op = "format"
        /\ job'.op \in {"format", "none"}
        /\ (pc' = "format" \/ k + 1 = data_area_start)
  BY <1>0, <1>1, Regions DEF FormatSector, TypeOK, Return, NoJob, Jobs
<1>3. FormatDone(k)
  BY <1>0, <1>2 DEF NamesInv, Formatted
<1>4. Slots = Indices \cup {RootSlot} /\ ~IsFile(RootSlot)
  BY DEF Slots, NamesInv, Formatted, IsFile
<1>5. \A s \in Slots : IsFile(s)' => IsFile(s) /\ table'[s] = table[s]
  BY <1>1, <1>4, RootEntryFields DEF IsFile
<1>6. \A x, b : Holds(x, b)' => Holds(x, b)
  BY <1>2, <1>5 DEF Holds, CallHolds, InFlight
<1>7. \A x : \A b \in MapIndices : x \in LinkedFrom(b)' => x \in LinkedFrom(b)
  <2>1. \A c : \A b \in MapIndices : Links(c, b)' => Links(c, b)
    BY <1>1 DEF Links
  <2> QED BY <2>1, Holding
<1>8. ASSUME NEW b \in MapIndices, MapSector(b) = k
      PROVE  HeldBy(b)' = {} /\ LinkedFrom(b)' = {}
  <2>1. ASSUME NEW s \in Slots PROVE ~IsFile(s)'
    <3>1. CASE s = RootSlot
      BY <1>4, <1>5, <3>1
    <3>2. CASE s \in Indices
      <4>1. SectorOf(s) < k + 1
        BY <1>1, <1>8, <3>2, SectorBounds, Regions
      <4> QED BY <1>1, <3>2, <4>1, RootEntryFields DEF FormatDone, IsFile
    <3> QED BY <1>4, <3>1, <3>2
  <2>2. \A x : ~Holds(x, b)'
    BY <1>2, <2>1 DEF Holds, CallHolds
  <2>3. ASSUME NEW c, Links(c, b)' PROVE FALSE
    <3>1. c \in MapIndices /\ blockMap'[c] = b /\ blockMap'[c] # Free
      BY <2>3 DEF Links
    <3>2. blockMap[c] = b
      BY <1>1, <3>1
    <3>3. b > c
      BY <3>1, <3>2, Ranges DEF AscendingLinks, Eof
    <3>4. MapSector(c) <= MapSector(b)
      BY <3>1, <3>3, Ranges, SectorBounds
    <3>5. MapSector(c) < k + 1
      BY <1>1, <1>8, <3>1, <3>4, SectorBounds
    <3> QED BY <1>1, <3>1, <3>5 DEF FormatDone
  <2> QED BY <2>2, <2>3, Holding
<1>9. ASSUME NEW b \in MapIndices PROVE OneOwner(b)'
  <2>1. OneOwner(b)
    BY <1>2 DEF Owned, Unwritten
  <2>2. /\ \A x : x \in HeldBy(b)' => x \in HeldBy(b)
        /\ \A x : x \in LinkedFrom(b)' => x \in LinkedFrom(b)
    BY <1>6, <1>7, Holding
  <2>3. blockMap'[b] = Free => HeldBy(b)' = {} /\ LinkedFrom(b)' = {}
    BY <1>1, <1>8, <2>1, <2>2 DEF OneOwner
  <2> QED BY <2>1, <2>2, <2>3 DEF OneOwner
<1>10. Owned' /\ Allocated'
  BY <1>2, <1>9 DEF Owned, Allocated
<1>11. NoLeak'
  <2> SUFFICES ASSUME k + 1 = data_area_start, NEW b \in MapIndices
               PROVE  blockMap'[b] = Free
    BY <1>2 DEF NoLeak
  <2>1. MapSector(b) < k + 1
    BY SectorBounds
  <2> QED BY <1>1, <2>1 DEF FormatDone
<1> QED BY <1>10, <1>11

-----------------------------------------------------------------------------
(* The invariant, and what follows from it.                                 *)

\* Every step of such callers preserves it.
LEMMA FilesStep ==
    ASSUME PlainCallers, FInv, [FilesNext]_vars
    PROVE  FInv'
<1> USE DEF FInv
<1>1. CASE UNCHANGED vars
  <2>1. IInv'
    BY <1>1, NextIInv
  <2>2. NamesInv'
    BY <1>1 DEF vars, NamesInv, Formatted, FormatDone, Named, Working, UniqueNames,
       CwdIsDirectory, Live, IsFile, IsDir
  <2>3. \A b : HeldBy(b)' = HeldBy(b) /\ LinkedFrom(b)' = LinkedFrom(b)
    BY <1>1 DEF vars, HeldBy, LinkedFrom, Settled, IsFile, InFlight
  <2>4. BlocksInv'
    BY <1>1, <2>3 DEF vars, BlocksInv, Owned, OneOwner, Unwritten, Allocated, NoLeak
  <2> QED BY <2>1, <2>2, <2>4
<1>2. CASE FilesNext
  <2>1. IInv'
    BY <1>2, NextIInv DEF FilesNext, Next
  <2>2. CASE chainfs_init
    BY <1>2, <2>1, <2>2, InitCallNames, QuietBlocks
  <2>3. CASE chainfs_format
    BY <1>2, <2>1, <2>3, FormatNames, QuietBlocks
  <2>4. ASSUME NEW p \in DirPaths, chainfs_mkdir(p) PROVE FInv'
    BY <1>2, <2>1, <2>4, MkdirNames, QuietBlocks
  <2>5. ASSUME NEW p \in DirPaths, chainfs_chdir(p) PROVE FInv'
    BY <1>2, <2>1, <2>5, ChdirNames, QuietBlocks
  <2>6. ASSUME NEW p \in DirPaths, chainfs_rmdir(p) PROVE FInv'
    BY <1>2, <2>1, <2>6, RmdirNames, QuietBlocks
  <2>7. ASSUME NEW p \in FilePaths, chainfs_delete_file(p) PROVE FInv'
    <3>1. NamesInv'
      BY <2>7, DeleteNames
    <3>2. PICK s \in Indices : IsFile(s) /\ job' = [NoJob EXCEPT !.op = "delete", !.slot = s,
                                                                  !.cur = table[s].start]
      BY <2>7, DeleteNames
    <3>3. job'.op = "delete" /\ job'.slot = s /\ job'.cur = table[s].start /\ s \in Slots
      BY <3>2 DEF NoJob, Slots
    <3>4. pc = "idle" /\ pc' = "free" /\ UNCHANGED <<table, blockMap>>
      BY <2>7 DEF chainfs_delete_file, disk
    <3>5. BlocksInv'
      BY <3>2, <3>3, <3>4, TakenOver
    <3> QED BY <2>1, <3>1, <3>5
  <2>8. ASSUME NEW p \in FilePaths, NEW z \in Sizes, NEW g \in Tags, chainfs_write_file(p, z, g)
        PROVE FInv'
    <3>1. z \in Nat
      BY CallerAssumption
    <3>2. NamesInv' /\ \E s \in Indices : Begun(s)
      BY <2>8, <3>1, WriteNames
    <3>3. PICK s \in Indices : Begun(s)
      BY <3>2
    <3>4. pc = "idle" /\ pc' = "free" /\ UNCHANGED <<table, blockMap>>
      BY <2>8 DEF chainfs_write_file, disk
    <3>5. job'.op = "write" /\ job'.slot = s /\ s \in Slots
            /\ \/ IsFile(s) /\ job'.cur = table[s].start
               \/ ~IsFile(s) /\ job'.cur = Eof
      BY <3>3 DEF Begun, Slots, Live, IsFile
    <3>6. BlocksInv'
      BY <3>4, <3>5, TakenOver
    <3> QED BY <2>1, <3>2, <3>6
  <2>9. CASE FormatSector
    BY <2>1, <2>9, FormatSectorNames, FormatSectorBlocks
  <2>10. CASE chainfs_free_block_chain
    BY <2>1, <2>10, MiddleNames, FreeBlocks
  <2>11. CASE chainfs_find_free_blocks
    BY <2>1, <2>11, MiddleNames, FindFreeBlocks
  <2>12. CASE GiveUp
    BY <1>2, <2>1, <2>12, MiddleNames, QuietBlocks
  <2>13. CASE WriteDataBlock
    BY <2>1, <2>13, MiddleNames, WriteDataBlocks
  <2>14. CASE LinkBlock
    BY <2>1, <2>14, MiddleNames, LinkBlocks
  <2>15. CASE CommitEntry
    BY <2>1, <2>15, CommitNames, CommitBlocks
  <2>16. CASE Unlink
    BY <1>2, <2>1, <2>16, UnlinkNames, QuietBlocks
  <2> QED BY <1>2, <2>2, <2>3, <2>4, <2>5, <2>6, <2>7, <2>8, <2>9, <2>10, <2>11, <2>12,
             <2>13, <2>14, <2>15, <2>16 DEF FilesNext, Call, Step
<1> QED BY <1>1, <1>2

\* It holds in every state they can reach.
THEOREM FilesInductive == PlainCallers /\ FilesSpec => []FInv
<1>1. Init => FInv
  BY InitIInv, InitNames, InitBlocks DEF FInv
<1>2. PlainCallers /\ FInv /\ [FilesNext]_vars => FInv'
  BY FilesStep
<1>3. PlainCallers => PlainCallers'
  BY DEF PlainCallers, FileNames, DirNames, LastName
<1> QED BY <1>1, <1>2, <1>3, PTL DEF FilesSpec

\* No directory ever has two entries of one name (269, 608).
THEOREM NamesUnique == PlainCallers /\ FilesSpec => []UniqueNames
<1>1. FInv => UniqueNames
  BY DEF FInv, NamesInv
<1> QED BY <1>1, FilesInductive, PTL

\* The current directory stays a directory (660, 785-787).
THEOREM CwdStaysDirectory == PlainCallers /\ FilesSpec => []CwdIsDirectory
<1>1. FInv => CwdIsDirectory
  BY DEF FInv, NamesInv
<1> QED BY <1>1, FilesInductive, PTL

\* Freeing a chain and allocating blocks lose none (205-217).
THEOREM NothingLeaks == PlainCallers /\ FilesSpec => []NoLeak
<1>1. FInv => NoLeak
  BY DEF FInv, BlocksInv
<1> QED BY <1>1, FilesInductive, PTL

\* A set whose elements are all equal has at most one.
LEMMA AtMostOne ==
    ASSUME NEW S, \A x, y \in S : x = y
    PROVE  Cardinality(S) \in {0, 1} /\ (S = {} => Cardinality(S) = 0)
<1>1. CASE S = {}
  BY <1>1, FS_EmptySet
<1>2. CASE S # {}
  <2>1. PICK x : S = {x}
    BY <1>2
  <2> QED BY <1>2, <2>1, FS_Singleton
<1> QED BY <1>1, <1>2

\* A block that the map calls used has one owner, and a free one has none,
\* whatever was written, rewritten, deleted or formatted before (318-319, 343-375).
THEOREM BlocksNotShared == PlainCallers /\ FilesSpec => []NoSharing
<1>1. FInv => NoSharing
  <2> SUFFICES ASSUME FInv, NEW b \in MapIndices, ~Unwritten(b)
               PROVE  Cardinality(HeldBy(b)) + Cardinality(LinkedFrom(b))
                        <= IF blockMap[b] = Free THEN 0 ELSE 1
    BY DEF NoSharing
  <2>1. OneOwner(b)
    BY DEF FInv, BlocksInv, Owned
  <2>2. /\ Cardinality(HeldBy(b)) \in {0, 1} /\ (HeldBy(b) = {} => Cardinality(HeldBy(b)) = 0)
        /\ Cardinality(LinkedFrom(b)) \in {0, 1}
        /\ (LinkedFrom(b) = {} => Cardinality(LinkedFrom(b)) = 0)
    BY <2>1, AtMostOne DEF OneOwner
  <2> QED BY <2>1, <2>2 DEF OneOwner
<1> QED BY <1>1, FilesInductive, PTL

\* What FindMeans says of a lookup, for the state after a step.
Finds(d, n) ==
    LET f == chainfs_find_in_directory(d, n)
    IN  IF f = NotFound
          THEN \A i \in Scanned : Live(i) => table[i].parent # d \/ table[i].name # n
          ELSE f \in Scanned /\ Live(f) /\ table[f].parent = d /\ table[f].name = n

\* It holds in every state of the right types.
LEMMA FindsNow == \A d, n : TypeOK => Finds(d, n)
BY FindMeans DEF Finds

\* So it does after every step.
LEMMA FindsNext == (\A d, n : TypeOK => Finds(d, n))'
BY FindsNow, PTL

\* After CommitEntry the one entry that has the name is the one written.
LEMMA WrittenIsFoundStep ==
    PlainCallers /\ FInv /\ FInv' /\ [FilesNext]_vars =>
      [\A d \in ParentIds, n \in Names, s \in Indices :
         pc = "commit" /\ mounted' /\ job.parent = d /\ job.name = n /\ job.slot = s =>
           (chainfs_find_in_directory(d, n) = s)']_vars
<1> SUFFICES ASSUME PlainCallers, FInv, FInv', FilesNext,
                    NEW d \in ParentIds, NEW n \in Names, NEW s \in Indices,
                    pc = "commit", mounted', job.parent = d, job.name = n, job.slot = s
             PROVE  chainfs_find_in_directory(d, n)' = s
  BY DEF vars
<1> USE DEF FInv, IInv, NamesInv
<1>1. CommitEntry
  BY DEF FilesNext, Call, Step, chainfs_init, chainfs_format, chainfs_mkdir,
         chainfs_chdir, chainfs_rmdir, chainfs_write_file, chainfs_delete_file,
         FormatSector, chainfs_free_block_chain, chainfs_find_free_blocks,
         GiveUp, WriteDataBlock, LinkBlock, Unlink
<1>2. n \in FileNames /\ Kept[n] = n /\ n # NoName
  BY CallerAssumption DEF TypeOK, Working, PlainCallers
<1> DEFINE e == [kind |-> "file", size |-> job.size, start |-> job.start, parent |-> job.parent,
                 name |-> IF job.name = NoName THEN NoName ELSE Kept[job.name]]
<1>3. table' = [table EXCEPT ![s] = e]
  BY <1>1 DEF CommitEntry
<1>4. e.kind = "file" /\ e.parent = d /\ e.name = n
  BY <1>2
<1> HIDE DEF e
<1>5. Live(s)' /\ table'[s].parent = d /\ table'[s].name = n
  BY <1>3, <1>4 DEF TypeOK, Slots, Live
<1>6. Finds(d, n)'
  BY FindsNext
<1>7. Scanned' = Indices
  BY DEF Scanned
<1> QED BY <1>5, <1>6, <1>7 DEF Finds, UniqueNames

\* A file that was just written is found under its name (377-399, 488-505). It is
\* long_names that shows why callers have to keep to names of at most 31 bytes.
THEOREM WrittenFound == PlainCallers /\ FilesSpec => WrittenIsFound
<1>1. PlainCallers => PlainCallers'
  BY DEF PlainCallers, FileNames, DirNames, LastName
<1> QED BY <1>1, FilesInductive, WrittenIsFoundStep, PTL DEF FilesSpec, WrittenIsFound

-----------------------------------------------------------------------------
(* Files are whole. own says of each block whose chain it is part of.       *)

Nobody == -3
Owners == [MapIndices -> Slots \cup {NotFound, Nobody}]

\* Block b is one of the m blocks of o, which start at h: it is used, it comes
\* after another block of o or first, and leads to the next one or ends the chain.
Part(own, b, o, h, m) ==
    /\ b \in DataBlocks /\ blockMap[b] # Free /\ data[b].k < m
    /\ b = h \/ \E c \in MapIndices : own[c] = o /\ blockMap[c] = b
NextPart(own, b, o, m) ==
    IF blockMap[b] = Eof THEN data[b].k + 1 = m
    ELSE /\ own[blockMap[b]] = o
         /\ data[blockMap[b]] = [tag |-> data[b].tag, k |-> data[b].k + 1]

\* The chain of a file, and those of all files that no call works on.
FileChain(own, s) ==
    /\ own[table[s].start] = s /\ data[table[s].start].k = 0
    /\ \A b \in MapIndices : own[b] = s =>
          /\ Part(own, b, s, table[s].start, BlocksNeeded(table[s].size))
          /\ NextPart(own, b, s, BlocksNeeded(table[s].size))
FileChains(own) == \A s \in Settled : FileChain(own, s)

\* At every step along a file the walk is at a block of the file's own.
LEMMA WalkInFile ==
    ASSUME TypeOK, NEW own, FileChains(own), NEW s \in Settled, NEW n, NEW w,
           n = BlocksNeeded(table[s].size), w = Walk(table[s].start, n)
    PROVE  /\ n \in Nat \ {0} /\ w[n] = Eof
           /\ \A k \in 0 .. n - 1 : /\ w[k] \in DataBlocks /\ own[w[k]] = s
                                    /\ data[w[k]] = [tag |-> data[w[0]].tag, k |-> k]
<1> DEFINE c == table[s].start
           Fine(k) == /\ w[k] \in DataBlocks /\ own[w[k]] = s
                      /\ data[w[k]] = [tag |-> data[w[0]].tag, k |-> k]
           Bad == {k \in 0 .. n - 1 : ~Fine(k)}
<1>1. s \in Slots /\ table[s] \in Entries /\ c \in MapIndices /\ n \in Nat \ {0}
  BY BlocksNeededPositive DEF Settled, TypeOK, Entries
<1>2. w[0] = c /\ \A k \in 1 .. n : w[k] = After(w[k-1])
  BY <1>1, WalkSteps
<1>3. \A b \in MapIndices : own[b] = s =>
        /\ b \in DataBlocks /\ blockMap[b] # Free /\ data[b].k < n
        /\ NextPart(own, b, s, n)
  BY <1>1 DEF FileChains, FileChain, Part
<1>4. \A b \in DataBlocks : data[b] = [tag |-> data[b].tag, k |-> data[b].k] /\ data[b].k \in Nat
  BY DEF TypeOK, Chunks
<1>5. Fine(0)
  <2>1. own[c] = s /\ data[c].k = 0
    BY DEF FileChains, FileChain
  <2>2. c \in DataBlocks
    BY <1>1, <1>3, <2>1
  <2> QED BY <1>2, <1>4, <2>1, <2>2
<1>6. ASSUME NEW k \in 0 .. n - 1, k + 1 \in 0 .. n - 1, Fine(k)
      PROVE  Fine(k + 1)
  <2>0. k + 1 \in 1 .. n /\ (k + 1) - 1 = k
    BY <1>1
  <2>1. w[k+1] = After(w[k]) /\ w[k] \in MapIndices
    <3>1. w[k+1] = After(w[(k+1) - 1])
      BY <1>2, <2>0
    <3> QED BY <1>6, <2>0, <3>1, Ranges
  <2>2. w[k+1] = blockMap[w[k]]
    BY <2>1 DEF After, Onward
  <2>3. data[w[k]].k = k /\ data[w[k]].tag = data[w[0]].tag /\ k + 1 # n
    BY <1>1, <1>6
  <2>4. blockMap[w[k]] # Eof
    BY <1>3, <1>6, <2>1, <2>3 DEF NextPart
  <2>5. own[w[k+1]] = s /\ data[w[k+1]] = [tag |-> data[w[0]].tag, k |-> k + 1]
    BY <1>3, <1>6, <2>1, <2>2, <2>3, <2>4 DEF NextPart
  <2>6. w[k+1] \in MapIndices
    BY <2>1, <2>2, <2>4 DEF TypeOK
  <2>7. w[k+1] \in DataBlocks
    BY <1>3, <2>5, <2>6
  <2> QED BY <2>5, <2>7
<1>7. Bad = {}
  <2> SUFFICES ASSUME Bad # {} PROVE FALSE
    OBVIOUS
  <2> DEFINE m == Min(Bad)
  <2>1. Bad \subseteq Nat
    BY <1>1
  <2>2. m \in Bad /\ \A x \in Bad : m <= x
    BY <2>1, MinIsLeast
  <2> HIDE DEF m, Fine
  <2>3. m \in 0 .. n - 1 /\ ~Fine(m)
    BY <2>2
  <2>4. m # 0
    BY <1>5, <2>3
  <2>5. m - 1 \in 0 .. n - 1 /\ m - 1 \notin Bad
    BY <1>1, <2>2, <2>3, <2>4
  <2>6. Fine(m - 1)
    BY <2>5
  <2>7. (m - 1) + 1 = m
    BY <2>3
  <2> QED BY <1>6, <2>3, <2>5, <2>6, <2>7
<1>8. w[n] = Eof
  <2>1. n - 1 \in 0 .. n - 1 /\ n \in 1 .. n
    BY <1>1
  <2>2. Fine(n - 1)
    BY <1>7, <2>1
  <2>3. w[n] = After(w[n-1]) /\ w[n-1] \in MapIndices
    BY <1>2, <2>1, <2>2, Ranges
  <2>4. w[n] = blockMap[w[n-1]]
    BY <2>3 DEF After, Onward
  <2> SUFFICES ASSUME w[n] # Eof PROVE FALSE
    OBVIOUS
  <2>7. own[w[n-1]] = s /\ data[w[n-1]].k = n - 1
    BY <2>2
  <2>8. own[w[n]] = s /\ data[w[n]] = [tag |-> data[w[n-1]].tag, k |-> data[w[n-1]].k + 1]
    <3> HIDE DEF Fine, Bad
    <3> QED BY <1>3, <2>3, <2>4, <2>7 DEF NextPart
  <2>5. own[w[n]] = s /\ data[w[n]].k = n
    BY <1>1, <2>7, <2>8
  <2>6. w[n] \in MapIndices
    BY <2>3, <2>4 DEF TypeOK
  <2> QED BY <1>1, <1>3, <2>5, <2>6
<1> QED BY <1>1, <1>7, <1>8

\* So every file reads back whole, and no two share a block.
LEMMA FilesWhole ==
    ASSUME TypeOK, NEW own, FileChains(own)
    PROVE  FilesIntact /\ FilesDisjoint
<1>1. FilesIntact
  <2> SUFFICES ASSUME NEW s \in Settled
      PROVE LET n  == BlocksNeeded(table[s].size)
                at == Walk(table[s].start, n)
            IN  /\ at[n] = Eof
                /\ \A k \in 0 .. n - 1 :
                      /\ at[k] \in DataBlocks
                      /\ data[at[k]] = [tag |-> data[at[0]].tag, k |-> k]
    BY DEF FilesIntact
  <2> QED BY WalkInFile
<1>2. \A s \in Settled : \A b \in BlocksOf(s) : own[b] = s
  <2> SUFFICES ASSUME NEW s \in Settled, NEW b \in BlocksOf(s) PROVE own[b] = s
    OBVIOUS
  <2>0. PICK n, w : n = BlocksNeeded(table[s].size) /\ w = Walk(table[s].start, n)
    OBVIOUS
  <2>1. b \in {w[k] : k \in 0 .. n - 1}
    BY <2>0 DEF BlocksOf
  <2>2. \A k \in 0 .. n - 1 : /\ w[k] \in DataBlocks /\ own[w[k]] = s
                               /\ data[w[k]] = [tag |-> data[w[0]].tag, k |-> k]
    BY ONLY TypeOK, FileChains(own), s \in Settled, <2>0, WalkInFile
  <2>3. PICK k \in 0 .. n - 1 : b = w[k]
    BY ONLY <2>1
  <2> QED BY <2>2, <2>3
<1>3. FilesDisjoint
  BY <1>2 DEF FilesDisjoint
<1> QED BY <1>1, <1>3

\* The step leaves the blocks of the file s alone.
LeavesAlone(own, new, s) ==
    /\ table'[s].start = table[s].start /\ table'[s].size = table[s].size
    /\ \A b \in MapIndices : new[b] = s <=> own[b] = s
    /\ \A b \in MapIndices : own[b] = s =>
          blockMap'[b] = blockMap[b] /\ (b \in DataBlocks => data'[b] = data[b])

\* Then it keeps its chain.
LEMMA ChainKept ==
    ASSUME TypeOK, NEW own, NEW new, NEW s \in Slots, FileChain(own, s), LeavesAlone(own, new, s)
    PROVE  FileChain(new, s)'
<1> DEFINE h == table[s].start
           m == BlocksNeeded(table[s].size)
<1>1. h \in MapIndices /\ table'[s].start = h /\ BlocksNeeded(table'[s].size) = m
  BY DEF LeavesAlone, TypeOK, Entries
<1>2. \A b \in MapIndices : own[b] = s =>
        /\ Part(own, b, s, h, m) /\ NextPart(own, b, s, m)
        /\ blockMap'[b] = blockMap[b] /\ data'[b] = data[b] /\ new[b] = s
  BY <1>1 DEF FileChain, LeavesAlone, Part
<1>3. new[h] = s /\ data'[h].k = 0
  BY <1>1, <1>2 DEF FileChain
<1> HIDE DEF h, m
<1>4. ASSUME NEW b \in MapIndices, new[b] = s
      PROVE  /\ b \in DataBlocks /\ blockMap'[b] # Free /\ data'[b].k < m
             /\ b = h \/ \E c \in MapIndices : new[c] = s /\ blockMap'[c] = b
             /\ IF blockMap'[b] = Eof THEN data'[b].k + 1 = m
                ELSE /\ new[blockMap'[b]] = s
                     /\ data'[blockMap'[b]] = [tag |-> data'[b].tag, k |-> data'[b].k + 1]
  <2>1. own[b] = s
    BY <1>4 DEF LeavesAlone
  <2>2. b \in DataBlocks /\ blockMap'[b] # Free /\ data'[b].k < m
    BY <1>2, <2>1 DEF Part
  <2>3. b = h \/ \E c \in MapIndices : new[c] = s /\ blockMap'[c] = b
    BY <1>2, <2>1 DEF Part
  <2>4. CASE blockMap[b] = Eof
    BY <1>2, <2>1, <2>2, <2>3, <2>4 DEF NextPart
  <2>5. CASE blockMap[b] # Eof
    <3>1. blockMap[b] \in MapIndices
      BY <2>5 DEF TypeOK
    <3>2. own[blockMap[b]] = s /\ data[blockMap[b]] = [tag |-> data[b].tag, k |-> data[b].k + 1]
      BY <1>2, <2>1, <2>5 DEF NextPart
    <3> QED BY <1>2, <2>1, <2>2, <2>3, <2>5, <3>1, <3>2
  <2> QED BY <2>4, <2>5
<1> QED BY <1>1, <1>3, <1>4 DEF FileChain, Part, NextPart, h, m

\* It leaves all of them alone that no call works on afterwards.
LeftAlone(own, new) == \A s \in Settled' : s \in Settled /\ LeavesAlone(own, new, s)

\* Then it keeps all their chains.
LEMMA ChainsKept ==
    ASSUME TypeOK, NEW own, NEW new, FileChains(own), LeftAlone(own, new)
    PROVE  FileChains(new)'
<1> SUFFICES ASSUME NEW s \in Settled' PROVE FileChain(new, s)'
  BY DEF FileChains
<1>1. s \in Settled /\ s \in Slots /\ FileChain(own, s) /\ LeavesAlone(own, new, s)
  BY DEF FileChains, LeftAlone, Settled
<1> QED BY <1>1, ChainKept

\* The chain of the write in progress, as far as it is linked: the rest of the
\* blocks are still to come, and the last one linked leads to the next of them.
Writing == pc \in {"data", "link", "commit"}
CallChain(own) ==
    /\ pc = "free" => job.k = 0
    /\ ~Writing => \A b \in MapIndices : own[b] # NotFound
    /\ Writing =>
        /\ job.k + Cardinality(job.todo) = BlocksNeeded(job.size)
        /\ job.k = 0 <=> job.start \in job.todo
        /\ \A x \in job.todo : job.start <= x
        /\ pc = "commit" => job.todo = {}
        /\ job.start \notin job.todo => /\ own[job.start] = NotFound /\ data[job.start].k = 0
                                        /\ job.todo # {} => \E c \in MapIndices :
                                              own[c] = NotFound /\ blockMap[c] \in job.todo
        /\ \A b \in MapIndices : own[b] = NotFound =>
              /\ b \notin job.todo /\ data[b].tag = job.tag
              /\ Part(own, b, NotFound, job.start, BlocksNeeded(job.size))
              /\ IF blockMap[b] \in job.todo
                   THEN (\A x \in job.todo : blockMap[b] <= x) /\ data[b].k + 1 = job.k
                   ELSE NextPart(own, b, NotFound, BlocksNeeded(job.size))
        /\ pc = "link" => data[Min(job.todo)] = [tag |-> job.tag, k |-> job.k]

Chained == \E own \in Owners : FileChains(own) /\ CallChain(own)

\* A step that changes no block and ends outside of a write.
LEMMA ChainsQuiet ==
    ASSUME TypeOK, Chained, UNCHANGED <<blockMap, data>>, ~Writing', pc' = "free" => job'.k = 0,
           \A s \in Settled' : /\ s \in Settled
                               /\ table'[s].start = table[s].start /\ table'[s].size = table[s].size
    PROVE  Chained'
<1>1. PICK own \in Owners : FileChains(own) /\ CallChain(own)
  BY DEF Chained
<1> DEFINE new == [b \in MapIndices |-> IF own[b] = NotFound THEN Nobody ELSE own[b]]
<1>2. new \in Owners
  BY DEF Owners
<1>3. \A b \in MapIndices : new[b] # NotFound
  BY DEF NotFound, Nobody
<1>4. \A s \in Settled' : s \in Slots /\ s # NotFound /\ s # Nobody
  BY Ranges DEF Settled, Slots, RootSlot, NotFound, Nobody
<1>5. \A s \in Settled', b \in MapIndices : new[b] = s <=> own[b] = s
  BY <1>4
<1> HIDE DEF new
<1>6. LeftAlone(own, new)
  BY <1>5 DEF LeftAlone, LeavesAlone
<1>7. FileChains(new)'
  BY <1>1, <1>6, ChainsKept
<1>8. CallChain(new)'
  BY <1>3 DEF CallChain
<1> QED BY <1>2, <1>7, <1>8 DEF Chained

\* A step that changes only blocks that are marked free is no concern of a file.
LEMMA FreeNotOwned ==
    ASSUME NEW own, FileChains(own), NEW s \in Settled, NEW b \in MapIndices, blockMap[b] = Free
    PROVE  own[b] # s
BY DEF FileChains, FileChain, Part

\* chainfs_find_free_blocks starts a chain (187-203).
LEMMA ChainsFound == ASSUME IInv, Chained, chainfs_find_free_blocks PROVE Chained'
<1> USE DEF IInv
<1>1. PICK own \in Owners : FileChains(own) /\ CallChain(own)
  BY DEF Chained
<1>2. PICK A \in SUBSET FreeDataBlocks :
        /\ Cardinality(A) = BlocksNeeded(job.size)
        /\ job' = [job EXCEPT !.cur = Eof, !.todo = A, !.start = Min(A)]
  BY DEF chainfs_find_free_blocks
<1>3. pc = "free" /\ job.op = "write" /\ pc' = "data" /\ UNCHANGED <<table, blockMap, data>>
  BY DEF chainfs_find_free_blocks, disk
<1>4. A # {} /\ A \subseteq Nat /\ BlocksNeeded(job.size) \in Nat
  <2>1. BlocksNeeded(job.size) \in Nat \ {0}
    BY BlocksNeededPositive DEF TypeOK, Jobs
  <2> QED BY <1>2, <2>1, FS_EmptySet, Ranges DEF FreeDataBlocks
<1>5. Min(A) \in A /\ \A b \in A : Min(A) <= b
  BY <1>4, MinIsLeast
<1>6. /\ job'.op = job.op /\ job'.slot = job.slot /\ job'.todo = A /\ job'.start = Min(A)
      /\ job'.k = job.k /\ job'.size = job.size
  BY <1>2 DEF TypeOK, Jobs
<1>7. Settled' = Settled
  BY <1>3, <1>6 DEF Settled, IsFile, InFlight
<1>8. FileChains(own)'
  BY <1>1, <1>3, <1>7, ChainsKept DEF LeftAlone, LeavesAlone
<1>9. job.k = 0 /\ \A b \in MapIndices : own[b] # NotFound
  BY <1>1, <1>3 DEF CallChain, Writing
<1>10. CallChain(own)'
  BY <1>2, <1>3, <1>4, <1>5, <1>6, <1>9 DEF CallChain, Writing
<1> QED BY <1>1, <1>8, <1>10 DEF Chained

\* WriteDataBlock writes a block that is part of no chain yet (363-367).
LEMMA ChainsWritten == ASSUME IInv, Chained, WriteDataBlock PROVE Chained'
<1> USE DEF IInv
<1>1. PICK own \in Owners : FileChains(own) /\ CallChain(own)
  BY DEF Chained
<1>2. PICK b : b = Min(job.todo)
  OBVIOUS
<1>3. /\ pc = "data" /\ pc' = "link" /\ UNCHANGED <<table, blockMap, job>>
      /\ data' = [data EXCEPT ![b] = [tag |-> job.tag, k |-> job.k]]
  BY <1>2 DEF WriteDataBlock
<1>4. b \in job.todo /\ job.todo \subseteq DataBlocks
  <2>1. job.todo \subseteq DataBlocks /\ job.todo # {} /\ job.todo \subseteq Nat
    BY <1>3, Ranges DEF TypeOK, Jobs
  <2> QED BY <1>2, <2>1, MinIsLeast
<1>5. /\ data'[b] = [tag |-> job.tag, k |-> job.k]
      /\ \A x \in DataBlocks : x # b => data'[x] = data[x]
  BY <1>3, <1>4 DEF TypeOK
<1>6. b \in MapIndices /\ blockMap[b] = Free
  BY <1>3, <1>4, Ranges DEF UnwrittenFree, Unwritten
<1>7. Settled' = Settled
  BY <1>3 DEF Settled, IsFile, InFlight
<1>8. LeftAlone(own, own)
  BY <1>1, <1>3, <1>5, <1>6, <1>7, FreeNotOwned DEF LeftAlone, LeavesAlone
<1>9. FileChains(own)'
  BY <1>1, <1>8, ChainsKept
<1>10. \A x \in MapIndices : own[x] = NotFound => x # b /\ x \in DataBlocks /\ data'[x] = data[x]
  BY <1>1, <1>3, <1>5, <1>6 DEF CallChain, Part, Writing
<1> DEFINE m == BlocksNeeded(job.size)
<1>11. ASSUME NEW x \in MapIndices, own[x] = NotFound
       PROVE  /\ x \notin job.todo /\ data'[x].tag = job.tag
              /\ Part(own, x, NotFound, job.start, m)'
              /\ IF blockMap[x] \in job.todo
                   THEN (\A y \in job.todo : blockMap[x] <= y) /\ data'[x].k + 1 = job.k
                   ELSE NextPart(own, x, NotFound, m)'
  <2>1. /\ x \notin job.todo /\ data[x].tag = job.tag
        /\ Part(own, x, NotFound, job.start, m)
        /\ IF blockMap[x] \in job.todo
             THEN (\A y \in job.todo : blockMap[x] <= y) /\ data[x].k + 1 = job.k
             ELSE NextPart(own, x, NotFound, m)
    BY <1>1, <1>3, <1>11 DEF CallChain, Writing
  <2>2. Part(own, x, NotFound, job.start, m)'
    BY <1>3, <1>10, <1>11, <2>1 DEF Part
  <2>3. blockMap[x] \notin job.todo => NextPart(own, x, NotFound, m)'
    <3>1. blockMap[x] \in MapIndices \cup {Eof}
      BY DEF TypeOK
    <3> QED BY <1>3, <1>10, <1>11, <2>1, <3>1 DEF NextPart
  <2> QED BY <1>10, <1>11, <2>1, <2>2, <2>3
<1>12. job.start \in MapIndices
  BY DEF TypeOK, Jobs
<1> HIDE DEF m
<1>13. CallChain(own)'
  BY <1>1, <1>2, <1>3, <1>5, <1>10, <1>11, <1>12 DEF CallChain, Writing, m
<1> QED BY <1>1, <1>9, <1>13 DEF Chained

\* LinkBlock adds the block to the chain that is being written (349-375).
LEMMA ChainsLinked == ASSUME IInv, Chained, LinkBlock PROVE Chained'
<1> USE DEF IInv
<1>0. PICK own \in Owners : FileChains(own) /\ CallChain(own)
  BY DEF Chained
<1>1. PICK T, b, next : /\ T = job.todo /\ b = Min(T)
                        /\ next = IF T \ {b} = {} THEN Eof ELSE Min(T \ {b})
  OBVIOUS
<1>2. /\ pc = "link" /\ UNCHANGED <<table, data>>
      /\ blockMap' = [blockMap EXCEPT ![b] = next]
      /\ job' = [job EXCEPT !.todo = T \ {b}, !.k = @ + 1]
      /\ pc' = IF T \ {b} = {} THEN "commit" ELSE "data"
  BY <1>1 DEF LinkBlock
<1>3. T # {} /\ T \subseteq DataBlocks /\ T \subseteq MapIndices /\ T \subseteq Nat
  BY <1>1, <1>2, Ranges DEF TypeOK, Jobs
<1>4. b \in T /\ \A x \in T : b <= x
  BY <1>1, <1>3, MinIsLeast
<1>5. T \ {b} # {} => next \in T \ {b} /\ \A x \in T \ {b} : next <= x
  <2> SUFFICES ASSUME T \ {b} # {}
               PROVE  next \in T \ {b} /\ \A x \in T \ {b} : next <= x
    OBVIOUS
  <2>1. next = Min(T \ {b})
    BY <1>1
  <2> QED BY <1>3, <2>1, MinIsLeast
<1>6. T \ {b} = {} => next = Eof
  BY <1>1
<1> DEFINE rest == T \ {b}
<1> HIDE DEF rest
<1>7. /\ job'.op = job.op /\ job'.slot = job.slot /\ job'.todo = rest /\ job'.size = job.size
      /\ job'.start = job.start /\ job'.k = job.k + 1 /\ job'.tag = job.tag /\ job.k \in Nat
  <2>1. job' = [job EXCEPT !.todo = rest, !.k = @ + 1]
    BY <1>2 DEF rest
  <2> QED BY <2>1 DEF TypeOK, Jobs
<1>8. \A x \in MapIndices : blockMap'[x] = IF x = b THEN next ELSE blockMap[x]
  BY <1>2 DEF TypeOK
<1>9. \A x \in T : x \in MapIndices /\ blockMap[x] = Free
  BY <1>1, <1>2, <1>3 DEF UnwrittenFree, Unwritten
<1>10. next # Free /\ (next = Eof <=> T \ {b} = {})
  BY <1>3, <1>4, <1>5, <1>6 DEF Free, Eof
<1> DEFINE new == [own EXCEPT ![b] = NotFound]
<1>11. new \in Owners /\ \A x \in MapIndices : new[x] = IF x = b THEN NotFound ELSE own[x]
  BY DEF Owners
<1> HIDE DEF new
<1>12. Settled' = Settled
  BY <1>2, <1>7 DEF Settled, IsFile, InFlight
<1>13. LeftAlone(own, new)
  <2>2. b \in MapIndices /\ blockMap[b] = Free
    BY <1>4, <1>9
  <2>3. \A s \in Settled : own[b] # s
    BY <1>0, <2>2, FreeNotOwned
  <2>4. \A s \in Settled : s # NotFound
    BY Ranges DEF Settled, Slots, RootSlot, NotFound
  <2>1. \A s \in Settled' : s \in Settled /\ s # NotFound /\ own[b] # s
    BY <1>12, <2>3, <2>4
  <2> QED BY <1>2, <1>8, <1>11, <2>1 DEF LeftAlone, LeavesAlone
<1>14. FileChains(new)'
  BY <1>0, <1>13, ChainsKept
<1> DEFINE m == BlocksNeeded(job.size)
<1>15. job'.k + Cardinality(rest) = m
  <2>1. IsFiniteSet(T)
    <3>1. IsFiniteSet(DataBlocks)
      BY FS_Interval, Regions DEF DataBlocks
    <3> QED BY <1>3, <3>1, FS_Subset
  <2>2. Cardinality(rest) = Cardinality(T) - 1 /\ Cardinality(T) \in Nat
    BY <1>4, <2>1, FS_RemoveElement, FS_CardinalityType DEF rest
  <2>3. job.k + Cardinality(T) = m
    BY <1>0, <1>1, <1>2 DEF CallChain, Writing
  <2> HIDE DEF m
  <2> QED BY <1>7, <2>2, <2>3
<1>16. /\ job.k = 0 <=> job.start \in T
       /\ \A x \in T : job.start <= x
       /\ job.start \notin T => /\ own[job.start] = NotFound /\ data[job.start].k = 0
                                /\ \E c \in MapIndices : own[c] = NotFound /\ blockMap[c] \in T
       /\ \A x \in MapIndices : own[x] = NotFound =>
             /\ x \notin T /\ data[x].tag = job.tag
             /\ Part(own, x, NotFound, job.start, m)
             /\ IF blockMap[x] \in T
                  THEN (\A y \in T : blockMap[x] <= y) /\ data[x].k + 1 = job.k
                  ELSE NextPart(own, x, NotFound, m)
       /\ data[b] = [tag |-> job.tag, k |-> job.k]
  <2> HIDE DEF m
  <2> QED BY <1>0, <1>1, <1>2, <1>3 DEF CallChain, Writing, m
<1>17. m \in Nat \ {0} /\ job.k < m
  <2>1. m \in Nat \ {0}
    BY BlocksNeededPositive DEF TypeOK, Jobs
  <2>2. IsFiniteSet(rest)
    <3>1. IsFiniteSet(DataBlocks)
      BY FS_Interval, Regions DEF DataBlocks
    <3> QED BY <1>3, <3>1, FS_Subset DEF rest
  <2>3. Cardinality(rest) \in Nat
    BY <2>2, FS_CardinalityType
  <2> HIDE DEF m
  <2> QED BY <1>7, <1>15, <2>1, <2>3
<1> HIDE DEF m
<1>18. job.start \in T => job.start = b
  <2> SUFFICES ASSUME job.start \in T PROVE job.start = b
    OBVIOUS
  <2>1. job.start <= b /\ b <= job.start
    BY <1>4, <1>16
  <2>2. job.start \in Nat /\ b \in Nat
    BY <1>3, <1>4
  <2> QED BY <2>1, <2>2
<1>19. new[job.start] = NotFound /\ data[job.start].k = 0 /\ job.start \notin rest
  <2>1. job.start \in MapIndices
    BY DEF TypeOK, Jobs
  <2>2. CASE job.start \in T
    BY <1>11, <1>16, <1>18, <2>1, <2>2 DEF rest
  <2>3. CASE job.start \notin T
    BY <1>11, <1>16, <2>1, <2>3 DEF rest
  <2> QED BY <2>2, <2>3
<1>20. \A x \in MapIndices : own[x] = NotFound /\ blockMap[x] \in T => blockMap[x] = b
  <2> SUFFICES ASSUME NEW x \in MapIndices, own[x] = NotFound, blockMap[x] \in T
               PROVE  blockMap[x] = b
    OBVIOUS
  <2>1. blockMap[x] <= b /\ b <= blockMap[x]
    BY <1>4, <1>16
  <2>2. blockMap[x] \in Nat /\ b \in Nat
    BY <1>3, <1>4
  <2> QED BY <2>1, <2>2
<1>21. ASSUME NEW x \in MapIndices, new[x] = NotFound
       PROVE  /\ x \notin rest /\ data[x].tag = job.tag
              /\ x \in DataBlocks /\ blockMap'[x] # Free /\ data[x].k < m
              /\ x = job.start \/ \E c \in MapIndices : new[c] = NotFound /\ blockMap'[c] = x
              /\ IF blockMap'[x] \in rest
                   THEN (\A y \in rest : blockMap'[x] <= y) /\ data[x].k + 1 = job'.k
                   ELSE IF blockMap'[x] = Eof THEN data[x].k + 1 = m
                   ELSE /\ new[blockMap'[x]] = NotFound
                        /\ data[blockMap'[x]] = [tag |-> data[x].tag, k |-> data[x].k + 1]
  <2>1. CASE x = b
    <3>1. blockMap'[x] = next /\ next # Free
      BY <1>8, <1>10, <2>1
    <3>2. b = job.start \/ \E c \in MapIndices : new[c] = NotFound /\ blockMap'[c] = b
      <4> SUFFICES ASSUME b # job.start
                   PROVE  \E c \in MapIndices : new[c] = NotFound /\ blockMap'[c] = b
        OBVIOUS
      <4>1. PICK c \in MapIndices : own[c] = NotFound /\ blockMap[c] \in T
        BY <1>16, <1>18
      <4>2. blockMap[c] = b /\ c # b
        BY <1>4, <1>16, <1>20, <4>1
      <4> QED BY <1>8, <1>11, <4>1, <4>2
    <3>3. CASE T \ {b} = {}
      <4>1. Cardinality(rest) = 0 /\ rest = {}
        BY <3>3, FS_EmptySet DEF rest
      <4>2. job.k + 1 = m
        BY <1>7, <1>15, <4>1
      <4>3. next = Eof
        BY <1>6, <3>3
      <4> QED BY <1>3, <1>4, <1>16, <1>17, <2>1, <3>1, <3>2, <4>1, <4>2, <4>3
    <3>4. CASE T \ {b} # {}
      <4>1. next \in rest /\ \A y \in rest : next <= y
        BY <1>5, <3>4 DEF rest
      <4>2. b \notin rest
        BY DEF rest
      <4> QED BY <1>3, <1>4, <1>7, <1>16, <1>17, <2>1, <3>1, <3>2, <4>1, <4>2
    <3> QED BY <3>3, <3>4
  <2>2. CASE x # b
    <3>1. own[x] = NotFound /\ blockMap'[x] = blockMap[x]
      BY <1>8, <1>11, <1>21, <2>2
    <3>2. /\ x \notin T /\ data[x].tag = job.tag
          /\ x \in DataBlocks /\ blockMap[x] # Free /\ data[x].k < m
          /\ x = job.start \/ \E c \in MapIndices : own[c] = NotFound /\ blockMap[c] = x
      BY <1>16, <3>1 DEF Part
    <3>3. x = job.start \/ \E c \in MapIndices : new[c] = NotFound /\ blockMap'[c] = x
      BY <1>4, <1>8, <1>11, <1>16, <3>2
    <3>4. CASE blockMap[x] \in T
      <4>1. blockMap[x] = b /\ data[x].k + 1 = job.k
        BY <1>16, <1>20, <3>1, <3>4
      <4>2. b \notin rest /\ b # Eof
        BY <1>3, <1>4 DEF rest, Eof
      <4>3. new[b] = NotFound
        BY <1>3, <1>4, <1>11
      <4> QED BY <1>16, <3>1, <3>2, <3>3, <4>1, <4>2, <4>3 DEF rest
    <3>5. CASE blockMap[x] \notin T
      <4>1. NextPart(own, x, NotFound, m) /\ blockMap[x] \notin rest
        BY <1>16, <3>1, <3>5 DEF rest
      <4>2. blockMap[x] # Eof => blockMap[x] \in MapIndices
        BY DEF TypeOK
      <4>3. blockMap[x] # Eof => new[blockMap[x]] = NotFound
        BY <1>11, <4>1, <4>2 DEF NextPart
      <4> QED BY <3>1, <3>2, <3>3, <4>1, <4>3 DEF rest, NextPart
    <3> QED BY <3>4, <3>5
  <2> QED BY <2>1, <2>2
<1>22. rest # {} => \E c \in MapIndices : new[c] = NotFound /\ blockMap'[c] \in rest
  BY <1>3, <1>4, <1>5, <1>8, <1>11 DEF rest
<1>23. \A x \in rest : job.start <= x
  BY <1>16 DEF rest
<1>24. job'.k # 0
  BY <1>7
<1>25. pc' \in {"data", "commit"} /\ (pc' = "commit" <=> rest = {})
  BY <1>2 DEF rest
<1>26. CallChain(new)'
  <2>1. Writing' /\ pc' # "free" /\ pc' # "link" /\ (pc' = "commit" => rest = {})
    BY <1>25 DEF Writing
  <2>2. job'.k + Cardinality(job'.todo) = BlocksNeeded(job'.size)
    BY <1>7, <1>15 DEF m
  <2>3. (job'.k = 0 <=> job'.start \in job'.todo) /\ \A x \in job'.todo : job'.start <= x
    BY <1>7, <1>19, <1>23, <1>24
  <2>4. /\ new[job'.start] = NotFound /\ data'[job'.start].k = 0
        /\ job'.todo # {} => \E c \in MapIndices : new[c] = NotFound /\ blockMap'[c] \in job'.todo
    BY <1>2, <1>7, <1>19, <1>22
  <2>5. ASSUME NEW x \in MapIndices, new[x] = NotFound
        PROVE  /\ x \notin job'.todo /\ data'[x].tag = job'.tag
               /\ Part(new, x, NotFound, job.start, BlocksNeeded(job.size))'
               /\ IF blockMap'[x] \in job'.todo
                    THEN (\A y \in job'.todo : blockMap'[x] <= y) /\ data'[x].k + 1 = job'.k
                    ELSE NextPart(new, x, NotFound, BlocksNeeded(job.size))'
    BY <1>2, <1>7, <1>21, <2>5 DEF Part, NextPart, m
  <2> QED BY <1>7, <2>1, <2>2, <2>3, <2>4, <2>5 DEF CallChain
<1> QED BY <1>11, <1>14, <1>26 DEF Chained

\* CommitEntry makes the chain that was written the chain of the file (377-399).
LEMMA ChainsCommitted ==
    ASSUME IInv, Chained, CommitEntry
    PROVE  Chained'
<1> USE DEF IInv
<1>0. PICK own \in Owners : FileChains(own) /\ CallChain(own)
  BY DEF Chained
<1>1. PICK f, h, m : f = job.slot /\ h = job.start /\ m = BlocksNeeded(job.size)
  OBVIOUS
<1> DEFINE e == [kind |-> "file", size |-> job.size, start |-> job.start, parent |-> job.parent,
                 name |-> IF job.name = NoName THEN NoName ELSE Kept[job.name]]
<1>2. /\ pc = "commit" /\ pc' = "idle" /\ job' = NoJob /\ UNCHANGED <<blockMap, data>>
      /\ table' = [table EXCEPT ![f] = e]
  BY <1>1 DEF CommitEntry, Return
<1>3. job.op = "write" /\ f \in Slots /\ h \in MapIndices
  BY <1>1, <1>2 DEF TypeOK, Jobs
<1>4. e.start = h /\ BlocksNeeded(e.size) = m
  BY <1>1
<1> HIDE DEF e
<1>5. /\ table'[f] = e /\ \A s \in Slots : s # f => table'[s] = table[s]
  BY <1>2, <1>3 DEF TypeOK
<1>6. /\ job.todo = {} /\ own[h] = NotFound /\ data[h].k = 0
      /\ \A b \in MapIndices : own[b] = NotFound =>
            Part(own, b, NotFound, h, m) /\ NextPart(own, b, NotFound, m)
  BY <1>0, <1>1, <1>2 DEF CallChain, Writing
<1> DEFINE new == [b \in MapIndices |-> IF own[b] = NotFound THEN f
                                        ELSE IF own[b] = f THEN Nobody ELSE own[b]]
<1>7. new \in Owners
  BY <1>3 DEF Owners
<1>8. \A s \in Slots : s # NotFound /\ s # Nobody
  BY Ranges DEF Slots, RootSlot, NotFound, Nobody
<1>9. \A b \in MapIndices : new[b] = f <=> own[b] = NotFound
  BY <1>3, <1>8
<1>10. \A b \in MapIndices : new[b] # NotFound
  BY <1>3, <1>8 DEF Nobody, NotFound
<1>11. \A s \in Slots : s # f => \A b \in MapIndices : new[b] = s <=> own[b] = s
  BY <1>3, <1>8
<1> HIDE DEF new
<1>12. ASSUME NEW s \in Settled' PROVE FileChain(new, s)'
  <2>1. s \in Slots /\ (s # f => IsFile(s))
    BY <1>3, <1>5 DEF Settled, IsFile
  <2>2. CASE s = f
    <3>1. /\ table'[s].start = h /\ BlocksNeeded(table'[s].size) = m
      BY <1>4, <1>5, <2>2
    <3>2. new[h] = f /\ data'[h].k = 0
      BY <1>2, <1>3, <1>6, <1>9
    <3>3. ASSUME NEW b \in MapIndices, new[b] = f
          PROVE  Part(new, b, f, table[s].start, BlocksNeeded(table[s].size))'
                   /\ NextPart(new, b, f, BlocksNeeded(table[s].size))'
      <4>1. Part(own, b, NotFound, h, m) /\ NextPart(own, b, NotFound, m)
        BY <1>6, <1>9, <3>3
      <4>2. Part(new, b, f, table[s].start, BlocksNeeded(table[s].size))'
        BY <1>2, <1>9, <3>1, <4>1 DEF Part
      <4>3. blockMap[b] # Eof => blockMap[b] \in MapIndices
        BY DEF TypeOK
      <4>4. NextPart(new, b, f, BlocksNeeded(table[s].size))'
        BY <1>2, <1>9, <3>1, <4>1, <4>3 DEF NextPart
      <4> QED BY <4>2, <4>4
    <3> QED BY <2>2, <3>1, <3>2, <3>3 DEF FileChain
  <2>3. CASE s # f
    <3>1. s \in Settled
      BY <1>1, <2>1, <2>3 DEF Settled, InFlight
    <3>2. FileChain(own, s)
      BY <1>0, <3>1 DEF FileChains
    <3>3. LeavesAlone(own, new, s)
      BY <1>2, <1>5, <1>11, <2>1, <2>3 DEF LeavesAlone
    <3> QED BY <2>1, <3>2, <3>3, ChainKept
  <2> QED BY <2>2, <2>3
<1>13. FileChains(new)'
  BY <1>12 DEF FileChains
<1>14. CallChain(new)'
  BY <1>2, <1>10 DEF CallChain, Writing
<1> QED BY <1>7, <1>13, <1>14 DEF Chained

\* Clearing a sector of the map: there is no file left by then (71-110).
LEMMA ChainsFormatted ==
    ASSUME IInv, Chained, FormatSector,
           \A s \in Settled' : s \in Settled /\ table'[s] = table[s],
           Settled' # {} => blockMap' = blockMap
    PROVE  Chained'
<1> USE DEF IInv
<1>0. PICK own \in Owners : FileChains(own) /\ CallChain(own)
  BY DEF Chained
<1>1. pc = "format" /\ pc' \in {"format", "idle"} /\ data' = data
  BY DEF FormatSector, Return
<1>2. FileChains(own)'
  <2>1. LeftAlone(own, own)
    BY <1>1 DEF LeftAlone, LeavesAlone
  <2> QED BY <1>0, <2>1, ChainsKept
<1>3. CallChain(own)'
  BY <1>0, <1>1 DEF CallChain, Writing
<1> QED BY <1>0, <1>2, <1>3 DEF Chained

-----------------------------------------------------------------------------
(* Files of callers that rewrite and delete, as long as the machine runs.   *)

\* Freeing a block of a deleted or rewritten file takes none from another (205-216).
LEMMA ChainsFreed ==
    ASSUME FInv, Chained, chainfs_free_block_chain
    PROVE  Chained'
<1> USE DEF FInv, IInv, BlocksInv
<1>0. PICK own \in Owners : FileChains(own) /\ CallChain(own)
  BY DEF Chained
<1>1. PICK c : c = job.cur
  OBVIOUS
<1>2. /\ c \in MapIndices /\ pc = "free" /\ pc' = "free" /\ UNCHANGED <<table, data>>
      /\ blockMap' = [blockMap EXCEPT ![c] = Free]
      /\ job' = [job EXCEPT !.cur = blockMap[c]]
  BY <1>1 DEF chainfs_free_block_chain, Mapped
<1>3. job'.op = job.op /\ job'.slot = job.slot /\ job'.k = job.k
  BY <1>2 DEF TypeOK, Jobs
<1>4. Settled' = Settled
  BY <1>2, <1>3 DEF Settled, IsFile, InFlight
<1>5. HeldBy(c) = {NotFound} /\ LinkedFrom(c) = {}
  <2>1. OneOwner(c)
    BY <1>2 DEF Owned, Unwritten
  <2>2. NotFound \in HeldBy(c)
    BY <1>1, <1>2, Holding DEF Holds, CallHolds
  <2> QED BY <2>1, <2>2 DEF OneOwner
<1>6. ASSUME NEW s \in Settled PROVE own[c] # s
  <2> SUFFICES ASSUME own[c] = s PROVE FALSE
    OBVIOUS
  <2>1. Part(own, c, s, table[s].start, BlocksNeeded(table[s].size))
    BY <1>0, <1>2 DEF FileChains, FileChain
  <2>2. CASE c = table[s].start
    <3>1. s \in HeldBy(c)
      BY <2>2 DEF HeldBy
    <3> QED BY <1>5, <3>1, Ranges DEF Settled, Slots, RootSlot, NotFound
  <2>3. CASE c # table[s].start
    <3>1. PICK d \in MapIndices : own[d] = s /\ blockMap[d] = c
      BY <2>1, <2>3 DEF Part
    <3>2. blockMap[d] # Free
      BY <1>0, <3>1 DEF FileChains, FileChain, Part
    <3> QED BY <1>5, <3>1, <3>2 DEF LinkedFrom
  <2> QED BY <2>2, <2>3
<1>7. \A b \in MapIndices : b # c => blockMap'[b] = blockMap[b]
  BY <1>2 DEF TypeOK
<1>8. FileChains(own)'
  <2>1. LeftAlone(own, own)
    BY <1>2, <1>4, <1>6, <1>7 DEF LeftAlone, LeavesAlone
  <2> QED BY <1>0, <2>1, ChainsKept
<1>9. CallChain(own)'
  BY <1>0, <1>2, <1>3 DEF CallChain, Writing
<1> QED BY <1>0, <1>8, <1>9 DEF Chained

\* There is no file on the empty disk.
LEMMA InitChained == Init => Chained
<1> SUFFICES ASSUME Init PROVE Chained
  OBVIOUS
<1> DEFINE own == [b \in MapIndices |-> Nobody]
<1>1. own \in Owners
  BY DEF Owners
<1>2. \A s \in Slots : ~IsFile(s)
  BY RootEntryFields DEF Init, IsFile, FreeEntry
<1>3. FileChains(own)
  BY <1>2 DEF FileChains, Settled
<1>4. CallChain(own)
  BY DEF CallChain, Writing, Init, Nobody, NotFound
<1> QED BY <1>1, <1>3, <1>4 DEF Chained

-----------------------------------------------------------------------------
(* The steps that only begin or end a call.                                 *)

EntryKept(s) == s \in Settled /\ table'[s] = table[s]
Quiet ==
    /\ UNCHANGED <<blockMap, data>> /\ ~Writing' /\ (pc' = "free" => job'.k = 0)
    /\ \A s \in Settled' : EntryKept(s)

\* They leave every file that no call works on as it is. An error return and a
\* reset let go of the entry that the call was working on, if it is a file's.
LEMMA CallsQuiet ==
    ASSUME TypeOK, table[RootSlot].kind # "file",
           \/ chainfs_init \/ chainfs_format \/ GiveUp \/ Unlink \/ Crash
           \/ \E p \in DirPaths : chainfs_mkdir(p) \/ chainfs_chdir(p) \/ chainfs_rmdir(p)
           \/ \E p \in FilePaths : chainfs_delete_file(p)
                 \/ \E z \in Sizes, g \in Tags : chainfs_write_file(p, z, g),
           GiveUp \/ Crash => (job.op \in {"write", "delete"} => ~IsFile(job.slot))
    PROVE  Quiet
<1>0. /\ \A s : s \in Settled <=> s \in Slots /\ IsFile(s) /\ ~InFlight(s)
      /\ \A s : s \in Settled' <=> s \in Slots /\ IsFile(s)' /\ ~InFlight(s)'
  BY DEF Settled
<1>1. CASE chainfs_init
  BY <1>0, <1>1 DEF Quiet, EntryKept, chainfs_init, disk, IsFile, InFlight, Writing
<1>2. CASE chainfs_format
  <2>1. /\ pc = "idle" /\ pc' = "format" /\ job'.op = "format" /\ UNCHANGED <<blockMap, data>>
        /\ table' = [table EXCEPT ![RootSlot] = SuperEntry]
    BY <1>2 DEF chainfs_format, NoJob
  <2>2. job.op = "none"
    BY <2>1 DEF TypeOK
  <2>3. \A s \in Slots : IsFile(s)' => IsFile(s) /\ table'[s] = table[s]
    BY <2>1, RootEntryFields DEF TypeOK, IsFile
  <2> QED BY <1>0, <2>1, <2>2, <2>3 DEF Quiet, EntryKept, InFlight, Writing
<1>3. CASE GiveUp \/ Crash
  <2>1. pc' = "idle" /\ job'.op = "none" /\ UNCHANGED disk
    BY <1>3 DEF GiveUp, Crash, Return, NoJob
  <2>2. \A s : IsFile(s) => ~InFlight(s)
    BY <1>3 DEF InFlight
  <2> QED BY <1>0, <2>1, <2>2 DEF Quiet, EntryKept, IsFile, InFlight, Writing, disk
<1>4. CASE Unlink
  <2>0. PICK f : f = job.slot
    OBVIOUS
  <2>1. /\ pc' = "idle" /\ job'.op = "none" /\ UNCHANGED <<blockMap, data>>
        /\ table' = [table EXCEPT ![f] = Freed(f)]
    BY <1>4, <2>0 DEF Unlink, Return, NoJob
  <2>2. f \in Slots
    BY <2>0 DEF TypeOK, Jobs
  <2>3. Freed(f).kind # "file"
    BY <2>2, FreedType
  <2>4. \A s \in Slots : IsFile(s)' => s # f /\ IsFile(s) /\ table'[s] = table[s]
    BY <2>1, <2>2, <2>3 DEF TypeOK, IsFile
  <2> QED BY <1>0, <2>0, <2>1, <2>4 DEF Quiet, EntryKept, InFlight, Writing
<1>5. ASSUME NEW p \in DirPaths, chainfs_mkdir(p) PROVE Quiet
  <2>1. PICK s, parent : s = Min(FreeSlots) /\ table' = [table EXCEPT ![s] =
           [kind |-> "dir", name |-> LastName(p), size |-> 0, start |-> 0, parent |-> parent]]
    BY <1>5 DEF chainfs_mkdir
  <2>2. PICK e : e.kind = "dir" /\ table' = [table EXCEPT ![s] = e]
    BY <2>1
  <2>3. \A r \in Slots : IsFile(r)' => IsFile(r) /\ table'[r] = table[r]
    BY <2>2 DEF TypeOK, IsFile
  <2>4. pc = "idle" /\ UNCHANGED <<blockMap, data, pc, job>>
    BY <1>5 DEF chainfs_mkdir
  <2> QED BY <1>0, <2>3, <2>4 DEF Quiet, EntryKept, InFlight, Writing
<1>6. ASSUME NEW p \in DirPaths, chainfs_chdir(p) PROVE Quiet
  BY <1>0, <1>6 DEF Quiet, EntryKept, chainfs_chdir, disk, IsFile, InFlight, Writing
<1>7. ASSUME NEW p \in DirPaths, chainfs_rmdir(p) PROVE Quiet
  <2>1. PICK s \in Slots : table' = [table EXCEPT ![s] = Freed(s)]
    BY <1>7 DEF chainfs_rmdir
  <2>2. Freed(s).kind # "file"
    BY FreedType
  <2>3. \A r \in Slots : IsFile(r)' => IsFile(r) /\ table'[r] = table[r]
    BY <2>1, <2>2 DEF TypeOK, IsFile
  <2>4. pc = "idle" /\ UNCHANGED <<blockMap, data, pc, job>>
    BY <1>7 DEF chainfs_rmdir
  <2> QED BY <1>0, <2>3, <2>4 DEF Quiet, EntryKept, InFlight, Writing
<1>8. ASSUME UNCHANGED disk, pc = "idle", pc' = "free", job'.k = 0 PROVE Quiet
  <2>1. job.op = "none"
    BY <1>8 DEF TypeOK
  <2> QED BY <1>0, <1>8, <2>1 DEF Quiet, EntryKept, IsFile, InFlight, Writing, disk
<1>9. ASSUME NEW p \in FilePaths, chainfs_delete_file(p) PROVE Quiet
  BY <1>8, <1>9 DEF chainfs_delete_file, NoJob
<1>10. ASSUME NEW p \in FilePaths, NEW z \in Sizes, NEW g \in Tags, chainfs_write_file(p, z, g)
       PROVE Quiet
  BY <1>8, <1>10 DEF chainfs_write_file, NoJob
<1> QED BY <1>1, <1>2, <1>3, <1>4, <1>5, <1>6, <1>7, <1>9, <1>10

\* So every chain stays as it is.
LEMMA QuietChains == ASSUME TypeOK, Chained, Quiet PROVE Chained'
BY ChainsQuiet DEF Quiet, EntryKept

\* While format is at sector k no file is left in the sectors before it.
Cleared(k) == \A i \in Indices : IsFile(i) => k <= SectorOf(i)

\* When format comes to the map no file is left (71-110).
LEMMA SectorChains ==
    ASSUME IInv, Chained, FormatSector, table[RootSlot].kind # "file",
           NEW k \in Nat, k = job.k, Cleared(k)
    PROVE  Chained' /\ Cleared(k + 1)' /\ table'[RootSlot] = table[RootSlot]
<1> USE DEF IInv
<1>1. \A s \in Slots : (s # RootSlot /\ SectorOf(s) = k) \/ table'[s] = table[s]
  BY DEF FormatSector
<1>2. \A s \in Slots : s # RootSlot /\ SectorOf(s) = k =>
         table'[s].kind # "file"
  BY RootEntryFields DEF FormatSector
<1>3. Slots = Indices \cup {RootSlot} /\ RootSlot \notin Indices
  BY Ranges DEF Slots, RootSlot
<1>4. \A s \in Slots : IsFile(s)' =>
         IsFile(s) /\ table'[s] = table[s] /\ s \in Indices /\ k + 1 <= SectorOf(s)
  <2> SUFFICES ASSUME NEW s \in Slots, IsFile(s)'
               PROVE IsFile(s) /\ table'[s] = table[s] /\ s \in Indices /\ k + 1 <= SectorOf(s)
    OBVIOUS
  <2>1. table'[s] = table[s] /\ IsFile(s) /\ s # RootSlot /\ SectorOf(s) # k
    BY <1>1, <1>2 DEF IsFile
  <2>2. s \in Indices /\ SectorOf(s) \in Nat /\ k <= SectorOf(s)
    BY <1>3, <2>1, SectorBounds DEF Cleared
  <2> QED BY <2>1, <2>2
<1>5. Cleared(k + 1)'
  BY <1>3, <1>4 DEF Cleared
<1>6. job.op = "format" /\ job'.op \in {"format", "none"}
  BY DEF FormatSector, TypeOK, Return, NoJob, Jobs
<1>7. \A s \in Settled' : s \in Settled /\ table'[s] = table[s] /\ s \in Indices
                            /\ k + 1 <= SectorOf(s)
  BY <1>4, <1>6 DEF Settled, InFlight
<1>8. ASSUME Settled' # {} PROVE blockMap' = blockMap
  <2>1. k < file_table_block_count
    <3>1. PICK s \in Settled' : s \in Indices /\ k + 1 <= SectorOf(s)
      BY <1>7, <1>8
    <3> QED BY <3>1, SectorBounds, Regions
  <2>2. \A b \in MapIndices : MapSector(b) # k
    BY <2>1, SectorBounds, Regions
  <2>3. blockMap' = [b \in MapIndices |-> IF MapSector(b) = k THEN Free ELSE blockMap[b]]
    BY DEF FormatSector, MapSector
  <2>4. blockMap' = [b \in MapIndices |-> blockMap[b]]
    BY <2>2, <2>3
  <2> QED BY <2>4 DEF TypeOK
<1>9. Chained'
  BY <1>7, <1>8, ChainsFormatted
<1>10. table'[RootSlot] = table[RootSlot]
  BY <1>1, <1>3
<1> QED BY <1>5, <1>9, <1>10

\* A step of no call at all.
LEMMA ChainsStutter == ASSUME Chained, UNCHANGED vars PROVE Chained'
<1>1. PICK own \in Owners : FileChains(own) /\ CallChain(own)
  BY DEF Chained
<1>2. Settled' = Settled
  BY DEF vars, Settled, IsFile, InFlight
<1>3. FileChains(own)'
  BY <1>1, <1>2 DEF vars, FileChains, FileChain, Part, NextPart
<1>4. CallChain(own)'
  BY <1>1 DEF vars, CallChain, Writing, Part, NextPart
<1> QED BY <1>1, <1>3, <1>4 DEF Chained

\* Every step of callers that rewrite and delete keeps the files whole.
LEMMA FilesChained ==
    ASSUME PlainCallers, FInv, Chained, [FilesNext]_vars
    PROVE  Chained'
<1> USE DEF FInv
<1>0. TypeOK /\ table[RootSlot].kind # "file"
  BY DEF IInv, NamesInv, Formatted
<1>1. CASE UNCHANGED vars
  BY <1>1, ChainsStutter
<1>2. CASE FilesNext
  <2>1. CASE \/ chainfs_init \/ chainfs_format \/ GiveUp \/ Unlink
             \/ \E p \in DirPaths : chainfs_mkdir(p) \/ chainfs_chdir(p) \/ chainfs_rmdir(p)
             \/ \E p \in FilePaths : chainfs_delete_file(p)
                   \/ \E z \in Sizes, g \in Tags : chainfs_write_file(p, z, g)
    <3>1. CASE GiveUp
      <4>1. ~IsFile(job.slot)
        <5>1. pc = "free" /\ job.op = "write" /\ pc' = "idle"
          BY <3>1 DEF GiveUp, Return
        <5> QED BY <1>2, <5>1 DEF FilesNext, RewriteFits
      <4>2. Quiet
        BY <1>0, <3>1, <4>1, CallsQuiet
      <4> QED BY <1>0, <4>2, QuietChains
    <3>2. CASE Crash /\ job.op \in {"write", "delete"} /\ ~GiveUp
      <4>1. FALSE
        <5>1. pc \notin {"idle", "format"} /\ mounted /\ mounted' = FALSE
          BY <3>2 DEF IInv, TypeOK, NamesInv, Formatted, Crash
        <5> QED BY <2>1, <3>2, <5>1 DEF chainfs_init, chainfs_format, Unlink, chainfs_mkdir,
               chainfs_chdir, chainfs_rmdir, chainfs_delete_file, chainfs_write_file
      <4> QED BY <4>1
    <3>3. CASE ~GiveUp /\ ~(Crash /\ job.op \in {"write", "delete"})
      <4>1. Quiet
        BY <1>0, <2>1, <3>3, CallsQuiet
      <4> QED BY <1>0, <4>1, QuietChains
    <3> QED BY <3>1, <3>2, <3>3
  <2>2. CASE FormatSector
    <3>1. PICK k \in Nat : k = job.k
      BY <1>0 DEF TypeOK, Jobs
    <3>2. Cleared(k)
      <4>1. FormatDone(k)
        BY <2>2, <3>1 DEF FormatSector, NamesInv, Formatted
      <4>2. \A i \in Indices : SectorOf(i) < k => ~IsFile(i)
        BY <4>1, RootEntryFields DEF FormatDone, IsFile
      <4> QED BY <4>2, SectorBounds DEF Cleared
    <3> QED BY <1>0, <2>2, <3>1, <3>2, SectorChains
  <2>3. CASE chainfs_free_block_chain
    BY <2>3, ChainsFreed
  <2>4. CASE chainfs_find_free_blocks
    BY <2>4, ChainsFound
  <2>5. CASE WriteDataBlock
    BY <2>5, ChainsWritten
  <2>6. CASE LinkBlock
    BY <2>6, ChainsLinked
  <2>7. CASE CommitEntry
    BY <2>7, ChainsCommitted
  <2> QED BY <1>2, <2>1, <2>2, <2>3, <2>4, <2>5, <2>6, <2>7 DEF FilesNext, Call, Step
<1> QED BY <1>1, <1>2

\* In every state they can reach, every file has a chain of its own.
THEOREM FilesChainsInductive == PlainCallers /\ FilesSpec => [](FInv /\ Chained)
<1>1. Init => Chained
  BY InitChained
<1>2. PlainCallers /\ FInv /\ Chained /\ [FilesNext]_vars => Chained'
  BY FilesChained
<1>3. PlainCallers => PlainCallers'
  BY DEF PlainCallers, FileNames, DirNames, LastName
<1>4. PlainCallers /\ FilesSpec => []FInv
  BY FilesInductive
<1> QED BY <1>1, <1>2, <1>3, <1>4, PTL DEF FilesSpec

\* So a file that no call is rewriting has the blocks its size needs, all of one
\* write and in order (349-375), however often others were rewritten or deleted.
THEOREM FilesStayWhole == PlainCallers /\ FilesSpec => []FilesIntact
<1>1. FInv /\ Chained => FilesIntact
  BY FilesWhole DEF FInv, IInv, Chained
<1> QED BY <1>1, FilesChainsInductive, PTL

\* And no two of them share a block (343-375).
THEOREM FilesStayApart == PlainCallers /\ FilesSpec => []FilesDisjoint
<1>1. FInv /\ Chained => FilesDisjoint
  BY FilesWhole DEF FInv, IInv, Chained
<1> QED BY <1>1, FilesChainsInductive, PTL

-----------------------------------------------------------------------------
(* Files of callers that only create, whatever paths they give and wherever *)
(* the machine is reset.                                                    *)

\* A write creates an entry: it has no chain to free and works on a slot that is free.
Creating ==
    /\ table[RootSlot].kind # "file"
    /\ job.op # "delete"
    /\ job.op = "write" => job.slot \in Indices /\ ~Live(job.slot)
    /\ pc = "free" => job.cur = Eof
    /\ pc = "format" => Cleared(job.k)

CInv == IInv /\ Chained /\ Creating

\* A step that touches no entry keeps that.
LEMMA CreatingSame ==
    ASSUME TypeOK, Creating, pc # "format", UNCHANGED table, job'.op = job.op,
           job'.slot = job.slot, pc' = pc => job'.cur = job.cur, pc' # "free" \/ pc' = pc,
           pc' # "format"
    PROVE  Creating'
BY DEF Creating, Live

\* Outside of a call there is nothing to it.
LEMMA CreatingIdle ==
    ASSUME pc' \notin {"free", "format"}, job'.op = "none", table'[RootSlot].kind # "file"
    PROVE  Creating'
BY DEF Creating

\* A write gets an entry that is free.
LEMMA CreationBegins ==
    ASSUME TypeOK, Creating, CreateOnly, NEW p \in Paths, NEW z \in Sizes, NEW g \in Tags,
           chainfs_write_file(p, z, g)
    PROVE  Creating'
<1>1. PICK parent \in {WriteParent(p)} \ {NotFound}, t \in Target(p) :
        job' = [NoJob EXCEPT !.op = "write", !.slot = t.slot, !.cur = t.chain,
                 !.parent = parent, !.name = LastName(p), !.size = z, !.tag = g]
  BY DEF chainfs_write_file
<1>2. pc' = "free" /\ UNCHANGED table /\ job'.op = "write" /\ job'.slot = t.slot
        /\ job'.cur = t.chain
  BY <1>1 DEF chainfs_write_file, disk, NoJob
<1>3. t.chain = Eof
  BY <1>2 DEF CreateOnly, chainfs_write_file
<1>4. CASE chainfs_resolve_path(p) # NotFound
  <2>1. PICK f : f = chainfs_resolve_path(p) /\ t = [slot |-> f, chain |-> table[f].start]
    BY <1>4 DEF Target
  <2>2. f \in Slots
    BY <1>4, <2>1, ResolveType
  <2>3. table[f].start \in MapIndices
    BY <2>2 DEF TypeOK, Entries
  <2> QED BY <1>3, <2>1, <2>3, Ranges DEF Eof
<1>5. CASE chainfs_resolve_path(p) = NotFound
  <2>1. FreeSlots # {} /\ t.slot = Min(FreeSlots)
    BY <1>5 DEF Target
  <2>2. t.slot \in Indices /\ ~Live(t.slot)
    BY <2>1, FreeSlotType
  <2> QED BY <1>2, <1>3, <2>2 DEF Creating, Live
<1> QED BY <1>4, <1>5

\* Every step of theirs, a reset included, keeps the files whole.
LEMMA CreateStep ==
    ASSUME CInv, [Next /\ CreateOnly]_vars
    PROVE  CInv'
<1> USE DEF CInv
<1>0. TypeOK /\ table[RootSlot].kind # "file" /\ DirPaths \subseteq Paths /\ FilePaths \subseteq Paths
        /\ RootSlot \in Slots /\ RootSlot \notin Indices
  BY CallerAssumption, Ranges DEF IInv, Creating, Slots, RootSlot
<1>1. IInv'
  BY NextIInv
<1>2. CASE UNCHANGED vars
  <2>1. Creating'
    BY <1>2 DEF vars, Creating, Cleared, IsFile, Live
  <2> QED BY <1>1, <1>2, <2>1, ChainsStutter
<1>3. CASE Next /\ CreateOnly
  <2>1. job.op \in {"write", "delete"} => ~IsFile(job.slot)
    BY DEF Creating, Live, IsFile
  <2>2. CASE chainfs_init
    <3>1. pc = "idle" /\ UNCHANGED <<table, pc, job>>
      BY <2>2 DEF chainfs_init, disk
    <3>2. Creating'
      BY <1>0, <3>1, CreatingIdle DEF TypeOK
    <3>7. Quiet
      BY <1>0, <2>1, <2>2, CallsQuiet
    <3> QED BY <1>0, <1>1, <3>2, <3>7, QuietChains
  <2>3. CASE chainfs_format
    <3>1. pc' = "format" /\ job'.op = "format" /\ job'.k = 1 /\ table' = [table EXCEPT ![RootSlot] = SuperEntry]
      BY <2>3 DEF chainfs_format, NoJob
    <3>2. Cleared(1)'
      BY SectorBounds DEF Cleared
    <3>3. table'[RootSlot].kind # "file"
      BY <1>0, <3>1, RootEntryFields DEF TypeOK
    <3>4. Creating'
      BY <3>1, <3>2, <3>3 DEF Creating, Cleared
    <3>7. Quiet
      BY <1>0, <2>1, <2>3, CallsQuiet
    <3> QED BY <1>0, <1>1, <3>4, <3>7, QuietChains
  <2>4. ASSUME NEW p \in DirPaths, chainfs_mkdir(p) PROVE CInv'
    <3>1. pc = "idle" /\ UNCHANGED <<pc, job>>
      BY <2>4 DEF chainfs_mkdir
    <3>2. PICK s \in Indices : \A r \in Slots : r # s => table'[r] = table[r]
      BY <1>0, <2>4, FreeSlotType DEF chainfs_mkdir, TypeOK
    <3>3. Creating'
      BY <1>0, <3>1, <3>2, CreatingIdle DEF TypeOK
    <3>7. Quiet
      BY <1>0, <2>1, <2>4, CallsQuiet
    <3> QED BY <1>0, <1>1, <3>3, <3>7, QuietChains
  <2>5. ASSUME NEW p \in DirPaths, chainfs_chdir(p) PROVE CInv'
    <3>1. pc = "idle" /\ UNCHANGED <<table, pc, job>>
      BY <2>5 DEF chainfs_chdir, disk
    <3>2. Creating'
      BY <1>0, <3>1, CreatingIdle DEF TypeOK
    <3>7. Quiet
      BY <1>0, <2>1, <2>5, CallsQuiet
    <3> QED BY <1>0, <1>1, <3>2, <3>7, QuietChains
  <2>6. ASSUME NEW p \in DirPaths, chainfs_rmdir(p) PROVE CInv'
    <3>1. pc = "idle" /\ UNCHANGED <<pc, job>>
      BY <2>6 DEF chainfs_rmdir
    <3>2. PICK s \in Slots : IsDir(s) /\ \A r \in Slots : r # s => table'[r] = table[r]
      BY <1>0, <2>6 DEF chainfs_rmdir, TypeOK
    <3>3. s # RootSlot
      BY <1>0, <3>2 DEF IsDir, TypeOK
    <3>4. Creating'
      BY <1>0, <3>1, <3>2, <3>3, CreatingIdle DEF TypeOK
    <3>7. Quiet
      BY <1>0, <2>1, <2>6, CallsQuiet
    <3> QED BY <1>0, <1>1, <3>4, <3>7, QuietChains
  <2>7. ASSUME NEW p \in FilePaths, chainfs_delete_file(p) PROVE CInv'
    <3>1. pc = "idle" /\ pc' = "free" /\ job'.op = "delete"
      BY <2>7 DEF chainfs_delete_file, NoJob
    <3> QED BY <1>3, <3>1 DEF CreateOnly
  <2>8. ASSUME NEW p \in FilePaths, NEW z \in Sizes, NEW g \in Tags, chainfs_write_file(p, z, g)
        PROVE CInv'
    <3>1. Creating'
      BY <1>0, <1>3, <2>8, CreationBegins
    <3>7. Quiet
      BY <1>0, <2>1, <2>8, CallsQuiet
    <3> QED BY <1>0, <1>1, <3>1, <3>7, QuietChains
  <2>9. CASE FormatSector
    <3>1. PICK k \in Nat : k = job.k
      BY <1>0 DEF TypeOK, Jobs
    <3>2. pc = "format" /\ Cleared(k)
      BY <2>9, <3>1 DEF FormatSector, Creating
    <3>3. Chained' /\ Cleared(k + 1)' /\ table'[RootSlot] = table[RootSlot]
      BY <1>0, <2>9, <3>1, <3>2, SectorChains
    <3>4. \/ pc' = "idle" /\ job' = NoJob
          \/ pc' = "format" /\ job'.op = "format" /\ job'.k = k + 1
      BY <2>9, <3>1, <3>2 DEF FormatSector, Return, TypeOK, IInv, Jobs
    <3>5. Creating'
      BY <1>0, <3>3, <3>4 DEF Creating, Cleared, NoJob
    <3> QED BY <1>1, <3>3, <3>5
  <2>10. CASE chainfs_free_block_chain
    <3>1. job.cur \in MapIndices /\ job.cur = Eof
      BY <2>10 DEF chainfs_free_block_chain, Mapped, Creating
    <3> QED BY <3>1, Ranges DEF Eof
  <2>11. CASE chainfs_find_free_blocks
    <3>1. pc = "free" /\ pc' = "data" /\ UNCHANGED table /\ job'.op = job.op /\ job'.slot = job.slot
      BY <1>0, <2>11 DEF chainfs_find_free_blocks, disk, TypeOK, Jobs
    <3>2. Creating'
      BY <1>0, <3>1, CreatingSame
    <3> QED BY <1>1, <2>11, <3>2, ChainsFound
  <2>12. CASE GiveUp \/ Crash
    <3>1. pc' = "idle" /\ job'.op = "none" /\ UNCHANGED table
      BY <2>12 DEF GiveUp, Crash, Return, NoJob, disk
    <3>2. Creating'
      BY <1>0, <3>1, CreatingIdle
    <3>7. Quiet
      BY <1>0, <2>1, <2>12, CallsQuiet
    <3> QED BY <1>0, <1>1, <3>2, <3>7, QuietChains
  <2>13. CASE WriteDataBlock
    <3>1. pc = "data" /\ pc' = "link" /\ UNCHANGED <<table, job>>
      BY <2>13 DEF WriteDataBlock
    <3>2. Creating'
      BY <1>0, <3>1, CreatingSame
    <3> QED BY <1>1, <2>13, <3>2, ChainsWritten
  <2>14. CASE LinkBlock
    <3>1. pc = "link" /\ pc' \in {"data", "commit"} /\ UNCHANGED table /\ job'.op = job.op
            /\ job'.slot = job.slot
      BY <1>0, <2>14 DEF LinkBlock, TypeOK, Jobs
    <3>2. Creating'
      BY <1>0, <3>1, CreatingSame
    <3> QED BY <1>1, <2>14, <3>2, ChainsLinked
  <2>15. CASE CommitEntry
    <3>1. PICK s : s = job.slot
      OBVIOUS
    <3>2. s \in Indices /\ job.op = "write"
      BY <1>0, <2>15, <3>1 DEF CommitEntry, TypeOK, Creating
    <3>3. pc' = "idle" /\ job'.op = "none" /\ table'[RootSlot] = table[RootSlot]
      BY <1>0, <2>15, <3>1, <3>2 DEF CommitEntry, Return, NoJob, TypeOK
    <3>4. Creating'
      BY <1>0, <3>3, CreatingIdle
    <3> QED BY <1>1, <2>15, <3>4, ChainsCommitted
  <2>16. CASE Unlink
    BY <2>16 DEF Unlink, Creating
  <2> QED BY <1>3, <2>2, <2>3, <2>4, <2>5, <2>6, <2>7, <2>8, <2>9, <2>10, <2>11, <2>12,
             <2>13, <2>14, <2>15, <2>16 DEF Next, Call, Step
<1> QED BY <1>2, <1>3

\* They hold in every state such callers can reach.
THEOREM CreateInductive == CreateSpec => []CInv
<1>1. Init => Creating
  <2> SUFFICES ASSUME Init PROVE Creating
    OBVIOUS
  <2>1. RootSlot \in Slots /\ table[RootSlot] = [FreeEntry EXCEPT !.kind = "wrecked"]
    BY DEF Init, Slots
  <2>2. table[RootSlot].kind # "file"
    BY <2>1 DEF FreeEntry
  <2>3. pc = "idle" /\ job.op = "none"
    BY DEF Init, NoJob
  <2> QED BY <2>2, <2>3 DEF Creating
<1>2. Init => CInv
  BY <1>1, InitIInv, InitChained DEF CInv
<1>3. CInv /\ [Next /\ CreateOnly]_vars => CInv'
  BY CreateStep
<1> QED BY <1>2, <1>3, PTL DEF CreateSpec

\* So a reset in the middle of a creation or of a format damages no other file:
\* an entry is written last, over blocks that are all there (349-405).
THEOREM CreatedStayWhole == CreateSpec => []FilesIntact
<1>1. CInv => FilesIntact
  BY FilesWhole DEF CInv, IInv, Chained
<1> QED BY <1>1, CreateInductive, PTL

\* And the blocks that a reset left linked from nowhere, or that are handed out
\* again, never belong to two files (187-203).
THEOREM CreatedStayApart == CreateSpec => []FilesDisjoint
<1>1. CInv => FilesDisjoint
  BY FilesWhole DEF CInv, IInv, Chained
<1> QED BY <1>1, CreateInductive, PTL


-----------------------------------------------------------------------------
(* The store that callers see, for those who rewrite and delete.            *)

\* chainfs_read_file returns the whole of a file that is intact (219-263).
LEMMA ReadsWhole ==
    ASSUME TypeOK, FilesIntact, NEW s \in Settled
    PROVE  chainfs_read_file(s) = Bytes(table[s].size, data[table[s].start].tag)
<1>0. BlockSize \in Nat \ {0}
  BY GeometryAssumption
<1>1. PICK size, c, n, m : /\ size = table[s].size /\ c = table[s].start
                           /\ n = BlocksNeeded(size) /\ m = Ceil(size, BlockSize)
  OBVIOUS
<1>2. PICK w, v : w = Walk(c, n) /\ v = Walk(c, m)
  OBVIOUS
<1>3. size \in Nat /\ n \in Nat \ {0}
  <2>1. size \in Nat
    BY <1>1 DEF Settled, TypeOK, Entries
  <2> QED BY <1>1, <2>1, BlocksNeededPositive
<1> DEFINE read == {k \in 0 .. m - 1 : v[k] # Eof}
<1>4. chainfs_read_file(s) =
        [bytes |-> Min({size, BlockSize * Cardinality(read)}),
         chunks |-> [k \in read |-> IF v[k] \in DataBlocks THEN data[v[k]]
                                    ELSE [tag |-> NoTag, k |-> 0]]]
  BY <1>1, <1>2 DEF chainfs_read_file
<1>5. Bytes(size, data[c].tag) =
        [bytes |-> size, chunks |-> [k \in 0 .. m - 1 |-> [tag |-> data[c].tag, k |-> k]]]
  BY <1>1 DEF Bytes
<1>6. CASE size = 0
  <2>1. m = 0 /\ read = {}
    BY <1>1, <1>6, NothingToRead
  <2>2. Cardinality(read) = 0
    BY <2>1, FS_EmptySet
  <2>3. Min({size, BlockSize * Cardinality(read)}) = 0
    <3>0. PICK x : x = BlockSize * Cardinality(read)
      OBVIOUS
    <3>1. x = 0
      BY <1>0, <2>2, <3>0
    <3>2. PICK S : S = {size, x}
      OBVIOUS
    <3>3. S = {0} /\ S \in SUBSET Nat /\ S # {}
      BY <1>6, <3>1, <3>2
    <3>4. Min(S) \in S
      BY <3>3, MinIsLeast
    <3>5. Min({size, x}) = 0
      BY <3>2, <3>3, <3>4
    <3> HIDE DEF read
    <3> QED BY <3>0, <3>5
  <2>4. [k \in read |-> IF v[k] \in DataBlocks THEN data[v[k]] ELSE [tag |-> NoTag, k |-> 0]]
          = [k \in 0 .. m - 1 |-> [tag |-> data[c].tag, k |-> k]]
    <3>1. 0 .. m - 1 = {}
      BY <2>1
    <3> HIDE DEF read
    <3> QED BY <2>1, <3>1
  <2> QED BY <1>1, <1>4, <1>5, <1>6, <2>3, <2>4
<1>7. CASE size # 0
  <2>1. m = n /\ v = w
    BY <1>1, <1>2, <1>7 DEF BlocksNeeded
  <2>2. \A k \in 0 .. n - 1 :
           w[k] \in DataBlocks /\ data[w[k]] = [tag |-> data[w[0]].tag, k |-> k]
    BY <1>1, <1>2 DEF FilesIntact
  <2>3. w[0] = c
    BY <1>2, <1>3, WalkSteps
  <2>4. \A b \in DataBlocks : b # Eof
    BY Ranges DEF Eof
  <2>5. read = 0 .. n - 1
    BY <2>1, <2>2, <2>4
  <2>6. Cardinality(read) = n
    <3>1. 0 \in Int /\ n - 1 \in Int
      BY <1>3
    <3>2. Cardinality(0 .. n - 1) = IF 0 > n - 1 THEN 0 ELSE (n - 1) - 0 + 1
      BY <3>1, FS_Interval
    <3> HIDE DEF read
    <3> QED BY <1>3, <2>5, <3>2
  <2>7. Min({size, BlockSize * Cardinality(read)}) = size
    <3>1. size <= n * BlockSize
      BY <1>0, <1>1, <1>3, <2>1, CeilBounds
    <3>2. n * BlockSize = BlockSize * n /\ BlockSize * n \in Nat
      BY <1>0, <1>3
    <3>3. PICK x, S : x = BlockSize * n /\ S = {size, x}
      OBVIOUS
    <3>4. S \in SUBSET Nat /\ S # {} /\ size <= x /\ x \in Nat
      BY <1>3, <3>1, <3>2, <3>3
    <3>5. Min(S) \in {size, x} /\ Min(S) <= size
      BY <3>3, <3>4, MinIsLeast
    <3>6. Min(S) = size
      BY <1>3, <3>4, <3>5
    <3> HIDE DEF read
    <3> QED BY <2>6, <3>3, <3>6
  <2>8. [k \in read |-> IF v[k] \in DataBlocks THEN data[v[k]] ELSE [tag |-> NoTag, k |-> 0]]
          = [k \in 0 .. m - 1 |-> [tag |-> data[c].tag, k |-> k]]
    <3> HIDE DEF read
    <3> QED BY <2>1, <2>2, <2>3, <2>5
  <2> QED BY <1>1, <1>4, <1>5, <2>7, <2>8
<1> QED BY <1>6, <1>7

\* What a file shows: what is on the disk, or what the call in progress makes of it.
KeyOf(s) == <<table[s].parent, table[s].name>>
Shown(s) ==
    IF ~InFlight(s) THEN Bytes(table[s].size, data[table[s].start].tag)
    ELSE IF job.op = "write" THEN Bytes(job.size, job.tag) ELSE Missing

IsAt(s, f) == IsFile(s) /\ KeyOf(s) = f
Shows(f) ==
    /\ pc = "format" => storeOf[f] = Missing
    /\ pc # "format" =>
        /\ \A s \in Indices : IsAt(s, f) => storeOf[f] = Shown(s)
        /\ (\A s \in Indices : ~IsAt(s, f)) => storeOf[f] = Missing
StoreIs == storeOf = [f \in Keys |-> storeOf[f]] /\ \A f \in Keys : Shows(f)

\* The one entry with a name is the one that a lookup of it finds (488-505).
LEMMA StoreShows == TypeOK /\ UniqueNames /\ FilesIntact => StoreIs
<1> SUFFICES ASSUME TypeOK, UniqueNames, FilesIntact PROVE StoreIs
  OBVIOUS
<1>1. storeOf = [f \in Keys |-> storeOf[f]]
  BY DEF storeOf, Keys
<1>2. ASSUME NEW s \in Indices, IsFile(s) PROVE ContentsOf(s) = Shown(s)
  <2>1. CASE ~InFlight(s)
    <3>1. s \in Settled
      BY <1>2, <2>1 DEF Settled, Slots
    <3> QED BY <2>1, <3>1, ReadsWhole DEF ContentsOf, Shown
  <2>2. CASE InFlight(s)
    BY <2>2 DEF ContentsOf, Shown
  <2> QED BY <2>1, <2>2
<1>3. ASSUME NEW f, NEW s \in Indices, IsAt(s, f) PROVE FileAt(f) = {s}
  <2>1. IsFile(s) /\ KeyOf(s) = f /\ Live(s)
    BY <1>3 DEF IsAt, IsFile, Live
  <2>2. ASSUME NEW r \in 0 .. s - 1 PROVE f # <<table[r].parent, table[r].name>> \/ ~Live(r)
    <3>1. r \in Indices /\ r # s
      <4>1. PICK n : n = file_table_block_count * EntriesPerBlock - 1
        OBVIOUS
      <4>2. Indices = 0 .. n /\ n \in Int
        BY <4>1, Regions, GeometryAssumption DEF Indices
      <4> QED BY <4>2
    <3> QED BY <2>1, <3>1 DEF UniqueNames, KeyOf
  <2>3. s \in FileAt(f)
    BY <2>1, <2>2 DEF FileAt, KeyOf
  <2>4. ASSUME NEW r \in FileAt(f) PROVE r = s
    <3>1. r \in Indices /\ IsFile(r) /\ f = <<table[r].parent, table[r].name>>
      BY <2>4 DEF FileAt
    <3>2. Live(r)
      BY <3>1 DEF IsFile, Live
    <3> QED BY <2>1, <3>1, <3>2 DEF UniqueNames, KeyOf
  <2> QED BY <2>3, <2>4
<1>4. ASSUME NEW f \in Keys PROVE Shows(f)
  <2>1. storeOf[f] = IF pc = "format" \/ FileAt(f) = {} THEN Missing
                     ELSE LET s == CHOOSE s \in FileAt(f) : TRUE IN ContentsOf(s)
    BY DEF storeOf, Keys
  <2>2. ASSUME pc # "format", NEW s \in Indices, IsAt(s, f) PROVE storeOf[f] = Shown(s)
    <3>1. FileAt(f) = {s}
      BY <1>3, <2>2
    <3>2. (CHOOSE r \in FileAt(f) : TRUE) = s
      BY <3>1
    <3>3. storeOf[f] = ContentsOf(s)
      BY <2>1, <2>2, <3>1, <3>2
    <3> QED BY <1>2, <2>2, <3>3 DEF IsAt
  <2>3. ASSUME pc # "format", \A s \in Indices : ~IsAt(s, f) PROVE storeOf[f] = Missing
    <3>1. FileAt(f) = {}
      BY <2>3 DEF FileAt, IsAt, KeyOf
    <3> QED BY <2>1, <3>1
  <2> QED BY <2>1, <2>2, <2>3 DEF Shows
<1> QED BY <1>1, <1>4 DEF StoreIs

\* A file that a step neither makes nor removes, renames or gives new contents.
Stays(s) == /\ IsFile(s) /\ IsFile(s)' /\ KeyOf(s)' = KeyOf(s) /\ Shown(s)' = Shown(s)

\* A step that changes only what is at the names fs, and makes it v, does that to
\* the store.
LEMMA StoreChanges ==
    ASSUME StoreIs, StoreIs', pc # "format", pc' # "format", NEW fs, NEW v,
           \A s \in Indices : IsFile(s) /\ KeyOf(s) \notin fs => Stays(s),
           \A s \in Indices : IsFile(s)' /\ KeyOf(s)' \notin fs => Stays(s),
           \A f \in fs : f \in Keys => storeOf'[f] = v
    PROVE  storeOf' = [f \in Keys |-> IF f \in fs THEN v ELSE storeOf[f]]
<1>1. ASSUME NEW f \in Keys, f \notin fs PROVE storeOf'[f] = storeOf[f]
  <2>1. Shows(f) /\ Shows(f)'
    BY DEF StoreIs
  <2>2. \A s \in Indices : IsAt(s, f) => Stays(s)
    BY <1>1 DEF IsAt
  <2>3. \A s \in Indices : IsAt(s, f)' => Stays(s)
    BY <1>1 DEF IsAt
  <2>4. \A s \in Indices : IsAt(s, f) <=> IsAt(s, f)'
    BY <2>2, <2>3 DEF IsAt, Stays
  <2>5. CASE \E s \in Indices : IsAt(s, f)
    <3>1. PICK s \in Indices : IsAt(s, f) /\ IsAt(s, f)' /\ Shown(s)' = Shown(s)
      BY <2>2, <2>4, <2>5 DEF Stays
    <3>2. storeOf[f] = Shown(s)
      BY <2>1, <3>1 DEF Shows
    <3>3. storeOf'[f] = Shown(s)'
      BY <2>1, <3>1 DEF Shows
    <3> QED BY <3>1, <3>2, <3>3
  <2>6. CASE \A s \in Indices : ~IsAt(s, f)
    <3>1. storeOf[f] = Missing
      BY <2>1, <2>6 DEF Shows
    <3>2. \A s \in Indices : ~IsAt(s, f)'
      BY <2>4, <2>6
    <3>3. storeOf'[f] = Missing'
      BY <2>1, <3>2 DEF Shows
    <3>4. Missing' = Missing
      BY DEF Missing
    <3> QED BY <3>1, <3>3, <3>4
  <2> QED BY <2>5, <2>6
<1>2. \A f \in Keys : storeOf'[f] = IF f \in fs THEN v ELSE storeOf[f]
  BY <1>1
<1>3. storeOf' = [f \in Keys |-> storeOf'[f]]
  BY DEF StoreIs, Keys
<1> QED BY <1>2, <1>3

\* A step that changes nothing of a file changes nothing of the store.
LEMMA StoreStays ==
    ASSUME StoreIs, StoreIs', pc # "format", pc' # "format",
           \A s \in Indices : IsFile(s) \/ IsFile(s)' => Stays(s)
    PROVE  storeOf' = storeOf
<1>0. PICK fs, v : fs = {} /\ v = Missing
  OBVIOUS
<1>1. /\ \A s \in Indices : IsFile(s) /\ KeyOf(s) \notin fs => Stays(s)
      /\ \A s \in Indices : IsFile(s)' /\ KeyOf(s)' \notin fs => Stays(s)
      /\ \A f \in fs : f \in Keys => storeOf'[f] = v
  BY <1>0
<1>2. storeOf' = [f \in Keys |-> IF f \in fs THEN v ELSE storeOf[f]]
  BY <1>1, StoreChanges
<1>3. storeOf = [f \in Keys |-> storeOf[f]]
  BY DEF StoreIs
<1> QED BY <1>0, <1>2, <1>3

\* Of the call in progress, what is seen of it in the store.
SameCall == job'.op = job.op /\ job'.slot = job.slot /\ job'.parent = job.parent
            /\ job'.name = job.name /\ job'.size = job.size /\ job'.tag = job.tag

\* A call works on the entry that has the name it was given; only a creation has
\* none yet.
Keyed ==
    /\ job.op = "write" /\ IsFile(job.slot) => KeyOf(job.slot) = <<job.parent, job.name>>
    /\ job.op = "delete" => IsFile(job.slot)

DataStays == \A s \in Settled : data'[table[s].start] = data[table[s].start]

\* The first block of a file is in use, and no write touches it (363-370).
LEMMA ContentsStay == ASSUME IInv, Chained, Next PROVE DataStays
<1> SUFFICES ASSUME NEW s \in Settled PROVE data'[table[s].start] = data[table[s].start]
  BY DEF DataStays
<1>1. PICK own \in Owners : FileChains(own)
  BY DEF Chained
<1>2. PICK b : b = table[s].start
  OBVIOUS
<1>3. b \in MapIndices
  BY <1>2 DEF IInv, TypeOK, Settled, Entries
<1>4. own[b] = s
  BY <1>1, <1>2 DEF FileChains, FileChain
<1>5. b \in DataBlocks /\ blockMap[b] # Free
  BY <1>1, <1>3, <1>4 DEF FileChains, FileChain, Part
<1>6. data'[b] = data[b]
  BY <1>5, OnlyFreeBlocksStep DEF vars
<1> QED BY <1>2, <1>6

\* A file that no call works on before or after the step.
LEMMA EntryStays ==
    ASSUME DataStays, NEW s \in Indices, IsFile(s), table'[s] = table[s],
           ~InFlight(s), ~InFlight(s)'
    PROVE  Stays(s)
<1>1. s \in Settled
  BY DEF Settled, Slots
<1>2. data'[table[s].start] = data[table[s].start]
  BY <1>1 DEF DataStays
<1>3. Shown(s) = Bytes(table[s].size, data[table[s].start].tag)
  BY DEF Shown
<1>4. Shown(s)' = Bytes(table'[s].size, data'[table'[s].start].tag)
  BY DEF Shown
<1>5. Shown(s)' = Shown(s)
  BY <1>2, <1>3, <1>4 DEF Bytes
<1> QED BY <1>5 DEF Stays, IsFile, KeyOf

\* A step within a call that touches no file's entry shows nothing to a caller.
LEMMA NothingShown ==
    ASSUME FInv, Keyed, DataStays, StoreIs, StoreIs', pc # "format", pc' # "format", SameCall,
           \A s \in Indices : IsFile(s) \/ IsFile(s)' => table'[s] = table[s]
    PROVE  UNCHANGED <<storeOf, callOf>> /\ Keyed'
<1>1. ASSUME NEW s \in Indices, IsFile(s) \/ IsFile(s)' PROVE Stays(s)
  <2>1. table'[s] = table[s] /\ IsFile(s)
    BY <1>1 DEF IsFile
  <2>2. InFlight(s)' <=> InFlight(s)
    BY DEF InFlight, SameCall
  <2>3. CASE ~InFlight(s)
    BY <2>1, <2>2, <2>3, EntryStays
  <2>4. CASE InFlight(s)
    <3>1. Shown(s) = IF job.op = "write" THEN Bytes(job.size, job.tag) ELSE Missing
      BY <2>4 DEF Shown
    <3>2. Shown(s)' = IF job'.op = "write" THEN Bytes(job'.size, job'.tag) ELSE Missing
      BY <2>2, <2>4 DEF Shown
    <3>3. Shown(s)' = Shown(s)
      BY <3>1, <3>2 DEF SameCall
    <3> QED BY <2>1, <3>3 DEF Stays, IsFile, KeyOf
  <2> QED BY <2>3, <2>4
<1>2. storeOf' = storeOf
  BY <1>1, StoreStays
<1>3. job.op = "delete" => IsFile(job.slot) /\ job.slot \in Indices
                             /\ table'[job.slot] = table[job.slot]
  BY DEF Keyed, FInv, NamesInv, Working
<1>4. callOf' = callOf
  BY <1>3 DEF callOf, SameCall, Keys, Bytes, Missing
<1>5. Keyed'
  <2>1. PICK s : s = job.slot
    OBVIOUS
  <2>2. job.op \in {"write", "delete"} => s \in Indices
    BY <2>1 DEF FInv, NamesInv, Working
  <2>3. \A i \in Indices : IsFile(i) \/ IsFile(i)' => Stays(i)
    BY <1>1
  <2>4. job.op \in {"write", "delete"} => (IsFile(s) <=> IsFile(s)')
                                          /\ (IsFile(s) => KeyOf(s)' = KeyOf(s))
    BY <2>2, <2>3 DEF Stays
  <2>5. job'.op = job.op /\ job'.slot = s /\ job'.parent = job.parent /\ job'.name = job.name
    BY <2>1 DEF SameCall
  <2>6. job.op = "write" /\ IsFile(s)' => KeyOf(s)' = <<job.parent, job.name>>
    BY <2>1, <2>4 DEF Keyed
  <2>7. job.op = "delete" => IsFile(s)'
    BY <2>1, <2>4 DEF Keyed
  <2>8. IsFile(job.slot)' = IsFile(s)' /\ KeyOf(job.slot)' = KeyOf(s)'
    BY <2>5 DEF IsFile, KeyOf
  <2> QED BY <2>5, <2>6, <2>7, <2>8 DEF Keyed
<1> QED BY <1>2, <1>4, <1>5

\* What each call is to do to the store.
CallIs ==
    /\ job.op = "none"   => callOf = Store!NoCall
    /\ job.op = "format" => callOf = Store!Format
    /\ job.op = "write"  => callOf = [files |-> {<<job.parent, job.name>>},
                                      contents |-> Bytes(job.size, job.tag)]
    /\ job.op = "delete" => callOf = [files |-> {KeyOf(job.slot)}, contents |-> Missing]

\* The definition of callOf, one call at a time.
LEMMA CallNow == CallIs
BY DEF CallIs, callOf, Store!NoCall, Store!Format, KeyOf

\* The same after a step.
LEMMA CallNext == CallIs'
BY CallNow, PTL

\* A call in progress is one.
LEMMA CallGoesOn == job.op \in {"write", "delete"} => callOf # Store!NoCall
<1>1. Store!NoCall.files = {}
  BY DEF Store!NoCall
<1>2. job.op = "write" => callOf.files = {<<job.parent, job.name>>}
  BY CallNow DEF CallIs
<1>3. job.op = "delete" => callOf.files = {KeyOf(job.slot)}
  BY CallNow DEF CallIs
<1> QED BY <1>1, <1>2, <1>3

\* A call begins, and takes effect at once or not yet.
LEMMA Beginning ==
    ASSUME job.op = "none", callOf' \in Store!Writes \cup Store!Deletes \cup {Store!Format},
           \/ storeOf' = storeOf
           \/ storeOf' = [f \in Keys |-> IF f \in callOf'.files THEN callOf'.contents
                                         ELSE storeOf[f]]
    PROVE  Store!Next
<1>1. callOf = Store!NoCall
  BY CallNow DEF CallIs
<1> QED BY <1>1 DEF Store!Next, Store!Begin, Store!After

\* A call ends, and takes effect at once or has before.
LEMMA Ending ==
    ASSUME job'.op = "none", callOf # Store!NoCall,
           \/ storeOf' = storeOf
           \/ storeOf' = [f \in Keys |-> IF f \in callOf.files THEN callOf.contents
                                         ELSE storeOf[f]]
    PROVE  Store!Next
<1>1. callOf' = Store!NoCall
  BY CallNext DEF CallIs
<1> QED BY <1>1 DEF Store!Next, Store!End, Store!After

\* What a step keeps of the files that no call works on before or after it.
OthersStay(fs) ==
    /\ \A s \in Indices : IsFile(s) /\ KeyOf(s) \notin fs =>
          table'[s] = table[s] /\ ~InFlight(s) /\ ~InFlight(s)'
    /\ \A s \in Indices : IsFile(s)' /\ KeyOf(s)' \notin fs =>
          table'[s] = table[s] /\ ~InFlight(s) /\ ~InFlight(s)'

\* Then it gives the names fs new contents and no other.
LEMMA Changes ==
    ASSUME DataStays, StoreIs, StoreIs', pc # "format", pc' # "format", NEW fs, NEW v,
           OthersStay(fs), \A f \in fs : f \in Keys => storeOf'[f] = v
    PROVE  storeOf' = [f \in Keys |-> IF f \in fs THEN v ELSE storeOf[f]]
<1>1. ASSUME NEW s \in Indices, IsFile(s), KeyOf(s) \notin fs PROVE Stays(s)
  BY <1>1, EntryStays DEF OthersStay
<1>2. ASSUME NEW s \in Indices, IsFile(s)', KeyOf(s)' \notin fs PROVE Stays(s)
  <2>1. table'[s] = table[s] /\ ~InFlight(s) /\ ~InFlight(s)'
    BY <1>2 DEF OthersStay
  <2>2. IsFile(s)
    BY <1>2, <2>1 DEF IsFile
  <2> QED BY <2>1, <2>2, EntryStays
<1> QED BY <1>1, <1>2, StoreChanges

\* chainfs_delete_file begins: the file it found is missing from now on (408-418).
LEMMA DeleteBegins ==
    ASSUME FInv, PlainCallers, DataStays, StoreIs, StoreIs', NEW p \in FilePaths,
           chainfs_delete_file(p)
    PROVE  Store!Next /\ Keyed'
<1> USE DEF FInv
<1>1. PICK s \in Indices : IsFile(s) /\ job' = [NoJob EXCEPT !.op = "delete", !.slot = s,
                                                              !.cur = table[s].start]
  BY DeleteNames
<1>2. job'.op = "delete" /\ job'.slot = s
  BY <1>1 DEF NoJob
<1>3. pc = "idle" /\ pc' = "free" /\ job.op = "none" /\ UNCHANGED table
  BY DEF chainfs_delete_file, disk, IInv, TypeOK
<1>4. PICK f, fs, v : f = KeyOf(s) /\ fs = {f} /\ v = Missing
  OBVIOUS
<1>5. f \in Keys
  <2>1. /\ chainfs_resolve_path(p) = s
    <3>1. PICK r \in {chainfs_resolve_path(p)} \cap Slots :
            job' = [NoJob EXCEPT !.op = "delete", !.slot = r, !.cur = table[r].start]
      BY DEF chainfs_delete_file
    <3>2. job'.slot = r
      BY <3>1 DEF NoJob
    <3> QED BY <1>2, <3>1, <3>2
  <2>2. s # NotFound
    BY Ranges DEF NotFound
  <2>3. table[s].parent = cwd /\ table[s].name = LastName(p)
    BY <1>3, <2>1, <2>2, PlainFound
  <2>4. cwd \in Indices /\ LastName(p) \in Names
    BY PlainPath DEF IInv, TypeOK
  <2> QED BY <1>4, <2>3, <2>4 DEF KeyOf, Keys
<1>6. callOf' = [files |-> fs, contents |-> v]
  <2>1. callOf' = [files |-> {KeyOf(s)'}, contents |-> Missing]
    BY <1>2, CallNext DEF CallIs, KeyOf
  <2> QED BY <1>3, <1>4, <2>1 DEF KeyOf
<1>7. OthersStay(fs)
  BY <1>2, <1>3, <1>4 DEF OthersStay, InFlight, IsFile, KeyOf
<1>8. \A g \in fs : g \in Keys => storeOf'[g] = v
  <2>1. IsAt(s, f)' /\ InFlight(s)'
    BY <1>1, <1>2, <1>3, <1>4 DEF IsAt, IsFile, KeyOf, InFlight
  <2>2. Shown(s)' = Missing
    BY <1>2, <2>1 DEF Shown
  <2>3. Shows(f)'
    BY <1>5 DEF StoreIs
  <2>4. storeOf'[f] = Shown(s)'
    BY <1>3, <2>1, <2>3 DEF Shows
  <2> QED BY <1>4, <2>2, <2>4
<1>9. storeOf' = [g \in Keys |-> IF g \in fs THEN v ELSE storeOf[g]]
  BY <1>3, <1>7, <1>8, Changes
<1>10. callOf' \in Store!Deletes
  BY <1>4, <1>5, <1>6 DEF Store!Deletes
<1>11. Store!Next
  <2>1. callOf'.files = fs /\ callOf'.contents = v
    BY <1>6
  <2> QED BY <1>3, <1>9, <1>10, <2>1, Beginning
<1>12. Keyed'
  BY <1>1, <1>2, <1>3 DEF Keyed, IsFile
<1> QED BY <1>11, <1>12

\* The entry that chainfs_write_file begins to work on has the name it was given,
\* if it is a file's (266-330).
LEMMA WriteKeyed ==
    ASSUME FInv, PlainCallers, NEW p \in FilePaths, NEW z \in Sizes, NEW g \in Tags,
           chainfs_write_file(p, z, g), NEW s, s = job'.slot
    PROVE  /\ s \in Indices /\ job'.op = "write" /\ job'.parent = cwd /\ job'.name = LastName(p)
           /\ job'.size = z /\ job'.tag = g
           /\ IsFile(s) => KeyOf(s) = <<cwd, LastName(p)>>
<1> USE DEF FInv
<1>1. PICK t \in Target(p) :
        job' = [NoJob EXCEPT !.op = "write", !.slot = t.slot, !.cur = t.chain,
                 !.parent = cwd, !.name = LastName(p), !.size = z, !.tag = g]
  BY PlainPath DEF chainfs_write_file, IInv
<1>2. /\ job'.op = "write" /\ job'.slot = t.slot /\ job'.parent = cwd
      /\ job'.name = LastName(p) /\ job'.size = z /\ job'.tag = g
  BY <1>1 DEF NoJob
<1>3. PICK f : f = chainfs_resolve_path(p)
  OBVIOUS
<1>4. pc = "idle"
  BY DEF chainfs_write_file
<1>5. CASE f # NotFound
  <2>1. t = [slot |-> f, chain |-> table[f].start]
    BY <1>3, <1>5 DEF Target
  <2>2. t.slot = f
    BY <2>1
  <2>3. f \in Indices /\ table[f].parent = cwd /\ table[f].name = LastName(p)
    BY <1>3, <1>4, <1>5, PlainFound
  <2> QED BY <1>2, <2>2, <2>3 DEF KeyOf
<1>6. CASE f = NotFound
  <2>1. t = [slot |-> Min(FreeSlots), chain |-> Eof] /\ FreeSlots # {}
    BY <1>3, <1>6 DEF Target
  <2>2. t.slot = Min(FreeSlots)
    BY <2>1
  <2>3. s \in Indices /\ ~Live(s)
    BY <1>2, <2>1, <2>2, FreeSlotType DEF IInv
  <2> QED BY <1>2, <2>3 DEF Live, IsFile
<1> QED BY <1>5, <1>6

\* chainfs_write_file begins: a file that exists is to read as the new contents,
\* and one that does not stays missing until its entry is written.
LEMMA WriteBegins ==
    ASSUME FInv, PlainCallers, DataStays, StoreIs, StoreIs', NEW p \in FilePaths,
           NEW z \in Sizes, NEW g \in Tags, chainfs_write_file(p, z, g)
    PROVE  Store!Next /\ Keyed'
<1> USE DEF FInv
<1>1. PICK s, f : s = job'.slot /\ f = <<cwd, LastName(p)>>
  OBVIOUS
<1>2. /\ s \in Indices /\ job'.op = "write" /\ job'.parent = cwd /\ job'.name = LastName(p)
      /\ job'.size = z /\ job'.tag = g
      /\ IsFile(s) => KeyOf(s) = f
  BY <1>1, WriteKeyed
<1>3. pc = "idle" /\ pc' = "free" /\ job.op = "none" /\ UNCHANGED table
  BY DEF chainfs_write_file, disk, IInv, TypeOK
<1>4. PICK fs, v : fs = {f} /\ v = Bytes(z, g)
  OBVIOUS
<1>5. f \in Keys
  BY <1>1, PlainPath DEF IInv, TypeOK, Keys
<1>6. callOf' = [files |-> fs, contents |-> v]
  BY <1>1, <1>2, <1>4, CallNext DEF CallIs
<1>7. v \in Contents
  BY <1>4 DEF Contents
<1>8. callOf' \in Store!Writes
  <2> DEFINE W(i, b) == [files |-> {i}, contents |-> b]
  <2>1. Store!Writes = {W(i, b) : i \in Keys, b \in Contents}
    BY DEF Store!Writes
  <2>2. W(f, v) \in Store!Writes
    <3> HIDE DEF W
    <3> QED BY <1>5, <1>7, <2>1
  <2> QED BY <1>4, <1>6, <2>2
<1>9. callOf'.files = fs /\ callOf'.contents = v
  BY <1>6
<1>10. CASE IsFile(s)
  <2>1. OthersStay(fs)
    BY <1>1, <1>2, <1>3, <1>4, <1>10 DEF OthersStay, InFlight, IsFile, KeyOf
  <2>2. IsAt(s, f)' /\ InFlight(s)'
    BY <1>1, <1>2, <1>3, <1>10 DEF IsAt, IsFile, KeyOf, InFlight
  <2>3. Shown(s)' = v
    BY <1>2, <1>4, <2>2 DEF Shown
  <2>4. Shows(f)'
    BY <1>5 DEF StoreIs
  <2>5. storeOf'[f] = Shown(s)'
    BY <1>2, <1>3, <2>2, <2>4 DEF Shows
  <2>6. \A h \in fs : h \in Keys => storeOf'[h] = v
    BY <1>4, <2>3, <2>5
  <2>7. storeOf' = [h \in Keys |-> IF h \in fs THEN v ELSE storeOf[h]]
    BY <1>3, <2>1, <2>6, Changes
  <2>8. Store!Next
    BY <1>3, <1>8, <1>9, <2>7, Beginning
  <2>9. KeyOf(job.slot)' = KeyOf(s)
    BY <1>1, <1>3 DEF KeyOf
  <2> QED BY <1>1, <1>2, <1>10, <2>8, <2>9 DEF Keyed
<1>11. CASE ~IsFile(s)
  <2>1. ASSUME NEW r \in Indices, IsFile(r) \/ IsFile(r)' PROVE Stays(r)
    <3>1. IsFile(r) /\ table'[r] = table[r] /\ r # s
      BY <1>3, <1>11, <2>1 DEF IsFile
    <3>2. ~InFlight(r) /\ ~InFlight(r)'
      BY <1>1, <1>3, <3>1 DEF InFlight
    <3> QED BY <3>1, <3>2, EntryStays
  <2>2. storeOf' = storeOf
    BY <1>3, <2>1, StoreStays
  <2>3. Store!Next
    BY <1>3, <1>8, <2>2, Beginning
  <2>4. ~IsFile(job.slot)'
    BY <1>1, <1>3, <1>11 DEF IsFile
  <2> QED BY <1>2, <2>3, <2>4 DEF Keyed
<1> QED BY <1>10, <1>11

\* Unlink ends a delete that the store has seen: the file is gone for good (420-427).
LEMMA DeleteEnds ==
    ASSUME FInv, Keyed, DataStays, StoreIs, StoreIs', Unlink
    PROVE  Store!Next /\ Keyed'
<1> USE DEF FInv
<1>1. PICK s : s = job.slot
  OBVIOUS
<1>2. s \in Indices /\ s \in Slots /\ s # RootSlot /\ IsFile(s) /\ job.op = "delete"
  BY <1>1, Ranges DEF Unlink, Keyed, NamesInv, Working, Slots, RootSlot
<1>3. /\ pc = "free" /\ pc' = "idle" /\ job'.op = "none"
      /\ table' = [table EXCEPT ![s] = Freed(s)]
  BY <1>1 DEF Unlink, Return, NoJob
<1>4. Freed(s).kind = "free"
  BY <1>2 DEF Freed, FreeEntry
<1>5. ~IsFile(s)' /\ \A r \in Indices \ {s} : table'[r] = table[r]
  BY <1>2, <1>3, <1>4 DEF IInv, TypeOK, IsFile, Slots
<1>6. PICK f, fs, v : f = KeyOf(s) /\ fs = {f} /\ v = Missing
  OBVIOUS
<1>7. callOf = [files |-> fs, contents |-> v]
  BY <1>1, <1>2, <1>6, CallNow DEF CallIs
<1>8. OthersStay(fs)
  BY <1>1, <1>2, <1>3, <1>5, <1>6 DEF OthersStay, InFlight, IsFile, KeyOf
<1>9. ASSUME f \in Keys PROVE storeOf'[f] = v
  <2>1. \A r \in Indices : ~IsAt(r, f)'
    <3> SUFFICES ASSUME NEW r \in Indices, IsAt(r, f)' PROVE FALSE
      OBVIOUS
    <3>1. r # s
      BY <1>5 DEF IsAt
    <3>2. table'[r] = table[r]
      BY <1>5, <3>1
    <3>3. IsFile(r) /\ KeyOf(r) = f
      BY <3>2 DEF IsAt, IsFile, KeyOf
    <3> QED BY <1>2, <1>6, <3>1, <3>3 DEF NamesInv, UniqueNames, Live, IsFile, KeyOf
  <2>2. Shows(f)'
    BY <1>9 DEF StoreIs
  <2>3. storeOf'[f] = Missing
    BY <1>3, <2>1, <2>2 DEF Shows
  <2> QED BY <1>6, <2>3
<1>10. \A h \in fs : h \in Keys => storeOf'[h] = v
  BY <1>6, <1>9
<1>11. storeOf' = [h \in Keys |-> IF h \in fs THEN v ELSE storeOf[h]]
  BY <1>3, <1>8, <1>10, Changes
<1>12. callOf.files = fs /\ callOf.contents = v /\ callOf # Store!NoCall
  BY <1>2, <1>7, CallGoesOn
<1>13. Store!Next
  BY <1>3, <1>11, <1>12, Ending
<1> QED BY <1>3, <1>13 DEF Keyed

\* CommitEntry ends a write: from now on the name reads as what was written, all
\* of it (377-403).
LEMMA WriteEnds ==
    ASSUME FInv, PlainCallers, Chained, Keyed, DataStays, StoreIs, StoreIs', CommitEntry
    PROVE  Store!Next /\ Keyed'
<1> USE DEF FInv
<1>1. PICK s, f : s = job.slot /\ f = <<job.parent, job.name>>
  OBVIOUS
<1>2. pc = "commit" /\ job.op = "write" /\ s \in Indices /\ s \in Slots /\ job.name \in FileNames
  BY <1>1 DEF CommitEntry, IInv, TypeOK, NamesInv, Working, Slots
<1>3. job.name # NoName /\ Kept[job.name] = job.name
  <2>1. PICK p \in FilePaths : job.name = LastName(p)
    BY <1>2 DEF FileNames
  <2>2. LastName(p) # NoName
    BY <2>1, PlainPath DEF IInv
  <2> QED BY <1>2, <2>1, <2>2 DEF PlainCallers
<1>4. /\ pc' = "idle" /\ job'.op = "none" /\ UNCHANGED data
      /\ table' = [table EXCEPT ![s] = [kind |-> "file", size |-> job.size, start |-> job.start,
                                        parent |-> job.parent, name |-> job.name]]
  BY <1>1, <1>3 DEF CommitEntry, Return, NoJob
<1>5. \A r \in Indices \ {s} : table'[r] = table[r]
  BY <1>4 DEF IInv, TypeOK, Slots
<1>6. /\ table'[s].kind = "file" /\ table'[s].size = job.size /\ table'[s].start = job.start
      /\ table'[s].parent = job.parent /\ table'[s].name = job.name
  <2>1. table'[s] = [kind |-> "file", size |-> job.size, start |-> job.start,
                     parent |-> job.parent, name |-> job.name]
    BY <1>2, <1>4 DEF IInv, TypeOK
  <2> QED BY <2>1
<1>7. data[job.start].tag = job.tag
  <2>1. PICK own \in Owners : CallChain(own)
    BY DEF Chained
  <2>2. Writing /\ job.todo = {} /\ job.start \in MapIndices
    BY <1>2, <2>1 DEF CallChain, Writing, IInv, TypeOK, Jobs
  <2>3. own[job.start] = NotFound
    BY <2>1, <2>2 DEF CallChain
  <2> QED BY <2>1, <2>2, <2>3 DEF CallChain
<1>8. PICK fs, v : fs = {f} /\ v = Bytes(job.size, job.tag)
  OBVIOUS
<1>9. callOf = [files |-> fs, contents |-> v]
  BY <1>1, <1>2, <1>8, CallNow DEF CallIs
<1>10. OthersStay(fs)
  <2>1. IsFile(s) => KeyOf(s) \in fs
    BY <1>1, <1>2, <1>8 DEF Keyed
  <2>2. KeyOf(s)' \in fs
    BY <1>1, <1>6, <1>8 DEF KeyOf
  <2> QED BY <1>1, <1>4, <1>5, <2>1, <2>2 DEF OthersStay, InFlight
<1>11. ASSUME f \in Keys PROVE storeOf'[f] = v
  <2>1. IsAt(s, f)'
    BY <1>1, <1>6 DEF IsAt, IsFile, KeyOf
  <2>2. Shown(s)' = Bytes(table'[s].size, data'[table'[s].start].tag)
    BY <1>4 DEF Shown, InFlight
  <2>3. Shown(s)' = v
    BY <1>4, <1>6, <1>7, <1>8, <2>2
  <2>4. Shows(f)'
    BY <1>11 DEF StoreIs
  <2>5. storeOf'[f] = Shown(s)'
    BY <1>2, <1>4, <2>1, <2>4 DEF Shows
  <2> QED BY <2>3, <2>5
<1>12. \A h \in fs : h \in Keys => storeOf'[h] = v
  BY <1>8, <1>11
<1>13. storeOf' = [h \in Keys |-> IF h \in fs THEN v ELSE storeOf[h]]
  BY <1>2, <1>4, <1>10, <1>12, Changes
<1>14. callOf.files = fs /\ callOf.contents = v /\ callOf # Store!NoCall
  BY <1>2, <1>9, CallGoesOn
<1>15. Store!Next
  BY <1>4, <1>13, <1>14, Ending
<1> QED BY <1>4, <1>15 DEF Keyed

\* A write that gives up is one of a name that had no file, and has none (337-347).
LEMMA WriteFails ==
    ASSUME FInv, DataStays, StoreIs, StoreIs', GiveUp, RewriteFits
    PROVE  Store!Next /\ Keyed'
<1>1. /\ pc = "free" /\ pc' = "idle" /\ job.op = "write" /\ job'.op = "none"
      /\ UNCHANGED <<table, data>>
  BY DEF GiveUp, Return, NoJob, disk
<1>2. ~IsFile(job.slot)
  BY <1>1 DEF RewriteFits
<1>3. ASSUME NEW s \in Indices, IsFile(s) \/ IsFile(s)' PROVE Stays(s)
  <2>1. IsFile(s) /\ table'[s] = table[s]
    BY <1>1, <1>3 DEF IsFile
  <2>2. ~InFlight(s) /\ ~InFlight(s)'
    BY <1>1, <1>2, <2>1 DEF InFlight
  <2> QED BY <2>1, <2>2, EntryStays
<1>4. storeOf' = storeOf
  BY <1>1, <1>3, StoreStays
<1>5. Store!Next
  BY <1>1, <1>4, CallGoesOn, Ending
<1> QED BY <1>1, <1>5 DEF Keyed

\* A format takes effect when it writes the superblock (58-68) ...
LEMMA FormatBegins ==
    ASSUME FInv, StoreIs, StoreIs', chainfs_format
    PROVE  Store!Next /\ Keyed'
<1>1. pc = "idle" /\ pc' = "format" /\ job.op = "none" /\ job'.op = "format"
  BY DEF chainfs_format, NoJob, FInv, IInv, TypeOK
<1>2. callOf' = Store!Format
  BY <1>1, CallNext DEF CallIs
<1>3. callOf'.files = Keys /\ callOf'.contents = Missing
  BY <1>2 DEF Store!Format
<1>4. \A f \in Keys : storeOf'[f] = Missing
  BY <1>1 DEF StoreIs, Shows
<1>5. storeOf' = [f \in Keys |-> storeOf'[f]]
  BY DEF StoreIs, Keys
<1>6. storeOf' = [f \in Keys |-> IF f \in callOf'.files THEN callOf'.contents ELSE storeOf[f]]
  BY <1>3, <1>4, <1>5
<1>7. Store!Next
  BY <1>1, <1>2, <1>6, Beginning
<1> QED BY <1>1, <1>7 DEF Keyed

\* ... and when its last sector is written there are still no files (71-118).
LEMMA FormatGoesOn ==
    ASSUME FInv, StoreIs, StoreIs', FormatSector
    PROVE  [Store!Next]_<<storeOf, callOf>> /\ Keyed'
<1> USE DEF FInv
<1>1. PICK k \in Nat : k = job.k
  BY DEF IInv, TypeOK, Jobs
<1>2. pc = "format" /\ job.op = "format"
  BY DEF FormatSector, IInv, TypeOK
<1>3. storeOf = [f \in Keys |-> Missing]
  <2>1. \A f \in Keys : storeOf[f] = Missing
    BY <1>2 DEF StoreIs, Shows
  <2>2. storeOf = [f \in Keys |-> storeOf[f]]
    BY DEF StoreIs
  <2> QED BY <2>1, <2>2
<1>4. CASE k + 1 < data_area_start
  <2>1. pc' = "format" /\ job'.op = "format"
    BY <1>1, <1>2, <1>4 DEF FormatSector, IInv, TypeOK, Jobs
  <2>2. \A f \in Keys : storeOf'[f] = Missing
    BY <2>1 DEF StoreIs, Shows
  <2>3. storeOf' = [f \in Keys |-> storeOf'[f]]
    BY DEF StoreIs, Keys
  <2>4. callOf = Store!Format
    BY <1>2, CallNow DEF CallIs
  <2>5. callOf' = Store!Format
    BY <2>1, CallNext DEF CallIs
  <2> QED BY <1>3, <2>1, <2>2, <2>3, <2>4, <2>5 DEF Keyed
<1>5. CASE ~(k + 1 < data_area_start)
  <2>1. pc' = "idle" /\ job'.op = "none"
    BY <1>1, <1>5 DEF FormatSector, Return, NoJob
  <2>2. FormatDone(k + 1)' /\ k < data_area_start
    BY <1>1, SectorCleared
  <2>3. \A i \in Indices : SectorOf(i) < k + 1
    BY <1>5, SectorBounds, Regions DEF data_area_start
  <2>4. \A i \in Indices : ~IsFile(i)'
    BY <2>2, <2>3, RootEntryFields DEF FormatDone, IsFile
  <2>5. \A f \in Keys : storeOf'[f] = Missing
    BY <2>1, <2>4 DEF StoreIs, Shows, IsAt
  <2>6. storeOf' = [f \in Keys |-> storeOf'[f]]
    BY DEF StoreIs, Keys
  <2>7. storeOf' = storeOf
    BY <1>3, <2>5, <2>6
  <2>8. callOf # Store!NoCall => Store!Next
    BY <2>1, <2>7, Ending
  <2>9. callOf = Store!NoCall => UNCHANGED <<storeOf, callOf>>
    BY <2>1, <2>7, CallNext DEF CallIs
  <2> QED BY <2>1, <2>8, <2>9 DEF Keyed
<1> QED BY <1>4, <1>5

\* mkdir, chdir and rmdir touch no file's entry (557-701).
LEMMA DirectoriesOnly ==
    ASSUME FInv, PlainCallers, NEW p \in DirPaths,
           chainfs_mkdir(p) \/ chainfs_chdir(p) \/ chainfs_rmdir(p),
           NEW s \in Indices, IsFile(s) \/ IsFile(s)'
    PROVE  table'[s] = table[s]
<1> USE DEF FInv
<1>1. s \in Slots /\ TypeOK
  BY DEF Slots, IInv
<1>2. CASE chainfs_chdir(p)
  BY <1>2 DEF chainfs_chdir, disk
<1>3. CASE chainfs_mkdir(p)
  <2>0. PICK d : table' = [table EXCEPT ![Min(FreeSlots)] =
                    [kind |-> "dir", name |-> LastName(p), size |-> 0, start |-> 0, parent |-> d]]
    BY <1>3 DEF chainfs_mkdir
  <2>1. PICK t, e : /\ t = Min(FreeSlots) /\ table' = [table EXCEPT ![t] = e] /\ e.kind = "dir"
    <3>1. PICK e : e = [kind |-> "dir", name |-> LastName(p), size |-> 0, start |-> 0,
                        parent |-> d]
      OBVIOUS
    <3>2. e.kind = "dir" /\ table' = [table EXCEPT ![Min(FreeSlots)] = e]
      BY <2>0, <3>1
    <3> QED BY <3>2
  <2>2. ~Live(t)
    BY <1>1, <1>3, <2>1, FreeSlotType DEF chainfs_mkdir
  <2> QED BY <1>1, <2>1, <2>2 DEF TypeOK, IsFile, Live
<1>4. CASE chainfs_rmdir(p)
  <2>1. PICK t \in Slots : IsDir(t) /\ SectorOf(t) # Root /\ table' = [table EXCEPT ![t] = Freed(t)]
    BY <1>4 DEF chainfs_rmdir
  <2>2. t # RootSlot
    BY <2>1 DEF SectorOf, Root
  <2>3. Freed(t).kind = "free"
    BY <2>2 DEF Freed, FreeEntry
  <2> QED BY <1>1, <2>1, <2>3 DEF TypeOK, IsFile, IsDir
<1> QED BY <1>2, <1>3, <1>4

\* Every step of the driver is one of the store, or none that a caller sees.
LEMMA FilesStoreStep ==
    ASSUME PlainCallers, FInv, Chained, Keyed, StoreIs, StoreIs', [FilesNext]_vars
    PROVE  [Store!Next]_<<storeOf, callOf>> /\ Keyed'
<1> USE DEF FInv
<1>1. DataStays
  <2>1. CASE UNCHANGED vars
    BY <2>1 DEF vars, DataStays
  <2>2. CASE FilesNext
    BY <2>2, ContentsStay DEF FilesNext, Next
  <2> QED BY <2>1, <2>2
<1>2. CASE /\ pc # "format" /\ pc' # "format" /\ SameCall
           /\ \A s \in Indices : IsFile(s) \/ IsFile(s)' => table'[s] = table[s]
  BY <1>1, <1>2, NothingShown
<1>3. CASE UNCHANGED vars
  <2>1. CASE pc # "format"
    BY <1>2, <1>3, <2>1 DEF vars, SameCall
  <2>2. CASE pc = "format"
    <3>1. storeOf' = storeOf
      <4>1. \A f \in Keys : storeOf[f] = Missing /\ storeOf'[f] = Missing
        BY <1>3, <2>2 DEF vars, StoreIs, Shows
      <4>2. storeOf = [f \in Keys |-> storeOf[f]] /\ storeOf' = [f \in Keys |-> storeOf'[f]]
        BY DEF StoreIs, Keys
      <4> QED BY <4>1, <4>2
    <3>2. job.op = "format" /\ job'.op = "format"
      BY <1>3, <2>2 DEF vars, IInv, TypeOK
    <3>3. callOf' = callOf
      BY <3>2, CallNow, CallNext DEF CallIs, Store!Format
    <3> QED BY <3>1, <3>2, <3>3 DEF Keyed
  <2> QED BY <2>1, <2>2
<1>4. CASE FilesNext
  <2>1. CASE chainfs_init
    BY <1>2, <2>1 DEF chainfs_init, disk, SameCall
  <2>2. CASE chainfs_format
    BY <2>2, FormatBegins
  <2>3. ASSUME NEW p \in DirPaths, chainfs_mkdir(p) \/ chainfs_chdir(p) \/ chainfs_rmdir(p)
        PROVE  [Store!Next]_<<storeOf, callOf>> /\ Keyed'
    <3>1. \A s \in Indices : IsFile(s) \/ IsFile(s)' => table'[s] = table[s]
      BY <2>3, DirectoriesOnly
    <3>2. pc = "idle" /\ UNCHANGED <<pc, job>>
      BY <2>3 DEF chainfs_mkdir, chainfs_chdir, chainfs_rmdir
    <3> QED BY <1>2, <3>1, <3>2 DEF SameCall
  <2>4. ASSUME NEW p \in FilePaths, chainfs_delete_file(p)
        PROVE  [Store!Next]_<<storeOf, callOf>> /\ Keyed'
    BY <1>1, <2>4, DeleteBegins
  <2>5. ASSUME NEW p \in FilePaths, NEW z \in Sizes, NEW g \in Tags, chainfs_write_file(p, z, g)
        PROVE  [Store!Next]_<<storeOf, callOf>> /\ Keyed'
    BY <1>1, <2>5, WriteBegins
  <2>6. CASE FormatSector
    BY <2>6, FormatGoesOn
  <2>7. CASE chainfs_free_block_chain \/ chainfs_find_free_blocks \/ WriteDataBlock \/ LinkBlock
    <3>1. job \in Jobs
      BY DEF IInv, TypeOK
    <3>2. pc # "format" /\ pc' # "format" /\ UNCHANGED table
      BY <2>7 DEF chainfs_free_block_chain, chainfs_find_free_blocks, WriteDataBlock,
                   LinkBlock, disk
    <3>3. SameCall
      <4>1. CASE LinkBlock
        <5>1. PICK rest, k : job' = [job EXCEPT !.todo = rest, !.k = k]
          BY <4>1 DEF LinkBlock
        <5> QED BY <3>1, <5>1 DEF SameCall, Jobs
      <4>2. CASE chainfs_free_block_chain
        BY <3>1, <4>2 DEF chainfs_free_block_chain, SameCall, Jobs
      <4>3. CASE chainfs_find_free_blocks
        <5>1. PICK A, c : job' = [job EXCEPT !.cur = Eof, !.todo = A, !.start = c]
          BY <4>3 DEF chainfs_find_free_blocks
        <5> QED BY <3>1, <5>1 DEF SameCall, Jobs
      <4>4. CASE WriteDataBlock
        BY <4>4 DEF WriteDataBlock, SameCall
      <4> QED BY <2>7, <4>1, <4>2, <4>3, <4>4
    <3> QED BY <1>2, <3>2, <3>3
  <2>8. CASE GiveUp
    BY <1>1, <1>4, <2>8, WriteFails DEF FilesNext
  <2>9. CASE CommitEntry
    BY <1>1, <2>9, WriteEnds
  <2>10. CASE Unlink
    BY <1>1, <2>10, DeleteEnds
  <2> QED BY <1>4, <2>1, <2>2, <2>3, <2>4, <2>5, <2>6, <2>7, <2>8, <2>9, <2>10
          DEF FilesNext, Call, Step
<1> QED BY <1>3, <1>4

\* The driver implements the store: seen through read_file, a name holds what the
\* last call to it wrote, all of it and at once, and no other call changes it
\* (219-428).
THEOREM StoreImplemented == PlainCallers /\ FilesSpec => ImplementsFileStore
<1>1. FInv /\ Chained => StoreIs
  BY FilesWhole, StoreShows DEF FInv, IInv, NamesInv, Chained
<1>2. Init => Keyed
  BY DEF Init, NoJob, Keyed
<1>3. Init /\ StoreIs => Store!Init
  <2> SUFFICES ASSUME Init, StoreIs PROVE Store!Init
    OBVIOUS
  <2>1. \A s \in Indices : ~IsFile(s)
    BY Ranges, RootEntryFields DEF Init, Slots, RootSlot, IsFile
  <2>2. pc # "format" /\ job.op = "none"
    BY DEF Init, NoJob
  <2>3. \A f \in Keys : storeOf[f] = Missing
    BY <2>1, <2>2 DEF StoreIs, Shows, IsAt
  <2>4. storeOf = [f \in Keys |-> storeOf[f]]
    BY DEF StoreIs
  <2>5. callOf = Store!NoCall
    BY <2>2, CallNow DEF CallIs
  <2> QED BY <2>3, <2>4, <2>5 DEF Store!Init
<1>4. PlainCallers /\ FInv /\ Chained /\ Keyed /\ StoreIs /\ StoreIs' /\ [FilesNext]_vars
        => [Store!Next]_<<storeOf, callOf>> /\ Keyed'
  BY FilesStoreStep
<1>5. PlainCallers => PlainCallers'
  BY DEF PlainCallers, FileNames, DirNames, LastName
<1>6. PlainCallers /\ FilesSpec => [](FInv /\ Chained)
  BY FilesChainsInductive
<1> QED BY <1>1, <1>2, <1>3, <1>4, <1>5, <1>6, PTL DEF FilesSpec, ImplementsFileStore, Store!Spec

-----------------------------------------------------------------------------
(* What callers that only create see of a creation, wherever the machine is *)
(* reset. Names need not be unique for them: a lookup ends at the first.    *)

AllReadWhole ==
    \A s \in Settled : chainfs_read_file(s) = Bytes(table[s].size, data[table[s].start].tag)

\* Reading gives the whole of every file, if all are intact.
LEMMA AllWhole == TypeOK /\ FilesIntact => AllReadWhole
BY ReadsWhole DEF AllReadWhole

FirstAt(f) == CHOOSE s \in FileAt(f) : TRUE
Reads == \A f \in Keys :
    storeOf[f] = IF pc = "format" \/ FileAt(f) = {} THEN Missing ELSE ContentsOf(FirstAt(f))
StoreIsMap == storeOf = [f \in Keys |-> storeOf[f]]

\* What a name reads as: what the first file of this name holds.
LEMMA StoreReads == Reads /\ StoreIsMap
BY DEF Reads, StoreIsMap, storeOf, Keys, FirstAt

\* The same after a step.
LEMMA StoreReadsNext == Reads' /\ StoreIsMap'
BY StoreReads, PTL

Leads(r, f) == Live(r) /\ KeyOf(r) = f
First(f) == FileAt(f) = {t \in Indices : IsAt(t, f) /\ \A r \in Indices : r < t => ~Leads(r, f)}

\* A name leads to a file if no entry before it has the name.
LEMMA FirstNow == \A f : First(f)
<1>1. ASSUME NEW t \in Indices PROVE 0 .. t - 1 = {r \in Indices : r < t}
  <2>1. PICK n : n = file_table_block_count * EntriesPerBlock - 1
    OBVIOUS
  <2>2. Indices = 0 .. n /\ n \in Int
    BY <2>1, Regions, GeometryAssumption DEF Indices
  <2> QED BY <2>2
<1>2. ASSUME NEW f, NEW t \in Indices
      PROVE  (\A r \in 0 .. t - 1 : f # <<table[r].parent, table[r].name>> \/ ~Live(r))
               <=> \A r \in Indices : r < t => ~Leads(r, f)
  BY <1>1 DEF Leads, KeyOf
<1> QED BY <1>2 DEF First, FileAt, IsAt, KeyOf

\* The same after a step.
LEMMA FirstNext == (\A f : First(f))'
BY FirstNow, PTL

\* A name that leads to the same file, of which nothing changes, reads as before.
LEMMA ReadsOn ==
    ASSUME NEW f \in Keys, pc # "format", pc' # "format", FileAt(f)' = FileAt(f),
           \A s \in FileAt(f) : ContentsOf(s)' = ContentsOf(s)
    PROVE  storeOf'[f] = storeOf[f]
<1>1. storeOf[f] = IF FileAt(f) = {} THEN Missing ELSE ContentsOf(FirstAt(f))
  BY StoreReads DEF Reads
<1>2. storeOf'[f] = IF FileAt(f)' = {} THEN Missing' ELSE ContentsOf(FirstAt(f))'
  BY StoreReadsNext DEF Reads
<1>3. Missing' = Missing
  BY DEF Missing
<1>4. CASE FileAt(f) = {}
  BY <1>1, <1>2, <1>3, <1>4
<1>5. CASE FileAt(f) # {}
  <2>1. PICK s \in FileAt(f) : s = FirstAt(f)
    BY <1>5 DEF FirstAt
  <2>2. FirstAt(f)' = s
    BY <2>1 DEF FirstAt
  <2>3. ContentsOf(FirstAt(f))' = ContentsOf(s)'
    BY <2>2 DEF ContentsOf, InFlight, chainfs_read_file
  <2> QED BY <1>1, <1>2, <1>5, <2>1, <2>3
<1> QED BY <1>4, <1>5

\* A file whose entry a step leaves alone, and that no call works on, reads as before.
LEMMA FileReadsOn ==
    ASSUME AllReadWhole, AllReadWhole', DataStays, NEW s \in Indices, IsFile(s),
           table'[s] = table[s], ~InFlight(s), ~InFlight(s)'
    PROVE  ContentsOf(s)' = ContentsOf(s)
<1>1. s \in Settled /\ s \in Settled'
  BY DEF Settled, Slots, IsFile
<1>2. ContentsOf(s) = Bytes(table[s].size, data[table[s].start].tag)
  BY <1>1 DEF AllReadWhole, ContentsOf
<1>3. ContentsOf(s)' = Bytes(table'[s].size, data'[table'[s].start].tag)
  BY <1>1 DEF AllReadWhole, ContentsOf
<1>4. data'[table[s].start] = data[table[s].start]
  BY <1>1 DEF DataStays
<1> QED BY <1>2, <1>3, <1>4 DEF Bytes

\* The call is over, or it still works on the same slot.
GoesOnOrEnds == job'.op = "none" \/ (job'.op = job.op /\ job'.slot = job.slot)

\* A creation that goes on, gives up or is cut short shows nothing (331-375).
LEMMA NothingCreated ==
    ASSUME Creating, AllReadWhole, AllReadWhole', DataStays, pc # "format", pc' # "format",
           job.op = "write", UNCHANGED table,
           GoesOnOrEnds
    PROVE  storeOf' = storeOf
<1>1. ASSUME NEW f \in Keys PROVE storeOf'[f] = storeOf[f]
  <2>1. FileAt(f)' = FileAt(f)
    BY DEF FileAt, IsFile, Live
  <2>2. ASSUME NEW s \in FileAt(f) PROVE ContentsOf(s)' = ContentsOf(s)
    <3>1. s \in Indices /\ IsFile(s)
      BY DEF FileAt
    <3>2. s # job.slot
      BY <3>1 DEF Creating, Live, IsFile
    <3>3. ~InFlight(s) /\ ~InFlight(s)'
      BY <3>2 DEF InFlight, GoesOnOrEnds
    <3> QED BY <3>1, <3>3, FileReadsOn
  <2> QED BY <2>1, <2>2, ReadsOn
<1> QED BY <1>1, StoreReads, StoreReadsNext DEF StoreIsMap

\* The last block of a creation written and linked, its chain begins with its bytes.
LEMMA ChainWritten ==
    ASSUME TypeOK, Chained, pc = "commit"
    PROVE  data[job.start].tag = job.tag
<1>1. PICK own \in Owners : CallChain(own)
  BY DEF Chained
<1>2. Writing /\ job.start \in MapIndices /\ job.todo = {}
  BY <1>1 DEF CallChain, Writing, TypeOK, Jobs
<1>3. own[job.start] = NotFound
  BY <1>1, <1>2 DEF CallChain
<1> QED BY <1>1, <1>2, <1>3 DEF CallChain

\* CommitEntry shows the file under its name, unless an entry before it has the
\* name; no other name reads otherwise than before (377-403).
LEMMA Created ==
    ASSUME IInv, Chained, Creating, ShortNames, AllReadWhole, AllReadWhole', DataStays, CommitEntry
    PROVE  storeOf' = storeOf \/ storeOf' = Store!After(callOf)
<1>0. TypeOK /\ pc = "commit" /\ job.op = "write"
  BY DEF IInv, TypeOK, CommitEntry
<1>1. PICK s, g : s = job.slot /\ g = <<job.parent, job.name>>
  OBVIOUS
<1>2. s \in Indices /\ s \in Slots /\ ~Live(s)
  BY <1>0, <1>1 DEF Creating, Slots
<1>3. PICK e : /\ e = [kind |-> "file", size |-> job.size, start |-> job.start,
                       parent |-> job.parent, name |-> job.name]
               /\ table' = [table EXCEPT ![s] = e]
  <2>1. job.name # NoName => Kept[job.name] = job.name
    BY <1>0 DEF TypeOK, Jobs, ShortNames
  <2> QED BY <1>1, <2>1 DEF CommitEntry
<1>4. table'[s] = e /\ \A r \in Indices \ {s} : table'[r] = table[r]
  BY <1>0, <1>2, <1>3 DEF TypeOK, Slots
<1>5. /\ e.kind = "file" /\ e.size = job.size /\ e.start = job.start
      /\ <<e.parent, e.name>> = g
  BY <1>1, <1>3
<1>6. pc' = "idle" /\ job'.op = "none" /\ UNCHANGED data
  BY DEF CommitEntry, Return, NoJob
<1>7. \A r \in Indices \ {s} : /\ IsFile(r)' <=> IsFile(r)
                               /\ Live(r)' <=> Live(r)
                               /\ KeyOf(r)' = KeyOf(r)
  BY <1>4 DEF IsFile, Live, KeyOf
<1>8. IsFile(s)' /\ Live(s)' /\ KeyOf(s)' = g
  BY <1>4, <1>5 DEF IsFile, Live, KeyOf
<1>9. ASSUME NEW f \in Keys, FileAt(f)' = FileAt(f) PROVE storeOf'[f] = storeOf[f]
  <2>1. ASSUME NEW r \in FileAt(f) PROVE ContentsOf(r)' = ContentsOf(r)
    <3>1. r \in Indices /\ IsFile(r)
      BY DEF FileAt
    <3>2. r # s
      BY <1>2, <3>1 DEF IsFile, Live
    <3>3. table'[r] = table[r] /\ ~InFlight(r) /\ ~InFlight(r)'
      BY <1>1, <1>4, <1>6, <3>1, <3>2 DEF InFlight
    <3> QED BY <3>1, <3>3, FileReadsOn
  <2> QED BY <1>0, <1>6, <1>9, <2>1, ReadsOn
<1>10. ASSUME NEW f \in Keys, f # g PROVE FileAt(f)' = FileAt(f)
  <2>1. \A r \in Indices : (IsAt(r, f)' <=> IsAt(r, f)) /\ (Leads(r, f)' <=> Leads(r, f))
    BY <1>2, <1>7, <1>8, <1>10 DEF IsAt, Leads, IsFile, Live
  <2>2. First(f) /\ First(f)'
    BY FirstNow, FirstNext
  <2> QED BY <2>1, <2>2 DEF First
<1>11. \A r \in Indices \ {s} : (IsAt(r, g)' <=> IsAt(r, g)) /\ (Leads(r, g)' <=> Leads(r, g))
  BY <1>7 DEF IsAt, Leads
<1>12. IsAt(s, g)' /\ Leads(s, g)' /\ ~IsAt(s, g) /\ ~Leads(s, g)
  BY <1>2, <1>8 DEF IsAt, Leads, IsFile, Live
<1>13. First(g) /\ First(g)' /\ Indices \subseteq Nat
  BY FirstNow, FirstNext, Ranges
<1>14. CASE s \notin FileAt(g)'
  <2>1. PICK q \in Indices : q < s /\ Leads(q, g)
    <3>1. PICK q \in Indices : q < s /\ Leads(q, g)'
      BY <1>2, <1>12, <1>13, <1>14 DEF First
    <3>2. q # s
      BY <1>2, <1>13, <3>1
    <3> QED BY <1>11, <3>1, <3>2
  <2>2. ASSUME NEW t \in FileAt(g)' PROVE t \in FileAt(g)
    <3>1. t \in Indices /\ t # s /\ IsAt(t, g)' /\ \A r \in Indices : r < t => ~Leads(r, g)'
      BY <1>13, <1>14, <2>2 DEF First
    <3>2. \A r \in Indices : r < t => ~Leads(r, g)
      BY <1>11, <1>12, <3>1
    <3> QED BY <1>11, <1>13, <3>1, <3>2 DEF First
  <2>3. ASSUME NEW t \in FileAt(g) PROVE t \in FileAt(g)'
    <3>1. t \in Indices /\ IsAt(t, g) /\ \A r \in Indices : r < t => ~Leads(r, g)
      BY <1>13, <2>3 DEF First
    <3>2. t # s /\ ~(s < t)
      <4>1. s < t => q < t
        BY <1>2, <1>13, <2>1, <3>1
      <4> QED BY <1>12, <2>1, <3>1, <4>1
    <3>3. \A r \in Indices : r < t => ~Leads(r, g)'
      BY <1>11, <3>1, <3>2
    <3> QED BY <1>11, <1>13, <3>1, <3>2, <3>3 DEF First
  <2>4. FileAt(g)' = FileAt(g)
    BY <2>2, <2>3
  <2>5. \A f \in Keys : storeOf'[f] = storeOf[f]
    BY <1>9, <1>10, <2>4
  <2> QED BY <2>5, StoreReads, StoreReadsNext DEF StoreIsMap
<1>15. CASE s \in FileAt(g)'
  <2>1. FileAt(g)' = {s}
    <3> SUFFICES ASSUME NEW t \in FileAt(g)' PROVE t = s
      BY <1>15
    <3>1. t \in Indices /\ IsAt(t, g)' /\ \A r \in Indices : r < t => ~Leads(r, g)'
      BY <1>13 DEF First
    <3>2. \A r \in Indices : r < s => ~Leads(r, g)'
      BY <1>13, <1>15 DEF First
    <3>3. Leads(t, g)'
      BY <3>1 DEF Leads, IsAt, Live, IsFile
    <3>4. ~(t < s) /\ ~(s < t)
      BY <1>2, <1>12, <3>1, <3>2, <3>3
    <3> QED BY <1>2, <1>13, <3>1, <3>4
  <2>2. FirstAt(g)' = s
    BY <2>1 DEF FirstAt
  <2>3. PICK v : v = Bytes(job.size, job.tag)
    OBVIOUS
  <2>4. ContentsOf(s)' = v
    <3>1. ~InFlight(s)' /\ s \in Settled'
      BY <1>2, <1>6, <1>8 DEF InFlight, Settled
    <3>2. ContentsOf(s)' = Bytes(table'[s].size, data'[table'[s].start].tag)
      BY <3>1 DEF AllReadWhole, ContentsOf
    <3>3. data[job.start].tag = job.tag
      BY <1>0, ChainWritten
    <3> QED BY <1>4, <1>5, <1>6, <2>3, <3>2, <3>3
  <2>5. g \in Keys => storeOf'[g] = v
    <3> SUFFICES ASSUME g \in Keys PROVE storeOf'[g] = v
      OBVIOUS
    <3>1. storeOf'[g] = ContentsOf(FirstAt(g))'
      BY <1>6, <2>1, StoreReadsNext DEF Reads
    <3>2. ContentsOf(FirstAt(g))' = ContentsOf(s)'
      BY <2>2 DEF ContentsOf, InFlight, chainfs_read_file
    <3> QED BY <2>4, <3>1, <3>2
  <2>6. callOf.files = {g} /\ callOf.contents = v
    BY <1>0, <1>1, <2>3, CallNow DEF CallIs
  <2>7. \A f \in Keys : storeOf'[f] = IF f \in callOf.files THEN callOf.contents ELSE storeOf[f]
    BY <1>9, <1>10, <2>5, <2>6
  <2> QED BY <2>7, StoreReadsNext DEF StoreIsMap, Store!After
<1> QED BY <1>14, <1>15

\* Within a call that creates, nothing is shown before its last step.
LEMMA CreationStep ==
    ASSUME CInv, ShortNames, AllReadWhole, AllReadWhole', pc \notin {"idle", "format"},
           Next, CreateOnly
    PROVE  storeOf' \in {storeOf, Store!After(callOf)}
<1> USE DEF CInv
<1>0. IInv /\ TypeOK /\ Chained /\ Creating /\ DataStays
  BY ContentsStay DEF IInv
<1>1. job.op = "write"
  <2>1. job.op \in {"none", "format", "write", "delete"} /\ job.op # "delete"
    BY <1>0 DEF TypeOK, Jobs, Creating
  <2>2. (pc = "idle") = (job.op = "none") /\ (pc = "format") = (job.op = "format")
    BY <1>0 DEF TypeOK
  <2>3. pc # "idle" /\ pc # "format"
    OBVIOUS
  <2>4. job.op # "none" /\ job.op # "format"
    BY <2>2, <2>3
  <2> QED BY <2>1, <2>4
<1>2. CASE CommitEntry
  <2>1. storeOf' = storeOf \/ storeOf' = Store!After(callOf)
    BY <1>0, <1>2, Created
  <2> QED BY <2>1
<1>3. CASE GiveUp \/ Crash
  <2>1. pc' = "idle" /\ job'.op = "none" /\ UNCHANGED table
    BY <1>3 DEF GiveUp, Crash, Return, NoJob, disk
  <2>2. pc # "format" /\ pc' # "format" /\ GoesOnOrEnds
    BY <2>1 DEF GoesOnOrEnds
  <2>3. storeOf' = storeOf
    BY <1>0, <1>1, <2>1, <2>2, NothingCreated
  <2> QED BY <2>3
<1>4. CASE chainfs_find_free_blocks \/ WriteDataBlock \/ LinkBlock
  <2>1. pc' \in {"data", "link", "commit"} /\ UNCHANGED table
    BY <1>4 DEF chainfs_find_free_blocks, WriteDataBlock, LinkBlock, disk
  <2>2. job'.op = job.op /\ job'.slot = job.slot
    BY <1>0, <1>4 DEF chainfs_find_free_blocks, WriteDataBlock, LinkBlock, TypeOK, Jobs
  <2>3. pc # "format" /\ pc' # "format" /\ GoesOnOrEnds
    BY <2>1, <2>2 DEF GoesOnOrEnds
  <2>4. storeOf' = storeOf
    BY <1>0, <1>1, <2>1, <2>2, <2>3, NothingCreated
  <2> QED BY <2>4
<1>5. CASE chainfs_free_block_chain
  <2>1. job.cur \in MapIndices /\ job.cur = Eof
    BY <1>5 DEF chainfs_free_block_chain, Mapped, Creating
  <2> QED BY <2>1, Ranges DEF Eof
<1>6. ~Call /\ ~FormatSector /\ ~Unlink
  BY <1>1 DEF Call, chainfs_init, chainfs_format, chainfs_mkdir, chainfs_chdir, chainfs_rmdir,
         chainfs_delete_file, chainfs_write_file, FormatSector, Unlink
<1> QED BY <1>2, <1>3, <1>4, <1>5, <1>6 DEF Next, Step

\* A creation is atomic, although every sector it writes is a step of its own and
\* the machine may be reset after each: it shows nothing of itself, and changes
\* nothing that another file reads as, before its entry is written (349-403).
THEOREM CreationsShowAtOnce == ShortNames /\ CreateSpec => CreationsAtomic
<1>1. CInv => AllReadWhole
  BY FilesWhole, AllWhole DEF CInv, IInv, Chained
<1>2. /\ ShortNames /\ CInv /\ AllReadWhole /\ AllReadWhole' /\ [Next /\ CreateOnly]_vars
      => [pc \notin {"idle", "format"} => storeOf' \in {storeOf, Store!After(callOf)}]_vars
  BY CreationStep
<1>3. ShortNames => ShortNames'
  BY DEF ShortNames
<1> QED BY <1>1, <1>2, <1>3, CreateInductive, PTL DEF CreateSpec, CreationsAtomic

=============================================================================
