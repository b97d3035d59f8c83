------------------------------ MODULE ChainFS ------------------------------
(***************************************************************************)
(* The file system driver kernel/drivers/fs/chainFS/chainfs.c.             *)
(*                                                                         *)
(* The disk is three arrays: the file table, the block map and the data    *)
(* area.  The memory of the driver is the mounted superblock and the       *)
(* current directory.  The driver is called by one thread; every sector it *)
(* writes is one step of this specification, because the machine may be    *)
(* reset between two of them.                                              *)
(***************************************************************************)
EXTENDS Integers, Sequences, FiniteSets, FiniteSetsExt

CONSTANTS
    EntriesPerBlock,     \* file entries in a sector (8 in the code)
    MapEntriesPerBlock,  \* block map entries in a sector (128)
    BlockSize,           \* bytes of a sector (512)
    TotalBlocks,         \* total_blocks given to chainfs_format
    MaxFiles,            \* max_files given to chainfs_format
    Names,               \* the path components callers use
    Kept,                \* the name write_file stores for a component
    FilePaths,           \* paths given to write_file and delete_file
    DirPaths,            \* paths given to mkdir, rmdir and chdir
    Sizes,               \* sizes given to write_file
    Tags                 \* whose bytes they are

Free     == 0            \* CHAINFS_FREE_BLOCK, which is also block index 0
Eof      == -1           \* CHAINFS_EOF_MARKER, 0xFFFFFFFF
NoParent == -1           \* the parent of the root, 0xFFFFFFFF
Root     == 0            \* root_dir_block
RootSlot == -1           \* what "/" resolves to: offset 0 of sector 0
NotFound == -2
NoName   == ""
NoTag    == "zero"

Ceil(a, b) == (a + b - 1) \div b

file_table_block_count == Ceil(MaxFiles, EntriesPerBlock)
block_map_block_count  ==
    Ceil(TotalBlocks - 1 - file_table_block_count, MapEntriesPerBlock)
data_area_start   == 1 + file_table_block_count + block_map_block_count
total_data_blocks == TotalBlocks - data_area_start

Indices    == 0 .. file_table_block_count * EntriesPerBlock - 1
Slots      == Indices \cup {RootSlot}
MapIndices == 0 .. block_map_block_count * MapEntriesPerBlock - 1
DataBlocks == 0 .. total_data_blocks - 1
ParentIds  == NoParent .. file_table_block_count * EntriesPerBlock

\* The sector that holds a slot; the code also uses it as the number of a
\* directory where the index is meant (see MkdirParent, WriteParent, rmdir).
SectorOf(s) == IF s = RootSlot THEN 0 ELSE 1 + s \div EntriesPerBlock

\* A path as split_path leaves it.
Paths   == [abs : BOOLEAN, comps : Seq(Names)]
Entries == [kind : {"free", "file", "dir", "superblock", "wrecked"},
            name : Names \cup {NoName, "/"}, size : Nat,
            start : MapIndices, parent : ParentIds]
Chunks  == [tag : Tags \cup {NoTag}, k : Nat]

ASSUME GeometryAssumption ==
    /\ {EntriesPerBlock, MapEntriesPerBlock, BlockSize, MaxFiles} \subseteq Nat \ {0}
    /\ TotalBlocks \in Nat /\ TotalBlocks > 1 + file_table_block_count
    /\ total_data_blocks > 0
ASSUME CallerAssumption ==
    /\ Kept \in [Names -> Names] /\ NoName \notin Names /\ "/" \notin Names
    /\ FilePaths \subseteq Paths /\ DirPaths \subseteq Paths
    /\ Sizes \subseteq Nat

VARIABLES
    table,     \* the file table; table[RootSlot] is sector 0 read as an entry
    blockMap,  \* the block map
    data,      \* the data area, a tag and a position per block
    mounted,   \* g_chainfs.superblock holds a superblock with the magic
    cwd,       \* g_chainfs.current_dir_block, an index of the table
    pc,        \* where the call in progress is, "idle" between calls
    job        \* the locals of the call in progress

disk == <<table, blockMap, data>>
vars == <<table, blockMap, data, mounted, cwd, pc, job>>

Jobs == [op : {"none", "format", "write", "delete"}, slot : Slots,
         parent : ParentIds, name : Names \cup {NoName}, size : Nat,
         tag : Tags \cup {NoTag}, cur : MapIndices \cup {Eof},
         todo : SUBSET DataBlocks, start : MapIndices, k : Nat]

NoJob == [op |-> "none", slot |-> Root, parent |-> Root, name |-> NoName,
          size |-> 0, tag |-> NoTag, cur |-> Eof, todo |-> {}, start |-> 0,
          k |-> 0]

FreeEntry  == [kind |-> "free", name |-> NoName, size |-> 0, start |-> 0,
               parent |-> Root]
RootEntry  == [FreeEntry EXCEPT !.kind = "dir", !.name = "/", !.parent = NoParent]
SuperEntry == [FreeEntry EXCEPT !.kind = "superblock"]

\* Freeing clears the status byte. Of what is left only the parent is ever read
\* again (chainfs_get_current_path does not look at the status), so only that
\* is kept. In sector 0 the status byte is the first byte of the magic, and
\* "/" is resolved without looking at it.
Freed(s) == IF s = RootSlot THEN [table[s] EXCEPT !.kind = "wrecked"]
                            ELSE [FreeEntry EXCEPT !.parent = table[s].parent]

-----------------------------------------------------------------------------
(* Lookups. An unmounted driver has zero sectors to scan.                   *)

Scanned == IF mounted THEN Indices ELSE {}
Mapped  == IF mounted THEN MapIndices ELSE {}
Live(s) == table[s].kind \in {"file", "dir"}
IsDir(s) == table[s].kind = "dir"

ChildrenOf(d)  == {i \in Scanned : Live(i) /\ table[i].parent = d}
\* Fault: a slot is taken for free when the entry has no size.
FreeSlotsBySize == {i \in Scanned : table[i].size = 0}

FreeSlots      == {i \in Scanned : ~Live(i)}
\* Fault: the last block of a chain is taken for a free one.
FreeDataBlocksOrLast == {b \in DataBlocks \cap Mapped : blockMap[b] \in {Free, Eof}}

FreeDataBlocks == {b \in DataBlocks \cap Mapped : blockMap[b] = Free}

chainfs_find_in_directory(d, n) ==
    LET hits == {i \in ChildrenOf(d) : table[i].name = n}
    IN  IF hits = {} THEN NotFound ELSE Min(hits)

\* The directories a lookup of p passes before it searches the last of them.
Trails(p) ==
    {t \in [0 .. Len(p.comps) - 1 -> Indices] :
        /\ t[0] = IF p.abs THEN Root ELSE cwd
        /\ \A i \in 1 .. Len(p.comps) - 1 :
              t[i] = chainfs_find_in_directory(t[i-1], p.comps[i]) /\ IsDir(t[i])}

LastName(p) == IF p.comps = <<>> THEN NoName ELSE p.comps[Len(p.comps)]

chainfs_resolve_path(p) ==
    IF p.comps = <<>> THEN IF p.abs THEN RootSlot ELSE NotFound
    ELSE IF Trails(p) = {} THEN NotFound
    ELSE LET t == CHOOSE t \in Trails(p) : TRUE
         IN  chainfs_find_in_directory(t[Len(p.comps) - 1], LastName(p))

\* The path before the last slash, "/" when the only slash leads the path.
ParentPath(p) ==
    [p EXCEPT !.comps = IF @ = <<>> THEN <<>> ELSE SubSeq(@, 1, Len(@) - 1)]

\* The directory number of a resolved parent path: its SECTOR, not its index.
ParentSector(p) ==
    LET s == chainfs_resolve_path(ParentPath(p))
    IN  IF s # NotFound /\ IsDir(s) THEN SectorOf(s) ELSE NotFound

MkdirParent(p) == IF Len(p.comps) = 1 /\ ~p.abs THEN cwd ELSE ParentSector(p)

WriteParent(p) == IF Len(p.comps) > 1 THEN ParentSector(p)
                  ELSE IF p.abs THEN Root ELSE cwd

BlocksNeeded(size) == IF size = 0 THEN 1 ELSE Ceil(size, BlockSize)

-----------------------------------------------------------------------------
(* The disk is zero-filled and nothing is mounted.                          *)

Init ==
    /\ table = [s \in Slots |-> IF s = RootSlot THEN [FreeEntry EXCEPT !.kind = "wrecked"]
                                                ELSE FreeEntry]
    /\ blockMap = [b \in MapIndices |-> Free]
    /\ data = [b \in DataBlocks |-> [tag |-> NoTag, k |-> 0]]
    /\ mounted = FALSE /\ cwd = Root
    /\ pc = "idle" /\ job = NoJob

Return == pc' = "idle" /\ job' = NoJob

chainfs_init ==
    /\ pc = "idle" /\ table[RootSlot].kind = "superblock"
    /\ mounted' = TRUE /\ cwd' = Root
    /\ UNCHANGED <<disk, pc, job>>

\* chainfs_format writes the superblock, then the sectors of the file table,
\* then those of the block map, and mounts the result.
chainfs_format ==
    /\ pc = "idle"
    /\ table' = [table EXCEPT ![RootSlot] = SuperEntry]
    /\ pc' = "format" /\ job' = [NoJob EXCEPT !.op = "format", !.k = 1]
    /\ UNCHANGED <<blockMap, data, mounted, cwd>>

FormatSector ==
    /\ pc = "format"
    /\ table' = [s \in Slots |-> IF s # RootSlot /\ SectorOf(s) = job.k
                                  THEN IF s = Root THEN RootEntry ELSE FreeEntry
                                  ELSE table[s]]
    /\ blockMap' = [b \in MapIndices |->
            IF 1 + file_table_block_count + b \div MapEntriesPerBlock = job.k
              THEN Free ELSE blockMap[b]]
    /\ IF job.k + 1 < data_area_start
         THEN pc' = pc /\ job' = [job EXCEPT !.k = @ + 1] /\ UNCHANGED <<mounted, cwd>>
         ELSE Return /\ mounted' = TRUE /\ cwd' = Root
    /\ UNCHANGED data

\* Fault: no check that the name is new.
mkdir_unchecked(p) ==
    /\ pc = "idle" /\ MkdirParent(p) # NotFound /\ FreeSlots # {}
    /\ table' = [table EXCEPT ![Min(FreeSlots)] =
            [kind |-> "dir", name |-> LastName(p), size |-> 0, start |-> 0,
             parent |-> MkdirParent(p)]]
    /\ UNCHANGED <<blockMap, data, mounted, cwd, pc, job>>

chainfs_mkdir(p) ==
    /\ pc = "idle" /\ FreeSlots # {}
    /\ \E parent \in {MkdirParent(p)} \ {NotFound} :
        /\ chainfs_find_in_directory(parent, LastName(p)) = NotFound
        /\ table' = [table EXCEPT ![Min(FreeSlots)] =
              [kind |-> "dir", name |-> LastName(p), size |-> 0, start |-> 0,
               parent |-> parent]]
    /\ UNCHANGED <<blockMap, data, mounted, cwd, pc, job>>

\* Fault: the sector of the directory is kept, as mkdir and write_file do.
chdir_to_sector(p) ==
    /\ pc = "idle"
    /\ \E s \in {chainfs_resolve_path(p)} \cap Slots : IsDir(s) /\ cwd' = SectorOf(s)
    /\ UNCHANGED <<disk, mounted, pc, job>>

\* Sector 0 never has the type of a directory, so the slot is an index.
chainfs_chdir(p) ==
    /\ pc = "idle"
    /\ \E s \in {chainfs_resolve_path(p)} \cap Slots : IsDir(s) /\ cwd' = s
    /\ UNCHANGED <<disk, mounted, pc, job>>

chainfs_rmdir(p) ==
    /\ pc = "idle"
    /\ \E s \in {chainfs_resolve_path(p)} \cap Slots :
        /\ IsDir(s) /\ SectorOf(s) # Root
        /\ ChildrenOf(SectorOf(s)) = {}
        /\ table' = [table EXCEPT ![s] = Freed(s)]
    /\ UNCHANGED <<blockMap, data, mounted, cwd, pc, job>>

-----------------------------------------------------------------------------
(* write_file and delete_file: free the old chain, then the rest.           *)

\* Where write_file puts the entry: the one found, else the first free one.
Target(p) ==
    LET found == chainfs_resolve_path(p)
    IN  IF found # NotFound THEN {[slot |-> found, chain |-> table[found].start]}
        ELSE IF FreeSlots # {} THEN {[slot |-> Min(FreeSlots), chain |-> Eof]}
        ELSE {}

chainfs_write_file(p, size, tag) ==
    /\ pc = "idle"
    /\ \E parent \in {WriteParent(p)} \ {NotFound}, t \in Target(p) :
        job' = [NoJob EXCEPT !.op = "write", !.slot = t.slot, !.cur = t.chain,
                 !.parent = parent, !.name = LastName(p), !.size = size, !.tag = tag]
    /\ pc' = "free"
    /\ UNCHANGED <<disk, mounted, cwd>>

chainfs_delete_file(p) ==
    /\ pc = "idle"
    /\ \E s \in {chainfs_resolve_path(p)} \cap Slots :
        job' = [NoJob EXCEPT !.op = "delete", !.slot = s, !.cur = table[s].start]
    /\ pc' = "free"
    /\ UNCHANGED <<disk, mounted, cwd>>

\* Fault: only the first block is freed.
free_head_only ==
    /\ pc = "free" /\ job.cur \in Mapped
    /\ blockMap' = [blockMap EXCEPT ![job.cur] = Free]
    /\ job' = [job EXCEPT !.cur = Eof]
    /\ UNCHANGED <<table, data, mounted, cwd, pc>>

\* Fault: the loop does not advance.
free_same_block ==
    /\ pc = "free" /\ job.cur \in Mapped
    /\ blockMap' = [blockMap EXCEPT ![job.cur] = Free]
    /\ UNCHANGED <<table, data, mounted, cwd, pc, job>>

\* One iteration of chainfs_free_block_chain.
chainfs_free_block_chain ==
    /\ pc = "free" /\ job.cur \in Mapped
    /\ blockMap' = [blockMap EXCEPT ![job.cur] = Free]
    /\ job' = [job EXCEPT !.cur = blockMap[job.cur]]
    /\ UNCHANGED <<table, data, mounted, cwd, pc>>

\* chainfs_find_free_blocks takes the lowest free blocks.
chainfs_find_free_blocks ==
    /\ pc = "free" /\ job.op = "write" /\ job.cur \notin Mapped
    /\ \E A \in SUBSET FreeDataBlocks :
        /\ Cardinality(A) = BlocksNeeded(job.size)
        /\ \A a \in A, b \in FreeDataBlocks \ A : a < b
        /\ job' = [job EXCEPT !.cur = Eof, !.todo = A, !.start = Min(A)]
    /\ pc' = "data"
    /\ UNCHANGED <<disk, mounted, cwd>>

\* Fault: the result of find_free_blocks is not looked at.
IgnoreNotEnough ==
    /\ pc = "free" /\ job.op = "write" /\ job.cur \notin Mapped
    /\ Cardinality(FreeDataBlocks) < BlocksNeeded(job.size)
    /\ pc' = "data" /\ job' = [job EXCEPT !.todo = FreeDataBlocks]
    /\ UNCHANGED <<disk, mounted, cwd>>

\* There are not enough free blocks, or kmalloc finds no room for their list.
GiveUp ==
    /\ pc = "free" /\ job.op = "write" /\ job.cur \notin Mapped
    /\ Return
    /\ UNCHANGED <<disk, mounted, cwd>>

WriteDataBlock ==
    /\ pc = "data"
    /\ data' = [data EXCEPT ![Min(job.todo)] = [tag |-> job.tag, k |-> job.k]]
    /\ pc' = "link"
    /\ UNCHANGED <<table, blockMap, mounted, cwd, job>>

\* Fault: a block is linked to the one before it.
LinkBackwards ==
    /\ pc = "link"
    /\ LET b == Min(job.todo)
            rest == job.todo \ {b}
       IN  /\ blockMap' = IF rest = {} THEN [blockMap EXCEPT ![b] = Eof]
                          ELSE [blockMap EXCEPT ![Min(rest)] = b]
           /\ job' = [job EXCEPT !.todo = rest, !.k = @ + 1]
           /\ pc' = IF rest = {} THEN "commit" ELSE "data"
    /\ UNCHANGED <<table, data, mounted, cwd>>

\* Fault: the chain is not terminated.
LinkWithoutEnd ==
    /\ pc = "link"
    /\ LET b == Min(job.todo)
            rest == job.todo \ {b}
       IN  /\ blockMap' = [blockMap EXCEPT ![b] = IF rest = {} THEN Free ELSE Min(rest)]
           /\ job' = [job EXCEPT !.todo = rest, !.k = @ + 1]
           /\ pc' = IF rest = {} THEN "commit" ELSE "data"
    /\ UNCHANGED <<table, data, mounted, cwd>>

LinkBlock ==
    /\ pc = "link"
    /\ LET b == Min(job.todo)
            rest == job.todo \ {b}
       IN  /\ blockMap' = [blockMap EXCEPT ![b] = IF rest = {} THEN Eof ELSE Min(rest)]
           /\ job' = [job EXCEPT !.todo = rest, !.k = @ + 1]
           /\ pc' = IF rest = {} THEN "commit" ELSE "data"
    /\ UNCHANGED <<table, data, mounted, cwd>>

\* Fault: a rewrite keeps the size of the old file.
CommitOldSize ==
    /\ pc = "commit"
    /\ table' = [table EXCEPT ![job.slot] =
            [kind |-> "file", start |-> job.start, parent |-> job.parent,
             size |-> IF table[job.slot].kind = "file" THEN table[job.slot].size
                                                       ELSE job.size,
             name |-> IF job.name = NoName THEN NoName ELSE Kept[job.name]]]
    /\ Return
    /\ UNCHANGED <<blockMap, data, mounted, cwd>>

CommitEntry ==
    /\ pc = "commit"
    /\ table' = [table EXCEPT ![job.slot] =
            [kind |-> "file", size |-> job.size, start |-> job.start, parent |-> job.parent,
             name |-> IF job.name = NoName THEN NoName ELSE Kept[job.name]]]
    /\ Return
    /\ UNCHANGED <<blockMap, data, mounted, cwd>>

Unlink ==
    /\ pc = "free" /\ job.op = "delete" /\ job.cur \notin Mapped
    /\ table' = [table EXCEPT ![job.slot] = Freed(job.slot)]
    /\ Return
    /\ UNCHANGED <<blockMap, data, mounted, cwd>>

\* A reset: the memory of the driver is lost, the disk stays.
Crash ==
    /\ mounted' = FALSE /\ cwd' = Root
    /\ Return
    /\ UNCHANGED disk

Call ==
    \/ chainfs_init
    \/ chainfs_format
    \/ \E p \in DirPaths : chainfs_mkdir(p) \/ chainfs_chdir(p) \/ chainfs_rmdir(p)
    \/ \E p \in FilePaths : chainfs_delete_file(p)
                          \/ \E z \in Sizes, t \in Tags : chainfs_write_file(p, z, t)

Step ==
    \/ FormatSector \/ chainfs_free_block_chain \/ chainfs_find_free_blocks
    \/ GiveUp \/ WriteDataBlock \/ LinkBlock \/ CommitEntry \/ Unlink

Next == Call \/ Step \/ Crash

Spec == Init /\ [][Next]_vars

TypeOK ==
    /\ table \in [Slots -> Entries]
    /\ table[RootSlot].kind \in {"superblock", "file", "wrecked"}
    /\ \A i \in Indices : table[i].kind \in {"free", "file", "dir"}
    /\ blockMap \in [MapIndices -> MapIndices \cup {Eof}]
    /\ data \in [DataBlocks -> Chunks]
    /\ mounted \in BOOLEAN /\ cwd \in Indices
    /\ pc \in {"idle", "format", "free", "data", "link", "commit"}
    /\ job \in Jobs
    /\ (pc = "idle") = (job.op = "none") /\ (pc = "format") = (job.op = "format")
    /\ pc \in {"data", "link", "commit"} => job.op = "write"
    /\ pc \in {"data", "link"} => job.todo # {}

=============================================================================
