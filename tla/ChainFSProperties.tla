------------------------- MODULE ChainFSProperties -------------------------
(***************************************************************************)
(* What makes chainfs.c correct: who owns a block, what a file reads as,   *)
(* what a step may never do, and the abstract store the driver implements. *)
(***************************************************************************)
EXTENDS ChainFS

IsFile(s) == table[s].kind = "file"

\* The entry the call in progress is about to replace or to free.
InFlight(s) == job.op \in {"write", "delete"} /\ job.slot = s

Settled == {s \in Slots : IsFile(s) /\ ~InFlight(s)}

\* The blocks chainfs_read_file visits after block c, as far as n links.
Walk(c, n) ==
    LET at[k \in 0 .. n] == IF k = 0 THEN c
                            ELSE IF at[k-1] \in MapIndices THEN blockMap[at[k-1]]
                            ELSE Eof
    IN  at

\* What chainfs_read_file copies into a large enough buffer, and bytes_read: it
\* stops where the chain ends, and follows whatever else the map holds.
chainfs_read_file(s) ==
    LET n    == Ceil(table[s].size, BlockSize)
        at   == Walk(table[s].start, n)
        read == {k \in 0 .. n - 1 : at[k] # Eof}
    IN  [bytes |-> Min({table[s].size, BlockSize * Cardinality(read)}),
         chunks |-> [k \in read |-> IF at[k] \in DataBlocks THEN data[at[k]]
                                    ELSE [tag |-> NoTag, k |-> 0]]]

-----------------------------------------------------------------------------
(* Block ownership.                                                         *)

\* The heads of the chains: entries, and what the call in progress holds, which
\* counts as one more holder.
HeldBy(b) ==
    {s \in Settled : table[s].start = b} \cup {c \in {NotFound} :
        \/ pc = "free" /\ job.cur = b
        \/ pc \in {"data", "link", "commit"} /\ job.start = b /\ b \notin job.todo}

LinkedFrom(b) == {c \in MapIndices : blockMap[c] = b /\ blockMap[c] # Free}

Unwritten(b) == pc \in {"data", "link"} /\ b \in job.todo

\* No block belongs to two chains, and none of a chain is marked free (lines
\* 318-319, 343-375): what sequence of calls would hand a block out twice?
NoSharing ==
    \A b \in MapIndices : ~Unwritten(b) =>
        Cardinality(HeldBy(b)) + Cardinality(LinkedFrom(b))
            <= IF blockMap[b] = Free THEN 0 ELSE 1

\* Every block that is not free is reachable from an entry or from the call in
\* progress: freeing a chain (205-217) misses no block of it.
NoLeak == pc # "format" =>
    \A b \in MapIndices : blockMap[b] # Free => HeldBy(b) # {} \/ LinkedFrom(b) # {}

\* Links only lead to higher blocks, so no chain has a cycle, whatever was
\* freed, reused or interrupted before (find_free_blocks, 194-200).
AscendingLinks ==
    \A b \in MapIndices : blockMap[b] \in {Free, Eof} \/ blockMap[b] > b

\* A file that no call is rewriting has as many blocks as its size needs, the
\* last one ends the chain, and each holds its part of one write (349-375).
FilesIntact ==
    \A s \in Settled :
        LET n  == BlocksNeeded(table[s].size)
            at == Walk(table[s].start, n)
        IN  /\ at[n] = Eof
            /\ \A k \in 0 .. n - 1 :
                  /\ at[k] \in DataBlocks
                  /\ data[at[k]] = [tag |-> data[at[0]].tag, k |-> k]

BlocksOf(s) ==
    LET n  == BlocksNeeded(table[s].size)
        at == Walk(table[s].start, n)
    IN  {at[k] : k \in 0 .. n - 1}

\* No two files share a block, although a reset leaves half-linked chains
\* behind whose blocks are handed out again.
FilesDisjoint ==
    \A s, r \in Settled : s # r => BlocksOf(s) \cap BlocksOf(r) = {}

\* The entry s has a chain of the right length, and no block of it is marked free.
Sound(s) ==
    /\ BlocksOf(s) \subseteq DataBlocks
    /\ \A b \in BlocksOf(s) : blockMap[b] # Free
    /\ Walk(table[s].start, BlocksNeeded(table[s].size))[BlocksNeeded(table[s].size)] = Eof

\* What the freeing loop of the call in progress has still to come to.
ToFree == IF pc # "free" THEN {}
          ELSE LET n  == Cardinality(MapIndices)
                   at == Walk(job.cur, n)
               IN  {at[k] : k \in 0 .. n}

\* A rewrite that gives up or is cut short leaves an entry naming freed blocks
\* (319 before 337-347), which are then handed out again. That damage stays
\* where it is: a file with a sound chain keeps its entry, its chain and its
\* contents through every step, unless a chain with a block of it is freed.
DamageContained ==
    [][\A s \in Settled :
         /\ pc # "format" /\ pc' # "format" /\ ~InFlight(s)'
         /\ Sound(s) /\ BlocksOf(s) \cap ToFree = {}
         => /\ table'[s] = table[s] /\ Sound(s)'
            /\ chainfs_read_file(s)' = chainfs_read_file(s)]_vars

\* The bytes of a block that some chain uses are never overwritten: write_file
\* writes only blocks that the map calls free when it writes them (363-370).
WritesOnlyFreeBlocks ==
    [][\A b \in DataBlocks : data'[b] # data[b] => blockMap[b] = Free]_vars

-----------------------------------------------------------------------------
(* Names and directories.                                                   *)

\* A directory never has two entries of one name: every creation looks first
\* (269, 608), and a lookup only ever finds the first (494-501).
UniqueNames ==
    \A i, j \in Indices : Live(i) /\ Live(j) /\ i # j =>
        <<table[i].parent, table[i].name>> # <<table[j].parent, table[j].name>>

\* The current directory stays a directory: no rmdir frees it and no write
\* turns it into a file while later calls go on using it (660, 785-787).
CwdIsDirectory == mounted /\ pc # "format" => IsDir(cwd)

\* Only a format replaces the root entry, whatever paths are given (769).
RootPersists ==
    [][table[Root] = RootEntry /\ pc # "format" => table'[Root] = RootEntry]_vars

\* A file that was just written is found under the name it was written to
\* (387-393 store the name, 496 compares it), and it is the one written.
WrittenIsFound ==
    [][\A d \in ParentIds, n \in Names, s \in Indices :
         pc = "commit" /\ mounted' /\ job.parent = d /\ job.name = n /\ job.slot = s =>
           (chainfs_find_in_directory(d, n) = s)']_vars

\* A call that has begun returns: chains end and blocks run out (208-216).
CallReturns == pc # "idle" ~> pc = "idle"

\* The thread of the kernel runs on until the call is over.
FairSpec == Spec /\ WF_vars(Step)

-----------------------------------------------------------------------------
(* Callers that keep to what the driver can do.                             *)

\* They give single names, of which write_file keeps every character, and keep
\* the names of files and directories apart.
FileNames == {LastName(p) : p \in FilePaths}
DirNames  == {LastName(p) : p \in DirPaths}
PlainCallers ==
    /\ \A p \in FilePaths \cup DirPaths : ~p.abs /\ Len(p.comps) = 1
    /\ FileNames \cap DirNames = {}
    /\ \A n \in FileNames : Kept[n] = n

\* A rewrite finds enough blocks once the old ones are free, and kmalloc finds
\* room for their list. A creation may fail.
RewriteFits ==
    /\ pc = "idle" /\ pc' = "free" /\ job'.op = "write" /\ IsFile(job'.slot) =>
          BlocksNeeded(job'.size)
              <= Cardinality(FreeDataBlocks) + BlocksNeeded(table[job'.slot].size)
    /\ pc = "free" /\ job.op = "write" /\ IsFile(job.slot) => pc' # "idle"

\* No reset either: chainfs.c keeps no journal.
FilesNext == (Call \/ Step) /\ RewriteFits
FilesSpec == Init /\ [][FilesNext]_vars /\ WF_vars(Step)

\* With resets, callers that only create: no file is rewritten or deleted.
CreateOnly == pc = "idle" /\ pc' = "free" => job'.op = "write" /\ job'.cur = Eof
CreateSpec == Init /\ [][Next /\ CreateOnly]_vars

-----------------------------------------------------------------------------
(* The inductive invariant behind the proofs.                               *)

\* The blocks a write has allocated stay free until it links them.
UnwrittenFree == \A b \in MapIndices : Unwritten(b) => blockMap[b] = Free

\* No call works on the root entry.
RootNotInFlight == table[Root] = RootEntry => ~InFlight(Root)

IInv == TypeOK /\ AscendingLinks /\ UnwrittenFree /\ RootNotInFlight

-----------------------------------------------------------------------------
(* What chainfs.md and the comments say and the code does not do.           *)

\* chainfs.md:121: "Ensure no entries exist with `ParentBlock = this_block`".
RmdirOnlyEmpty ==
    [][\A i \in Indices : pc = "idle" /\ IsDir(i) /\ ~Live(i)' => ChildrenOf(i) = {}]_vars

\* chainfs.md:74: "directories do not use data blocks", so no call frees one
\* on behalf of a directory.
DirectoriesOwnNoBlocks == pc = "free" /\ job.cur # Eof => ~IsDir(job.slot)

\* The entries chainfs_get_current_path is at after n rounds of its loop, which
\* ends at the root, at NoParent and where read_entry_by_index refuses.
GoesOn(i) == i # Root /\ i \in 0 .. MaxFiles - 1
Climb(n) ==
    LET up[k \in 0 .. n] == IF k = 0 THEN cwd
                            ELSE IF GoesOn(up[k-1]) THEN table[up[k-1]].parent
                            ELSE up[k-1]
    IN  up[n]

\* chainfs.c:721: "Build path by traversing up to root". A path longer than the
\* table has entries never gets there.
CurrentPathEnds == ~GoesOn(Climb(MaxFiles))

-----------------------------------------------------------------------------
(* The store a caller sees. A rewrite and a delete take effect when they    *)
(* begin, a creation when its entry is written, a format when it begins.    *)

Bytes(size, tag) == [bytes |-> size,
    chunks |-> [k \in 0 .. Ceil(size, BlockSize) - 1 |-> [tag |-> tag, k |-> k]]]

Missing  == [bytes |-> -1, chunks |-> <<>>]
Contents == {Bytes(z, t) : z \in Sizes, t \in Tags}

\* The first entry that a lookup of this name finds, if it is a file's.
FileAt(f) == {s \in Indices : IsFile(s) /\ f = <<table[s].parent, table[s].name>>
                /\ \A r \in 0 .. s - 1 : f # <<table[r].parent, table[r].name>> \/ ~Live(r)}

ContentsOf(s) ==
    IF ~InFlight(s) THEN chainfs_read_file(s)
    ELSE IF job.op = "write" THEN Bytes(job.size, job.tag) ELSE Missing

storeOf == [f \in Indices \X Names |->
    IF pc = "format" \/ FileAt(f) = {} THEN Missing
    ELSE LET s == CHOOSE s \in FileAt(f) : TRUE IN ContentsOf(s)]

\* What the call in progress is to do to the files of Keys.
Keys == Indices \X Names

callOf ==
    [files |-> CASE job.op = "write"  -> {<<job.parent, job.name>>}
                 [] job.op = "delete" -> {<<table[job.slot].parent, table[job.slot].name>>}
                 [] job.op = "format" -> Keys
                 [] OTHER             -> {},
     contents |-> IF job.op = "write" THEN Bytes(job.size, job.tag) ELSE Missing]

Store == INSTANCE FileStore WITH store <- storeOf, call <- callOf

\* Seen through read_file, the driver is a map from names to contents that each
\* call changes once and only where it says: nothing is lost, resurrected or
\* mixed up by the order in which blocks are reused (266-428).
ImplementsFileStore == Store!Spec

\* write_file keeps every character of the names that callers use (387-393).
ShortNames == \A n \in Names : Kept[n] = n

\* With resets, and callers that only create: no step of a call changes what any
\* file reads as, but one that shows the new file whole. A creation is seen to be
\* over or not to have begun, wherever the machine is reset (349-403).
CreationsAtomic ==
    [][pc \notin {"idle", "format"} => storeOf' \in {storeOf, Store!After(callOf)}]_vars

=============================================================================
