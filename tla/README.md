# OTSOS in TLA+

Models, model-checking runs and machine-checked proofs for OTSOS, a small
x86_64 kernel: its file system (ChainFS), heap, disk driver, keyboard and mouse
input, terminal and shell, and interrupts. Source paths below are
relative to the `src/` directory of the repository.

## 1. The system

`kmain` (`kernel/kernel.c`) sets up interrupts, the heap, the mouse and the disk
and then loops: `scanf` reads a line by polling the keyboard, `shell_func` runs
it. There is one thread. Interrupt handlers run on top of it, and the machine
may be reset at any moment.

| Component | State | Operations | Hard behaviour | What makes it correct |
|---|---|---|---|---|
| ChainFS, `drivers/fs/chainFS/chainfs.c` | on disk: superblock, file table, block map, data area; in memory: mounted superblock, current directory | init, format, read, write, delete, mkdir, rmdir, chdir, list, current path | a call is many sector writes with no journal; two numberings of directories; reuse of freed blocks; rewriting frees before it allocates | every block has one owner, files read as written, other files untouched, names unique, loops end |
| Heap, `mlibc/memory.c` | doubly linked list of headers in one memory area | kmalloc, kcalloc, kfree, krealloc, kmalloc_aligned | relinking on split, merge, in-place growth and alignment; stale headers; overflow | the list tiles the heap; holders have what they were promised, apart from each other |
| PATA, `drivers/disk/pata/pata.c` | device registers | identify, read sector, write sector | the drive works concurrently; waits without bounds; a command given while the drive is busy | a sector read or write looks atomic to ChainFS; calls return |
| Keyboard, mouse, IRQs, `drivers/keyboard.c`, `drivers/mouse.c`, `interrupts/handlers.c`, `interrupts/pic.c` | shift flag, packet bytes, pointer position, one shared controller buffer | scanf, mouse_init, the handlers of IRQ 1 and 12, end of interrupt | polling and interrupts read one port; lost and shifted bytes | keys reach the line in order and at most once; packets are made of bytes of the mouse; neither device is blocked for ever |
| Terminal and shell, `drivers/vga.c`, `bin/*.c`, `kernel.c` | video memory, cursor, one line counter | print, scroll, cursor, the commands, the echo of `scanf` | the counter runs past the screen while `print` and `update_cursor` scroll on their own, and is taken back in six places | no line is lost or overwritten; what is typed stands behind all that was printed |
| IDT, stubs, panic, `interrupts/*`, `panic.c` | gates, stack frames, state of two interrupt controllers | set-up, interrupt entry and return, end of interrupt, panic | exceptions anywhere, spurious interrupts, cascaded controllers, error codes on some vectors only | the handler gets a sound frame, the interrupted code notices nothing, no line is shut for ever |
| mlibc, `mlibc/*` | none | strings, atoi, itoa, printf, port I/O | width and sign of integers | agreement with arithmetic |
| COM1, boot | none that others use | logging, processor set-up | none modelled | |

Interactions: the shell's commands call ChainFS; ChainFS calls `pata_read_sector`
and `pata_write_sector` for every sector, and `kmalloc`/`kfree` once per write.
Nothing else in the kernel allocates. Interrupt handlers share only the keyboard
controller and the screen with the thread.

## 2. Modules

| Module | Stands for |
|---|---|
| `ChainFS` | the driver: geometry, lookups, one action per call or per sector write, `Spec`, `TypeOK` |
| `ChainFSProperties` | what it should satisfy, `chainfs_read_file`, the refinement mapping to `FileStore`, and the callers the stronger results are about (`FilesSpec`, `CreateSpec`) |
| `FileStore` | abstract: a map from (directory, name) to contents |
| `ChainFSProofs`, `ChainFSFilesProofs` | theorems about `ChainFS`: for any caller; about names, blocks and files, and that it implements `FileStore` |
| `MCChainFSFiles`, `MCChainFSFull`, `MCChainFSCrash`, `MCChainFSNames`, `MCChainFSCwd` | instances for TLC, with what each assumes of callers |
| `Heap`, `HeapProperties`, `MCHeap`, `HeapProofs` | `mlibc/memory.c` |
| `Pata` | the driver and the drive, with their properties |
| `SectorStore` | abstract: a store of sectors, whose calls take effect at one moment |
| `MCPata`, `PataProofs` | instance for TLC, and theorems |
| `NumberLemmas` | lemmas on division that `PataProofs`, `HeapProofs` and `TerminalProofs` use |
| `Input` | `mouse_init`, `scanf`, both interrupt handlers, the keyboard controller and the interrupt controllers |
| `InputProperties`, `MCInput`, `InputProofs` | what they keep, the instance for TLC, and theorems |
| `Terminal`, `TerminalProperties`, `MCTerminal`, `TerminalProofs` | the screen, the shell's commands as sequences of what they print, and `scanf`'s echo |
| `Interrupts`, `InterruptsProperties`, `MCInterrupts`, `InterruptsProofs` | gates, stubs, frames, handlers, controllers, processor |

`Pata` implements `SectorStore`; that a sector write is one step of `ChainFS` is
what `SectorStore` promises. `ChainFS` meets the heap only as "`kmalloc` may fail"
(`GiveUp`). `Interrupts` and `Input` share the source of the handlers: the first looks at the
frame and the controllers and not at what a handler does for its device, the second
at that and takes a handler for one step, which `Interrupts` justifies (the gates keep
interrupts off until `iretq`). A definition marked "Fault:" in a comment is never used by the
specification. It is a plausible mistake in the definition after it, kept so
that each property can be seen to fail when the code is wrong.

### ChainFS: state and actions

`table` is the file table, with the slot `RootSlot` for sector 0 read as a file
entry (which `chainfs_resolve_path("/")` does). `blockMap` and `data` are the
other two areas, `mounted` and `cwd` the memory of the driver, `pc` and `job` the
call in progress and its locals.

- `chainfs_init`, `chainfs_mkdir`, `chainfs_chdir` and `chainfs_rmdir` write at
  most one sector and are one step each.
- `chainfs_format` writes the superblock, `FormatSector` each further sector; the
  last one mounts, as the call of `chainfs_init` does.
- `chainfs_write_file` looks up the parent and the target; then come
  `chainfs_free_block_chain` (one iteration per step), `chainfs_find_free_blocks`
  or `GiveUp`, `WriteDataBlock` and `LinkBlock` per block, and `CommitEntry`.
- `chainfs_delete_file` shares the freeing loop and ends with `Unlink`.
- `Crash` loses the memory of the driver between any two sector writes.

Calls that are refused change nothing and are no steps. Paths are already split:
a flag for a leading slash and a sequence of components. A block of data is a tag
(whose write) and its position in the file.

### Heap

`hdr` says what lies at each aligned address: a header of the list, bytes, or a
header that was merged away and has not been overwritten. `held` is the promise
made with each pointer, `freed` the pointers that may be freed a second time.
Each function is one action, as nothing runs beside it; `krealloc` has one action
for each way it ends. `UseMemory` is the caller writing what it was promised.

### Pata

`pc` follows the driver from one access of a port to the next, and `drive` is
what the drive does: busy, ready to move data, idle, or told a command and not
yet showing it, which goes for IDENTIFY as for reads and writes. `DriveStep` lets it
proceed at any time. A command written while the drive is busy is ignored, as ATA
drives do; one written while it has data to send is accepted, and the data is lost.
`Init` chooses whether there is a drive, and `DriveFails` lets it refuse IDENTIFY, or a
sector of `BadSectors` for reading or for writing, before data is moved: it then sets
the error bit, which the driver never reads, and no DRQ. One round of the loop of
`pata_wait_drq` is one step.

`pata_identify` waits for BSY to be clear and not for DRQ (pata.c:32-37), so
`insw_identity` may take its words from a drive that shows nothing yet, has refused or
has the data. What it took is not in the model; what it leaves is: a drive that is
busy, has refused, or still has its identity to send when the next call begins.
Callers name sectors by 32 bits (`disk clear` and `disk dump` take what the user types), of
which the registers hold 28; `Sector` is what a number means to the drive.

### Input

`register` and `full` are the controller's output register and its status bit;
`kbd` and `aux` what the devices have still to send. The register keeps its value
when it is read, so a second read finds the same byte: `count` numbers the bytes,
to tell this from two equal ones. Reading the status and reading the data are two
steps of the thread (`Poll`, then `scanf` or `Discard`), between which a handler
may run and the next byte arrive. A handler is one step: the gates are of type
0x8E, so interrupts are off in it, and it reads the status and the data of a register
that can only change while it is empty.

`pic_remap` keeps the masks that the firmware left, so `Init` chooses them. A
request may fall when the byte is polled before the interrupt is taken, or stay;
`inb60` has both. `mouse_wait` gives up after a while, so `mouse_read` may read an
empty register. The answer to the command 0x20 queues behind keys already typed.

### Terminal

`screen` is the video memory. A cell is blank, holds part of a prompt, a typed
character, or one of `Characters`. A printed text is any one of these, repeated, so that
it shows when one text is written over another. `current_line` is kmain's counter, `cursor` what the
video card was told. A command is a sequence of steps in `todo` (`PrintPart`, `TakeBack` where
the code tests the counter, `ClearScreen`, `AskForLine` where `calc` calls `scanf`);
`builtin`, `echo`, `cat` and so on are the sequences that each command's code can
produce, of which `shell_func` chooses one. How a call into the file system ends
is left open: it decides only how many lines are printed. `Letter`, `Backspace` and
`Enter` are what `scanf` draws, `Return` the end of `shell_func` and of the loop in kmain.

### Interrupts

`at` is the code that runs (set-up, the thread, a stub, a handler, the pops) and for
which vector; `regs` and `stack` hold words that are named after whose value they are,
so that a word that is popped into the wrong register is seen. `isr_stub` pushes what the
stub of the vector and the common part push, `irq_handler` scratches the registers the
calling convention lets it, `irq_common` pops and returns. `kernel_panic` does not
return: it halts. `Interrupt` is the processor, which resets the machine when there is
no gate yet, and `Acknowledge` the two controllers with their priorities, including
requests that fall too early and arrive as vector 39 or 47.

### FileStore

The abstract store has the contents of each name and the changes a call may make.
A call takes effect once, when it begins or when it ends, on the names it was
given, and on no other. `FileStore` knows no blocks, slots or sectors.

## 3. Runs

TLC with deadlock checking. The bounds are the constants of each `.cfg`.

| Run | Callers | Properties | Shows |
|---|---|---|---|
| `files` | single names, no name of both a file and a directory, no reset, rewrites fit; 3 data blocks, table of 4 slots in 2 sectors, files of sizes 0, 2 and 3 with 2 to a block | `NoSharing` `NoLeak` `AscendingLinks` `FilesIntact` `UniqueNames` `CwdIsDirectory` `CallReturns` `ImplementsFileStore` | blocks are never shared or lost, files read as written, every call returns, and the driver implements a map from names to contents |
| `full` | all: nested and absolute paths, directories given to `write_file`, full disk, resets | `TypeOK` `WritesOnlyFreeBlocks` `RootPersists` `DamageContained` | what holds with no assumption; a file is only ever damaged by a call that frees a chain with one of its blocks |
| `crash_create` | only creations, resets at every step, 3 data blocks, map of 3 sectors of 2, two callers' bytes (symmetric) | `FilesDisjoint` `CreationsAtomic` | half-linked chains do no harm to files, and a creation shows all of the file or nothing of it, wherever it is cut short |
| `heap` | 24 bytes in units of 2, headers of 4, requests of 1 and 4, counts that overflow 64, alignment 8 | `TypeOK` `Tiled` `Granted` `HeldApart` `NoFreeNeighbours` `DoubleFreeFound` | the list tiles the heap and keeps every promise; every double free is found |
| `pata` | five numbers, of which four differ in the digits of their address and one has a bit too many for them; one bad sector, three contents, a drive that is there or not | `TypeOK` `DataWhenReady` `CallReturns` `ImplementsSectorStore` | the driver implements an atomic store of sectors, and waits without end only for a drive that is absent or has refused |
| `input` | two keys of four (space, Shift, Backspace, Enter), one movement whose first byte is also the scancode of the space, a buffer of 3, a screen of 2 by 2, all four maskings | `TypeOK` `LineInOrder` `KeysOnly` `PacketSound` `KeysKept` `ReachesPrompt` `InterruptsServed` `RegisterDrains` | what the polling thread and the two handlers keep although they race for one register |
| `terminal` | a screen of 7 rows of 4, texts of 0 and 2 characters out of two (symmetric), commands of up to 2 lines, `fetch` with 3 | `TypeOK` `InputVisible` `OutputAppended` | whatever is typed and in whatever order commands run, nothing on the screen is overwritten and new text stands behind the rest, with the exceptions below |
| `interrupts` | lines 1, 7, 12 and 15, any masks, 2 requests, one exception of any vector, at any moment | `TypeOK` `FrameSound` `ThreadUndisturbed` `EndsOwnService` `InterruptsServed` | handlers get a sound `registers_t`, the thread gets everything back, and spurious interrupts do not end the service of another line |

Bounds. Nothing in `ChainFS` depends on numbers other than through equality,
order and the split of an index into sector and offset. With two sectors of table,
both numberings of a directory differ and agree somewhere; two files of up to two
blocks on three blocks already give chains that are not contiguous, reuse in
another order, and a full disk. Depths of 70 to 80 steps are reached. A heap of
six units holds up to four blocks, so that merges to both sides, unsplittable
rests and list interiors occur; alignment 8 gives a padding of zero, one too
small for a header, and one that is large enough. In `pata` each address digit
takes two values, and one number means the sector of another. In `input` two keys, the
controller's answer, two acknowledgements and
the three bytes of a packet compete for the register, which is enough for each to be
lost, late or taken by the other side; the packet leaves the screen to the left and
at the bottom. In `terminal` the screen is full after one or two commands, and the
counter gets up to five rows past it; nothing depends on the number of rows or columns
but the two splits `row >= 25` and `row * 80 + col`, and a row of four cells has room
for a prompt and either text. In `interrupts` lines 7 and 15 are those on which
spurious requests arrive, 1 and 12 one other of each controller; two requests are enough
for one to wait while the other is in service, but not for a steady stream of requests of a
higher priority, which would starve the others on this hardware, and one exception for a handler or a
stub that is interrupted. After a panic the machine halts, and a user may stop, so
this run does not look for deadlocks.

`OutputAppended` and `InputVisible` exempt what `Crowded` names, each of which TLC needs:
at the last row `cat` takes the counter back after each line (cat.c:26) and `disk`
before its prompt (disk.c:144), and the next text overwrites the last line;
`fetch` prints no prompt and the next command starts in its last row; `calc` reads
at a row that scrolling has moved (calc.c:16, 22), and prints `>` at column 1 into a
path of more than one character (calc.c:45). Nothing says how these should look.

`DamageContained` is what is left of "files are intact" with resets and failing
rewrites. It speaks of files with a sound chain (as many blocks as the size needs, ended,
none marked free), and excludes only steps of calls on the file itself and of
calls whose freeing loop still has a block of the file before it.

### What the code does and its documents do not say

Each of these runs ends in a counterexample.

| Run | Documented | Code |
|---|---|---|
| `rmdir_only_empty` | chainfs.md:121, a directory with entries is not removed; chainfs.md:83, children carry the index of their parent | the children are looked for under the sector (chainfs.c:777 with 676), which only `mkdir` and `write_file` with a path store (600, 312); others are orphaned |
| `dir_blocks` | chainfs.md:74, directories have no data blocks | writing or deleting the name of a directory frees the chain at block 0 (chainfs.c:319, 415), which may be a file's; where block 0 is free, as after `mkdir` and `touch` of one name on a new disk, its link is 0 and the loop (chainfs.c:208-216) stays at it for ever |
| `long_names` | chainfs.md:195, names of 30 characters | 29 are stored and all are compared (chainfs.c:388, 496) |
| `current_path` | chainfs.c:721 | with the current directory removed and made again it is its own parent, and the walk does not end |

Also seen, and too short to need a run: `/` is read from sector 0, the superblock
(chainfs.c:520), whose type byte is no directory's, so that `cd` alone does not "Go to
root" (chainfs.md:130). `init_idt` fills 48 gates (idt.c:92-140), while interrupts.md:34
says "sets up entry points for all 256 interrupts"; the processor and the controllers
as they are set up raise no others.

To show one disagreement at a time some of them restrict the callers: no resets,
a caller that never leaves the root (`AtRootSpec`), or one that never loses its
current directory (`KeepCwdSpec`).

### Assumptions of the stronger runs

`files` excludes four things that this code does not survive, and which no
document promises it does. A reset in the middle of a call (there is no journal:
a rewrite that is cut short leaves an entry naming freed blocks). A rewrite that
runs out of space or memory after it has freed the old blocks (chainfs.c:319
before 337-347). Paths with directories, whose parents are stored under another
number than single names are looked up by. And the name of a directory given to
`write_file` or `delete_file`, or that of a file to the calls for directories, which
`PlainCallers` keeps apart: the former free the chain at block 0, or go round at it for ever
(`dir_blocks`), so `CallReturns` and `AscendingLinks` say nothing of that loop. `crash_create`
brings resets back for
callers that only create, and `full` has all four, for which `DamageContained` bounds
the harm.

## 4. Fairness

`WF_vars(Step)` in `ChainFS` and `Pata`: there is one thread, it has no other work
while a call is in progress, and interrupt handlers return. `WF_vars(DriveStep \/ DriveFails)`
in `Pata`: a drive that is busy finishes, one way or the other. No fairness is assumed of callers, and
no outcome of a choice either: where two disjuncts of `Step` compete (`GiveUp` and
`chainfs_find_free_blocks`) both lead to the end of the call.

`Input`: the thread goes on (`WF_vars(Thread)`), the controller delivers what waits
when its register is empty, and the processor takes interrupts that it may take. The
users of keyboard and mouse have no fairness: they may stop. That the thread goes on rests on
`shell_func` returning: a command that waits for a sector the drive refuses never does
(`CallReturns` of `Pata` says so), and then nobody polls.

`Interrupts`: the processor goes on (`Boot \/ Handler \/ Restart`) and takes an interrupt
when it may; devices and programs need not cause any. `Terminal` has no liveness
property and no fairness.

## 5. Proofs

TLC's runs look at small instances; what follows holds for every value of the
constants. All theorems are proved by one pattern: an inductive invariant, one lemma
per action that the action preserves it, and the property from it. Of the 40
properties that the passing runs check 34 are safety properties or refinements, and each
of these has a theorem.

| Module | Assumes | Theorem | States |
|---|---|---|---|
| `ChainFSProofs` | `GeometryAssumption`, `CallerAssumption`: regions that are not empty, paths made of `Names` | `TypeCorrect` | `Spec => []TypeOK` |
| | | `AscendingLinksInvariant` | `Spec => []AscendingLinks` |
| | | `WritesOnlyFree` | `Spec => WritesOnlyFreeBlocks` |
| | | `RootEntryPersists` | `Spec => RootPersists` |
| | | `DamageStays` | `Spec => DamageContained` |
| `ChainFSFilesProofs` | the same, and callers: `PlainCallers /\ FilesSpec` | `NamesUnique` | `[]UniqueNames` |
| | | `CwdStaysDirectory` | `[]CwdIsDirectory` |
| | | `BlocksNotShared` | `[]NoSharing` |
| | | `NothingLeaks` | `[]NoLeak` |
| | | `WrittenFound` | `WrittenIsFound` |
| | | `FilesStayWhole` | `[]FilesIntact` |
| | | `FilesStayApart` | `[]FilesDisjoint` |
| | | `StoreImplemented` | `ImplementsFileStore` |
| | the same, and `CreateSpec` | `CreatedStayWhole`, `CreatedStayApart` | `[]FilesIntact`, `[]FilesDisjoint` |
| | and `ShortNames`: names that are stored in full | `CreationsShowAtOnce` | `CreationsAtomic` |
| `PataProofs` | `AddressAssumption`: registers that hold at least one value, any numbers for sectors | `TypeCorrect` | `Spec => []TypeOK` |
| | | `DataOnlyWhenReady` | `Spec => []DataWhenReady` |
| | | `StoreImplemented` | `Spec => ImplementsSectorStore` |
| `HeapProofs` | `HeapAssumption`, `CallerAssumption`: aligned ends, no request that makes `align16` wrap | `TypeCorrect` | `Spec => []TypeOK` |
| | | `ListTilesHeap` | `Spec => []Tiled` |
| | | `PromisesKept` | `Spec => []Granted` |
| | | `HoldersApart` | `Spec => []HeldApart` |
| | | `FreeIsJoined` | `Spec => []NoFreeNeighbours` |
| | | `DoubleFreesFound` | `Spec => []DoubleFreeFound` |
| `InputProofs` | `InputAssumption`: bytes, a buffer of 2 or more | `TypeCorrect` | `Spec => []TypeOK` |
| | | `LineOrdered` | `Spec => []LineInOrder` |
| | | `OnlyKeysTyped` | `Spec => []KeysOnly` |
| | | `PacketsSound` | `Spec => []PacketSound` |
| | | `KeysAreKept` | `Spec => KeysKept` |
| `TerminalProofs` | `ScreenAssumption`: more than 5 rows and 3 columns, texts that end in their row, of characters that differ from a prompt, a key and a blank | `TypeCorrect` | `Spec => []TypeOK` |
| | | `LineVisible` | `Spec => []InputVisible` |
| | | `OutputStaysInOrder` | `Spec => OutputAppended` |
| `InterruptsProofs` | `InterruptAssumption`: vectors and lines that exist | `TypeCorrect` | `Spec => []TypeOK` |
| | | `FramesSound` | `Spec => []FrameSound` |
| | | `ThreadStaysUndisturbed` | `Spec => []ThreadUndisturbed` |
| | | `EndsOnlyOwnService` | `Spec => EndsOwnService` |

Each of these modules also proves its inductive invariant (`Inductive`, and
`FilesInductive`, `FilesChainsInductive` and `CreateInductive`). `NumberLemmas` has the lemmas on
division and rounding that the digits of a disk address, the alignment of memory and the
rows of the screen rest on.

### ChainFS, any caller and any reset

`IInv` is `TypeOK /\ AscendingLinks /\ UnwrittenFree /\ RootNotInFlight`. Ascending
links alone are not inductive: `LinkBlock` links a block to the least of the rest
of `todo`, which is above it because `todo` is a set from which the least element is
taken. That a block is free when it is written needs `UnwrittenFree`: the allocated
blocks stay free until their turn comes, since the only other map writes are
done, or wait for this call. `RootPersists` needs that no call ever works on the
root entry: it could only be found by a lookup in a directory with number
`NoParent`, and no lookup starts there. The lemmas on lookups (what
`chainfs_resolve_path`, `Target` and the parents return) carry the type proof.

`DamageStays` needs no more than `IInv`, although it speaks of whole chains: a step
writes at most one entry and one block, which is free (`OthersBlock`) or the one that the freeing loop is
at; a walk over blocks that keep their links is the same walk (`WalkKept`); and
`chainfs_read_file` looks at nothing beside the walk and the blocks on it (`ReadSame`).

### ChainFS, the callers of `files`

`FilesSpec` and its conditions `PlainCallers` and `RewriteFits` are at the end of
`ChainFSProperties`; section 3 says what they exclude and why. They are needed: without
them, `full` and the runs of the next table have the counterexamples, and `long_names`
refutes `WrittenIsFound` for names that the driver cuts.

`FInv` adds three groups to `IInv`.

- `NamesInv`: what format has cleared so far, that a mounted disk has a root, that files have
  names of files and directories those of directories, that no entry is its own parent,
  and that nothing but its own slot has the name that a write is about to store.
  `UniqueNames` needs the last; `CwdIsDirectory` that no entry is its own parent, for
  then a lookup in the current directory never finds itself, and `rmdir` frees another.
- `BlocksInv`: who owns a block. Counting holders is awkward to reason about, so `Owned` says it
  without: two holders of a block are equal, two links to it are, and it has not both.
  `BlocksNotShared` then gets the numbers from `FS_EmptySet` and `FS_Singleton`. `Allocated`
  says the same of the blocks a write has taken and not linked yet, which are marked free.
- `Chained`: there is an assignment of blocks to files in which the first block of a file is its
  own, is its block number 0, every block but the last leads to one of the same file with the next
  number, and the chain of the call in progress is what it has written so far.

`FilesIntact` is about the n-th block of a chain, for any n, and would be an induction. The
proof goes by the least number at which a walk leaves the file (`WalkInFile`):
there is none, since the block before it is the file's and leads to one that is. That
the recursive function `Walk` exists and is unique (`WalkExists`, `WalkUnique`) goes the same way.

`StoreImplemented` maps each step: a format, a rewrite and a delete are `Begin` steps that take
effect, the beginning of a creation is one that does not; `CommitEntry` and `Unlink` are `End`
steps that take effect (for a rewrite and a delete, again: nothing changes), giving up
and the last sector of a format `End` steps that do not; all other steps stutter. It needs
`Keyed`: the entry that a call works on has the name it was given. `StoreShows` says what a
name reads as in terms of the one entry that has it, `ReadsWhole` that reading an intact file
gives all of it, `ContentsStay` that no step touches a file's first block.

### ChainFS, callers that only create, with resets

`CInv` is `IInv /\ Chained /\ Creating`. A reset makes the blocks of the call in progress
nobody's in the assignment of `Chained`, and they may then be handed out again. `Creating` says
that such a call
works on a free slot, and how far a format that was cut short got; the paths are
arbitrary here.

`CreationsAtomic` compares what all names read as before and after each step of a call. Names
need not be unique for these callers (a file written through a path may be stored beside
an entry of its name), so the proof speaks of the first entry with a name (`First`): a slot that was
free until `CommitEntry` fills it can only become the first of its own name (`Created`), and only
`CommitEntry` touches the table (`NothingCreated`). That it then reads as all that was written
comes from `FilesIntact` after the step and the chain of the call (`ChainWritten`).

### The disk driver

The drive is never asked what command it works on, so `IInv` says, for each operation, where
the driver and the drive may be at the same time, what is in the drive's buffer, and that the
registers name the sector of the call. `DigitsName` proves that the four digits of a number name
its last 28 bits. `Left` is what `pata_identify` may leave behind: a drive that
is busy, has its identity to send, or has refused; the waits of the next call cope with each. A
read takes effect when its last word is taken, a write when the drive stores the sector.

### The heap

The operations change the list in several places, so `Shape` is stated for any content of
memory and proved helper by helper (`Merge`, `Carve`, `split_block`, `Allocate`, `coalesce`, `Release`).
Besides `Tiled` it needs `Back` (every block but the first has the one before it as `prev`)
and `Stale`: a header that was merged away says free if it says anything. The latter is why
a second `kfree` is always found.

### Input and interrupts

`Input`: the register numbers its bytes, and `IInv` says which may be in the line: those before
the register's, and that one only after it was read (`LineCounts`), which is what survives a
handler that takes the byte between the poll and the read.

`Interrupts`: `IInv` says what is on the stack at each place of a stub, how deep (`Depth`, one frame for each
exception), that interrupts of devices do not nest, and that
only they return. That the fifteen registers are popped in the opposite order of their pushes, and lie in
`registers_t` as they were pushed, is `SameOrder`.

### The terminal

`TypeOK` bounds the counter by what the command has still to print, `InputVisible` and
`OutputAppended` by what stands on the row it has reached. Both are sums over the sequence `todo`, which no
step may recompute. `Planned` says instead that there is a course: a function that
gives a stop for each part still to do, the row's content before it (`free`, `half` a line,
`prompted`, `asked`, a `path` and so on) and how far the counter may have run, such that
each part makes a `Turn` from one stop to the next. `EveryCommand` shows that all sequences
that `StepsOf` names have a course that starts on the row after the typed line; this is where
the sequences of the code are gone through, and where `n` lines of `ls` or `cat` are
any number. After that a step takes the first turn of a course away (`LeadsAway`), and
`Turn` has one case for each kind of part, not for each command.

`TInv` is `TypeOK` with five parts: `Running`, that a command has such a course and that its row
looks as the stop says; `Asking`, the same while `calc` waits for a line; `Waiting`, that between
commands the counter is on the screen and the cursor on its row; `Below`, that nothing stands
below the typed line; `Typing`, what stands on its row. `Running` makes an exception of the last row
for `cat`, `disk` and `fetch` (`Exempt`): there the row may be anything, but one line later the counter is
below the screen, where `print` starts with an empty row whatever was there. So what
`Crowded` exempts does no harm later.

`TurnAbove` and `TurnBelow` are the two cases of `print`, `StepAppends` what `OutputAppended` asks of
a step, proved for each way to write (`AppendText`, `AppendScrolled`, `AppendErased`,
`AppendLetter`). The last is the reason for `Completes`: below the screen the two halves
of a prompt are scrolled apart, and the next letter draws the missing one before what stands there.
The stops of a course are the only thing chosen for the proof; TLC checked `TInv` on
the constants of the run `terminal` before it was proved.

### Only model-checked

- Liveness, six properties (`CallReturns` of `ChainFS` and of `Pata`, `ReachesPrompt`, `RegisterDrains`,
  `InterruptsServed` of `Input` and of `Interrupts`): the prover does not reason about `ENABLED`.
- The runs that expect a counterexample.

## 6. Not modelled, and simplifications

- Splitting of strings; more than 16 components and components of more than 30
  characters (`split_path` drops those); a trailing slash.
- Of a freed entry only the parent is kept, since nothing else of it is read.
- The disk starts zero-filled and is formatted with one geometry. The commands
  `disk clear` and `disk dump` access sectors behind the driver's back.
- The buffer given to `chainfs_read_file` is large enough.
- Heap: no request is so large that `align16` wraps (`CallerAssumption`), nobody
  writes past what it was promised, or the image of a header, or frees a
  pointer that is somebody else's. Of a header that was merged away only the
  magic and the flag are kept, the fields that `kfree` tests. `kfree` refuses null
  and pointers outside of the heap, which callers here do not pass.
- PATA: nothing is claimed of what `pata_identify` returns, since it does not wait for DRQ, and a
  drive is taken to accept a command while it still has data to send. The drive reports errors
  only before data is moved, not after the last word
  of a write, and an absent one reads as 0 (a bus that floats reads 0xFF, which is
  busy for ever). Whether the drive's own cache
  is flushed when power fails is not claimed: the flush command may be refused.
- Input: what is drawn, `handle_keyboard` (never called), and other interrupts. The
  controller takes commands at once, and the mouse always acknowledges.
- Terminal: colours, the pointer that `mouse.c` draws over the text, `shutdown` and
  `reboot`, and texts that are longer than the rest of their row. What the commands do
  to the disk is in `ChainFS`; `disk dump` and `disk clear` are only seen as output.
- Interrupts: that each gate leads to the stub of its vector (idt.c:92-140), the text of the
  panic, what the handlers do for their devices (`Input` has
  it), the alignment of the stack on entry, which `iretq` undoes, and a processor that
  gives an error code with vector 29 (a guest under SEV-ES), for which the stub has none.
- mlibc's strings and conversions: see the plan. The serial log (`lib/com1.c`) is output that
  nothing reads back, and waits for its port. The boot code runs once,
  straight through, before kmain.

Three things the `input` runs contain are no properties, being false of this code and
promised by no document. With IRQ 1 unmasked its handler throws keys away
(handlers.c:13). With IRQ 12 unmasked `scanf` may find a byte of the mouse, be
interrupted by its handler, and then discard a key that arrived meanwhile
(keyboard.c:97-100); `KeysKept` says that these are the only ways to lose one.
And a key that is typed while the kernel boots may be taken for the controller's
command byte and written back (mouse.c:59-63), which can switch both devices off.

## 7. Plan

Done: ChainFS with its properties and abstract store; heap; disk with a drive that fails;
input; terminal; interrupts; the theorems of section 5.

What would come next, in this order:

1. From `CreationsAtomic` to the whole refinement of `FileStore` for the callers of
   `crash_create`, with resets: a reset in
   the middle of a format brings files back, so the abstract store needs a format that
   may stop half-way, and directories that shadow files, since these callers give any path.
2. `Numbers`: `atoi`, `itoa` and the arithmetic of `calc` at their widths.
3. A line editor that `scanf` implements when no handler interferes.
