# A TLA+ model of hrishikos

hrishikos is a small x86_64 operating system in C: a boot loader, memory management, a
keyboard and a screen, a polling disk driver, an inode file system, and a shell.  This
directory models the parts of it that carry state and invariants, checks them with TLC
and proves the central ones with TLAPS.  Paths below are relative to `src/os/`.

## The system

The kernel (`kernel.c`) initialises memory, the heap, the interrupts and the file
system, in this order, and then runs the shell for ever.  There is one thread of
control; the only concurrency is that of interrupts.  Commands call the file system
directly, the file system calls the disk driver, and the disk driver polls.

| component | state | operations | talks to |
|---|---|---|---|
| physical memory `mm/pmm.c` | bitmap of frames, counter of used frames, init mode | init, alloc, free | page tables and heap take frames |
| page tables `mm/vmm.c` | four levels of tables, in frames of `pmm` | init, map, unmap | `pmm`, heap |
| heap `mm/heap.c` | a free list per order, an order byte in front of each live block | init, alloc, free | maps fresh frames for each block it hands out |
| keyboard `drivers/keyboard.c` | decoder flags, ring of 256 key codes | interrupt handler, two polling readers | shell, editor |
| disk bitmaps `lib/bitmap.c`, `fs/fs_data.c` | one block of the bitmap in memory, its dirty flag, a counter of used bits | find, set, unset, load, flush | data blocks, inodes |
| inodes `fs/fs_inode.c` | clock cache of 128 inodes; block tables on disk | create, get, destroy, set size, get and set block | bitmaps, directories, files |
| directories `fs/fs_directory.c`, `lib/dir.c` | entries in data blocks, working directory of the shell | create, find, add, delete, paths, cd | inodes |
| files `lib/file.c` | cursor and one block buffer per open file | open, seek, read, write, close, delete | inodes, data blocks |
| layout `fs/fs_superblock.c`, `fs/fs.c` | the superblock | calculate, load, format | everything on disk |
| disk `drivers/ata.c` | the registers of the drive | read, write, by polling | file system |
| screen `drivers/vga_text.c` | cursor, colours, text buffer | print, scroll, clear | shell, printf |
| shell `bin/shell/` | input line, working directory | read a line, parse, run | all of the above |

What is hard in each of them, and what would make it correct:

* **Physical memory.** A frame must have one owner, and be RAM nobody else uses, through
  any mix of allocations and frees.  The counter that decides whether memory is full is
  kept apart from the bitmap and starts off wrong by the holes of the memory map; it must
  not drift.  Free does not test that the frame was in use, so a wrong free has to be
  survived by every other frame.
* **Heap.** Blocks must tile the heap: two callers may never share a byte, and nothing may
  be lost.  Links and order bytes lie in the memory of the heap itself, and the frames
  behind that memory are ones the physical memory manager believes to be free: once it
  hands them out, or runs out of frames, two blocks can share a link or an order.  Running
  out of blocks and running out of frames are separate and both are handled badly.
* **Keyboard.** The interrupt writes the ring while a reader is between any two of its
  loads and stores, and on overflow moves the reader's index.
* **Disk bitmaps.** The block in memory is written back only when another is loaded, so a
  crash forgets allocations; the counter of used bits means different things before and
  after a reboot; set and unset look at a bit before they load its block.
* **Inodes.** Cached copies are written back on eviction; pointers to cache entries are
  kept across calls that evict; freeing and growing fail half way.
* **Directories.** A directory must stay a function from names to inodes although look-up
  compares whole names and deletion compares prefixes, freed rows are used again, names
  come from a rewritten path and directories from the path as typed.  The prompt must tell
  where the shell is.
* **Files.** No data block may have two owners when the disk fills up half way through a
  growth, or when the direct table runs into the field behind it; one block buffer serves
  reads and writes at any cursor.
* **Layout.** The areas are computed with gaps and part blocks and must not meet; the
  superblock is the first thing written and the only thing looked at, so a crash while
  formatting is never noticed.
* **Disk.** Unbounded polling, errors in the middle of a transfer, an error after the last
  sector.
* **Screen and shell.** The line editor knows the start of its input only as a screen
  position, while the screen wraps, scrolls and moves a cursor left of its edge a row down.

`PROJECT.json` lists each hazard at its line, with the properties that cover it or the
reason none does yet.

## The modules

| module | models | checked by |
|---|---|---|
| `FrameScan` | the constants of `mm/pmm.c` and its pure parts: which frames the E820 map makes usable, what `pmm_init` leaves in the bitmap, what the scans find | through `Pmm`, `Heap` |
| `Pmm` | `mm/pmm.c` as a state machine | run `pmm` |
| `BuddyHeap` | what the heap promises: a set of blocks, cut and freed | run `buddy` |
| `BuddyHeapProofs` | proofs about `BuddyHeap` | |
| `Heap` | `mm/heap.c` in detail, in the frames it maps; implements `BuddyHeap` | runs `heap`, `heap_exhausted` |
| `HeapProofs` | proofs about `Heap` | |
| `Keyboard` | `drivers/keyboard.c`, its interrupt and its readers | run `keyboard` |
| `BitmapDisk` | `lib/bitmap.c` under `fs/fs_data.c` | run `bitmap` |
| `BitmapProofs` | proofs about `BitmapDisk` and `Pmm` | |
| `InodeCache` | the cache of `fs/fs_inode.c` under the commands of the shell | run `inodes` |
| `InodeCacheProofs` | proofs about `InodeCache` | |
| `Paths` | the functions on paths of `fs/fs_directory.c` | through `Names` |
| `NameSpace` | what directories promise: functions from names to inodes | through `Names` |
| `Names` | `fs/fs_directory.c` with the calls of `lib/dir.c` and `lib/file.c` the commands make; implements `NameSpace` | run `names` |
| `NamesProofs` | proofs about `Names` | |
| `Files` | the block tables of `fs/fs_inode.c` under `lib/file.c` and the growth of directories | run `files` |
| `FilesProofs` | proofs about `Files` | |
| `Volume` | `fs/fs_superblock.c`, and `fs_init` of `fs/fs.c` with crashes | run `volume` |
| `Ata` | `drivers/ata.c` and the drive it polls | run `ata` |
| `DiskProofs` | proofs about `Ata` and `Volume` | |
| `Terminal` | `drivers/vga_text.c` under the line editor and the parser of `bin/shell/shell.c` | run `terminal` |
| `ConsoleProofs` | proofs about `Keyboard` and `Terminal` | |

The `MC*` modules hold the values the configurations give to the constants.  Definitions
named `Mut...` are not part of any specification: each is a definition of the same module
with one plausible mistake in it, kept to show that a property notices that mistake.

### Physical memory: `FrameScan`, `Pmm`

The bitmap is the set `memory_map` of frames whose bit is set; `used_blocks` and
`init_mode` are the C variables.  `outstanding` is a history variable that counts how
often each frame has been handed out and not returned.  `FreeBlock` tests as little as
`pmm_free_block`: it takes any frame, from a caller that has it or from one that has not
(a second free, or a wrong address).  `stray`, the other history variable, has the frames
given back by who had them not.  Such a free clears the bit of just that frame, which may
then get two owners, and puts the counter wrong; the properties say that this is all:
every other frame keeps its one owner and its bit, and no frame outside RAM is handed out
but the one that was given back.  Words and bytes of the bitmap
matter only where the code's behaviour depends on them: the scans look at whole words,
and `memset(.., 0xF, ..)` sets half of the bits of each byte.  Bits past the memset hold
whatever memory held before (a nondeterministic choice).  A failing `pmm_alloc_block` is
a step that changes nothing.

`HolesAssumption` says that every frame a scan can return is RAM or reserved: it holds
for a PC whose RAM above 1 MiB is contiguous and at least 15 MiB (the low scan looks at
16 MiB).  It is necessary, since with a hole in the scanned range the half-clear bits of
the memset would be handed out.  `CapacityAssumption` says that the machine has the frames
the kernel reserves and scans in init mode (10 and 16 MiB), and that rounding the entries of
the memory map down loses fewer frames than a word of the bitmap has bits.
`AddressAssumption`: less than 2 GiB, since `frame * PMM_BLOCK_SIZE` is computed with an
`int` (`pmm.c:193`); the machine the repository starts has 128 MiB.

Run `pmm` uses two RAM entries (the first ends in a part frame), a hole, and 16 frames of
two bytes; reserved frames cover the hole, as on a PC.  Every interleaving of allocations
and frees until memory is full is reached, with up to two wrong frees (`MAX_STRAYS`), two
of the same frame among them: more of them only add to the frames about which nothing is
claimed.

### Heap: `BuddyHeap`, `Heap`

`BuddyHeap` has two sets of blocks, free and live; blocks are cut and never joined.

`Heap` is `heap.c` on memory.  `word` has the first word of every frame and `pte` the page
table of the heap range.  The link of a free block and the order byte of a live one are the
word at the start of the block, that is, of the frame its first page is mapped to.  So the
order byte overwrites the low byte of what was a link, the frame of a link changes when a
block is handed out (`heap_alloc_block` maps fresh frames first and writes the order then),
and blocks whose pages have the same frame have one link or order between them.  Callers
write into their blocks (`Use`).  What a reader finds where nobody wrote a link is
`UNKNOWN`; a loop that follows it is `"lost"`, one that meets more blocks than there are
`"loops"`, and either ends the kernel (`kernel`).  `heap_free` goes by the order byte it
finds, and by any order if it is unknown.  The walks along the lists (`Met`, `Search`), the
split and the loop of `heap_free` are translated as they are, with the pointer the loop is
given; that it never merges anything in this code is a result (`ImplementsBuddyHeap`, since
`BuddyHeap` never joins), not an assumption.  Not in the model is the TLB: translations
come from the table, although `vmm_map_page` does not flush the entry of a page it maps
again.

How long do lists and order bytes last?  The frames that back the heap before its first
allocation (`Window`, 32 to 48 MiB of physical memory) are free to the physical memory
manager.  `Untouched` says that it has handed none of them out.  It goes through memory from
below and a frame of the heap is never given back, so this ends after about 22 MiB of
allocations in all.  `LinksIntact`, `WalksEnd`, `HeadersKept` and `ImplementsBuddyHeap` are claimed
until then.  Behind that point callers' data and links share frames; the model goes on, with
everything that can come of it, and `RequestFits` and `LivePagesDistinct` are claimed for
good.

Run `heap` has four pages, orders 0 to 2, twelve frames of which eight can be handed out,
and requests that hit every order, both boundaries, and too large ones.  The last four
frames are the window, so the lists live through several splits and frees, then are
overwritten, and the run goes on until the frames are exhausted and blocks are mapped to
frame 0.  `VIEW MCView` leaves out of a state the contents of frames that were handed out
and are mapped nowhere any more: nothing reads or hands out such a frame again.

Callers test what `malloc` returns for `NULL` (`bin/editor/editor.c:122`), and run
`heap_exhausted` shows what becomes of that test.  There `AFTER_LIST` is what the word behind
`heap_free_list` is in the linked kernel, a pointer (`boot_info`).  A `malloc` that no list
can serve takes that word for a block and never comes back: the first round of
`heap_split_block` writes a link 16 MiB behind `boot_info`, where nothing is mapped (the
identity map ends at `0x1000000`, `vmm.h:11`), and the page fault handler halts; a request
of nearly 16 MiB or more, for which no round is needed, maps fresh frames over the kernel's
own pages.  The model stops the kernel there (`"past_list"`).  Nor does the test notice that
the frames have run out: `malloc` then returns a block on frame 0, which is why
`LivePagesDistinct` excepts that frame.

### Keyboard

The handler is one step, since interrupts are off in it.  The reader is compiled without
optimisation and runs with interrupts on: `LoadHead` to `StoreTail` are its loads and
stores, one action each, and the interrupt may come between any two.  The physical
keyboard is part of the model (`Press`, `Release`): a key sends a byte or a prefix and a
byte, and nothing is released that was not pressed.

Run `keyboard` has a ring of three slots and at most four codes (plus those that follow),
so that it wraps and overflows.  Up to the first overflow the reader gets exactly what
was typed, in order.  After an overflow that is no longer true (a code can be read twice,
or the ring can look empty or full), but a slot that was never written is never read.
Fairness: the reader is in a polling loop, and a pending interrupt is taken, so weak
fairness of both; the keys themselves have none.

### Disk bitmaps: `BitmapDisk`

The functions of `bitmap.c` are operators from a state (disk and `bitmap_disk_t`) to a
state, and the actions are the calls of `fs_data.c`.  `Reboot` may come at any time,
keeps the disk and loses the block in memory; inodes that reached the disk may still hold
any part of the blocks.  `shape`, chosen at the start, is the size of the bitmap and of
its blocks.

Run `bitmap` has two shapes.  One is that of the shipped file system: a single bitmap
block with more padding than bits (in the kernel, 624 of 4096 bits are used).  There
`bitmap_disk_compute_used_bits` counts the padding too, so after a reboot no block can be
allocated: that alone keeps a block whose bit was lost from getting a second owner, which
`SingleOwner` shows together with `CountFollowsBits`.  The other shape has several blocks
that are swapped through the one in memory.  There a freed bit may stay set, because
`bitmap_disk_unset` tests it in the wrong block, and no property denies that space is lost
so; `NothingLeaks` is claimed only for one block, and only until a reboot, and is proved
for that case but in no run.  The bound `HoldersBounded` stops the run where a block has
been held more often than `SingleOwner` distinguishes.

### Inode cache: `InodeCache`

The functions of `fs_inode.c` are operators from a state (cache, clock hand, inode table
on disk, inode bitmap) to a state, as in `BitmapDisk`; the slot they return is part of
the result, so that a caller's pointer is a slot number that may go stale.  The actions
are whole commands, with the calls they make in their order: `touch`, `mkdir`, `rm`,
and `lookup` for `ls`, `cd`, `out` and the parts of a path.  `rmdir` takes its pointer at the
beginning and uses it at the end, and walks the whole path to the parent and reads the
directory between: it is `dir_remove_open`, any number of steps `lookup` of any inode, and
`dir_remove` or `dir_remove_refuse`, with the pointer in `kept`.  Of an inode only the
size is kept.  Which directory holds what is left open: any inode may be named as the
parent, as the code does not test that it is a directory, and a new entry may or may not
find a free place.  The constant the kernel uses is twice as many slots as inodes;
`CacheAssumption` asks only for more.

Run `inodes` has three inodes and four slots, so that every way of evicting happens within
a few commands.  Until the variable `sound` is lost, every update survives (also those of
inodes that are created, destroyed and created again), the pointer `dir_remove` keeps
points to its inode through any number of look-ups (`PointerStaysGood`), and nothing is
cached twice.  `sound` is lost
in two ways, both possible in the code: the hand leaves the cache, because
`fs_inode_cache_entry_evict` does not wrap it after an eviction of the last slot (the next
eviction then overwrites that slot, which holds the newest inode, without writing it
back); or a command looks up an inode that is not in use, through a stale directory
entry.  The run explores the first such states and nothing behind them (`CONSTRAINT`).
A `mkdir` or `touch` with no inode free goes on through address zero and is not modelled;
the disk never fills.

### Directories: `Paths`, `NameSpace`, `Names`

A path is the sequence of its segments and a name a sequence of characters, since
deletion compares prefixes.  `normalize` is `fs_path_normalize` with its one irregularity:
a path that ends in `..` at the root is read on past its terminating zero, and what lies
there (`Behind`) is any further path.  A directory is the row of its entries; a freed one
stays, with an empty name.  The actions are the file system calls of `ls`, `mkdir`,
`rmdir`, `cd`, `touch` and `rm`, given any of the input paths.  `dir_make` goes through
all the parents, as the code does with `forced`.

`NameSpace` forgets the rows: a directory is a function from names to inodes, and a
command adds one new name to one directory (with the first names of the inode it stands
for) or takes at most one away.  `ImplementsNameSpace` is the refinement, with `entry_find`
as the mapping.

Run `names` has three inodes, eight paths (relative, absolute, through `..`, doubled and
trailing delimiters) and two names of which one is a prefix of the other, which is the
smallest instance in which a wrong row is deleted.  Two history variables say how far the
claims go.  `sound` is lost when a command looks into an inode that is not in use, by a
stale entry; the run stops there (`CONSTRAINT Sound`), as it does for `InodeCache`, where
such an inode is then cached twice.  `exact` is lost when a deletion takes another row
than that of the inode it deletes, which happens as soon as a freed row or a prefix stands
before it (`rm` and `rmdir`), and `rmdir a//b` deletes `b` from the directory and destroys
`a`.  `EntriesInUse` holds until then, and `UniqueNames` and `ImplementsNameSpace` also
after it.  `Shallow` bounds the depth of the working directory.

### Files: `Files`

Blocks are rows of cells, and a cell holds what was written there: a byte, an entry or a
pointer.  `inode_t` has its count, its size and a table of `POINTERS + 1` numbers, since
the cutoff of the code is one too high and the pointer behind the array is that of the
first indirect table.  Block `-1` is real: `FS_DATA_FAILURE` added to the first data block
is the block before it, which the code reads and writes.  An open file has its cursor, its
buffer, the block in it and its dirty flag; `file_read` and `file_write` go cell by cell.

Run `files` has three blocks of two cells, one direct pointer (so that a second block is
the misplaced one), a file and a directory.  The disk fills up within a few steps because
`fs_inode_free_blocks` frees nothing.  A write of three cells (`MaxCount`) to an empty file
asks for two blocks, and finds two, one or none: the growth that fails half way, with a
block taken that is not counted, is reached, as is a write that finds no block at all.  A
growth by more than two blocks, which could fail after the second, is not (the theorems
have growths of any number).  `file_open` does not look at the type of an entry, and
neither does the model: a directory is opened and read as well as a file, and grows under
an open `file_t`, whose buffer is then not what is on the disk (`plain` ends).  Nobody
writes to a directory through a `file_t`, which `edit` could but as a stub does not: a bound.  The claims are
about files that are written at their end through one `file_t` at a time (`plain`);
`FilesHoldTheirContents` says that these keep their contents whatever happens to the
others, which may be overwritten or confused by seeks.  `FilesAssumption` has what the
kernel's sizes give: a block has a cell, a table a pointer, the disk two blocks.  Constraints:
`Direct` (the run stops at the first file too large for the direct table, whose contents are then
taken for pointers; nothing is claimed of files created from then on), `SomePlain`, and `FewLoads` on the index of the buffer, which grows for ever.

### Layout and formatting: `Volume`

`Superblock` is `fs_superblock_calculate`.  `fs_init` is one action per write: the
superblock, each write of `bitmap_disk_init` (which goes on by sectors but writes blocks,
and so beyond the end of a bitmap if a block has three sectors or more), the bit of the
root, its two entries, the bitmap flushed by `fs_data_load`, the inode flushed by
`fs_inode_load`.  `Reboot` comes between any two of them.  Once it is up, the file system
writes data blocks, inodes and bitmap blocks at the borders of their areas.

A new disk has the image of the kernel on its first sectors (`Makefile:26-30`), which may
end before the volume or in the middle of it (`Images`), and is blank behind that; what
formatting has not written is taken from it.

Run `volume` checks sixteen volumes, the shipped one (300 sectors in front, 64 inodes,
1024 sectors) among them, with up to three starts.  `AreasApart` compares the sectors of
the five areas, overshoot included.  `RootSurvives` needs that formatting came to its end
once: after a crash before that the superblock is there, the next start loads what is
there, and the volume never gets a root.  In the shipped layout the data area ends one
block behind `block_count`, since the space is computed with one gap too few; the disk
image has more sectors, so nothing is lost.  `AreasApart` compares what the kernel writes,
not the image: the kernel built in the repository ends at sector 524, far inside the shipped
volume, which starts at 300, but what is loaded of it ends before sector 200, and
formatting overwrites only its symbols.

### Disk driver: `Ata`

`ata_read` and `ata_write` are a sequence of steps (`SetAddress` to `FinishWrite`), one
per poll, status read or sector moved; between them `Drive` moves: a busy drive becomes
ready, asks for the next sector, or fails.  The drive is modelled from the registers the
driver uses: BSY, DRQ, ERR, DRDY, a transfer that is acknowledged sector by sector, and an
error that stays until the next command.  Run `ata` has the sizes the callers use (a part
of a sector, a sector, two).

`SuccessMeansDone` excepts a failure after the last sector, which the driver does not look
for.  An error that no flush clears is found by `ata_wait_drdy` of the next call, which
then sends no command: every later call fails.  For `CallsReturn`, weak fairness of the
driver (it polls and does nothing else) and of the drive: that BSY ends is what the driver
relies on, having no time-out.

### Screen and shell: `Terminal`

The functions of `vga_text.c` are operators from a screen (cursor and cells) to a screen;
`shell_get_input` is an action per kind of key.  `rectify` divides as C does, so a cursor
at column -1 goes to the next row and a column further left, which is the same cell.
Should the row become negative, the screen is scrolled by a negative count: the copy goes
forward over itself, and what lay in memory in front of the screen, which no claim is about
(`Unknown`), covers all of it.
`printf` prints nothing in this code: its formatter `vsnprintf` has no `return` but the one
with -1 (`lib/stdio.c:160-569`), and `printf` gives up on that.  (On its way there it runs
past the end of the format, and takes what lies behind for more of it; that is left out.)  The prompt and the
messages of the commands are therefore not on the model's screen either, and input starts
where the last output ended.

Run `terminal` has nine cells and lines of up to five characters, so that lines wrap, the
screen scrolls under a line, and backspaces go back over the left edge.
`EchoMatchesInput` compares the line with the cells before the cursor, on the screen as it
is then.  A tab, which is one character and several cells, and a backspace that got into
the line end the claim until the next line (`odd`).  `ParsedAsWords` compares the parser with a
definition of words by their borders, for every line the run reaches.

## What is proved

Every theorem below holds for all values of the constants that satisfy the assumptions named
with it; the runs check the same properties on one small instance.  Each proof has the same
shape: an inductive invariant (checked by TLC on the run's instance before it was proved), a
lemma for each function of the code that says what it does to the state, one step for each
action, and the property as a consequence.

**Physical memory** (`BitmapProofs`; `HolesAssumption`, `SizesAssumption`, `CapacityAssumption`):
`SingleFrameOwner`, `RamOnly`, `BookkeepingAgrees` and `NoSpuriousFailure`, for every memory map
and any number of wrong frees.
`SingleFrameOwner` is not inductive by itself.  A clear bit has to mean a frame nobody holds, which
is the first half of `BookkeepingAgrees`; and that speaks only of RAM above the reserved
frames, so the reserved bits have to stay set (`KernelMarked`), which in turn needs that no
reserved frame is ever held and so freed (`RamOnly`).  `PmmIInv` is the conjunction.  The key
lemma is `AllocFrameIsFree`: what a scan returns is clear, RAM and not reserved.  For
`NoSpuriousFailure` the counter, which starts off wrong, is compared with the number of
frames held: they keep their distance, and that distance is less than one word of the bitmap.

**The abstract heap** (`BuddyHeapProofs`; `BuddyAssumption`, and `HalvesAssumption`, that block
sizes double): blocks never overlap and their union is always the heap, for every number of
orders.  The argument is about `Pieces`: the pieces of a cut block are disjoint and have exactly
its bytes, so cutting in place keeps a tiling a tiling.

**The heap** (`HeapProofs`; `SizesAssumption`, `HolesAssumption`, `HeapAssumption`,
`WindowAssumption`): `ImplementsBuddyHeap`, `RequestFits`, `LivePagesDistinct`, `LinksIntact`,
`WalksEnd` and `HeadersKept`, for any number of orders, any page size, any requests, any word
behind `heap_free_list`, and whatever callers write.

* None of these is inductive: a list is only what one finds by following links, and a link is
  only right as long as nothing else was written where it lies.  `HInv` has two parts.  `TInv`
  holds for good: the counter and bitmap of the physical memory manager, the frames of the
  pages (used ones under live blocks, 0 once they ran out), and the sizes of live blocks.
  `CInv` holds until a frame of the window is handed out: every page has a frame of its own,
  and there are lists, sequences of blocks, such that the words in memory are their links
  (`Linked`), the order bytes those of the live blocks (`Stamped`), no block is twice on them,
  and with the live blocks they tile the heap.
* From that, each function of `heap.c`, which reads and writes words, is a step on the lists:
  `heap_add_block` puts a block in front; `heap_del_block`, which only ever looks for one of
  the first two, takes it away; the rounds of `heap_split_block` are `Pieces`.  The loop of
  `heap_free` is given a pointer behind the header; every block starts on a page and a header is
  smaller than one, so no block lies at the address of the buddy, the walk comes to the end of
  the list (`WalksEnd`) and nothing is merged.  Each call is then one step of `BuddyHeap`.
* The step at which a frame of the window goes is in none of the claims about lists, and the
  window never comes back (`Untouched' => Untouched`), so the first part is enough from there on.
* `WindowAssumption` is that the machine has the 16 MiB of frames which back the untouched
  heap, and that the heap has no fewer pages than the bitmap has bits in a word: only then can
  `pmm_alloc_block` not fail while the window is untouched.

**Keyboard** (`ConsoleProofs`; `SizeAssumption`, and `KeysAssumption`, that no key sends the
prefix as its own code): `FifoUntilOverflow` and `OnlyTypedCodes` from `IInv`, `NothingSticks`
from `DecoderInv`, for a ring of any size, any keys and any number of codes.  The first says
nothing of the reader between two accesses, so it needs `ReaderKeepsUp` (an index in the
register is still the index in memory, because until an overflow the interrupt moves only
`head`) and has to be told slot by slot, `SlotsFollowWritten`.  The second holds in spite
of an overflow that moves `tail` under the reader: a slot is unwritten only while the ring
has not gone round, and a ring that overflows has (`FirstRound`).  `DecoderInv` says that
whatever is down is held or has its release on the wire; the key lemmas are
`InterruptWrites` (all an interrupt does to the ring is one write) and `SuccWraps`,
`SmallRemainder` and `RingIndexes`, which replace remainders by comparisons.

**Screen and shell** (`ConsoleProofs`; `ScreenAssumption`, `LineAssumption`, and
`TypedAssumption`, that enter and backspace are keys of their own): `EchoMatchesInput`,
`BackspaceStopsAtStart` and `ParsedAsWords`, for screens, lines, tabs and arguments of any size,
and commands that print whatever they like.

* `TerminalIInv` has the cursor within the rows and not right of the edge (`GoodScreens`; left
  of the edge it may be), the cells before the cursor as the line (`Holds`), no backspace in the
  line, and `FromStart`: a cursor so far to the right that the whole line is before it in its
  row is as far from the coordinates where the line started, in their low bytes, which is all
  the shell keeps of them.  That is what makes the comparison in `shell_get_input` stop at an
  empty line; it works as long as the cursor is not left of the edge.
* What carries the proof is `Moved`: whatever `rectify` and `scroll` do, cells and cursor move up
  together (`Rectified`), or everything before the cursor has left the screen.
* `ParsedAsWords` is a statement about every line, by what is known after `k` characters
  (`ReadTo`): every word that ended is in its place and the rest is a piece of the line from the
  start of a word (`Within`), or nothing (`Between`), or all places are taken (`Complete`).

**Disk bitmaps** (`BitmapProofs`; `BitmapAssumption`): the four properties of run
`bitmap` and `NothingLeaks`, for bitmaps of any size and number of blocks and any number of reboots.  `Written` is the
newest copy of every block, in memory or on the disk: loading never changes it, `set` adds a
bit and `unset` takes one away or, with the wrong block in memory, nothing.  `Good` relates the
bits in it, the counter and the owners, before a reboot and after one.

**Inode cache** (`InodeCacheProofs`; `CacheAssumption`, more slots than inodes): `UpdatesSurvive`,
`PointerStaysGood`, `OneCopy` and `CleanMeansOnDisk`, for any number of inodes and slots.
`Coherent` says that what is cached is right, what is not is right on the disk, what is clean is right in both, and what is
not in use is zero; the last is why `fs_inode_create_forced` may add an inode without searching
for it and without ever writing it.  The pointer of `dir_remove` needs more: with more slots
than inodes one is always invalid (`SomeSlotIsInvalid`, the pigeonhole principle), the hand stops
there, and so an eviction never goes all the way round to an entry that was just used
(`EvictEmpties`).  That has to last through any number of look-ups inside a `rmdir`, so it is
part of the invariant: the entry of the pointer has its reference bit, or the hand meets an
invalid slot before it (`Pinned`).  A look-up that evicts leaves an invalid slot in front of
the hand's next round, and so keeps it.

**Directories** (`NamesProofs`; `NamesAssumption`): `UniqueNames`, `EntriesInUse`, the refinement
`ImplementsNameSpace` and `CdKeepsPath`, for any number of inodes, any names and any paths.

* `Tidy` is what `UniqueNames` needs: no name is twice in a row, and an inode that is not in use
  has an empty row, since a row that is found again by `fs_inode_create` would bring its old
  names with it.  Each call then maps to one step of `NameSpace` or to none: a row has at most
  one entry of a name, so the first one found (`entry_find`) is the only one.
* `EntriesInUse` needs the shape of the tree (`Tree`), as long as deletions are exact.  What a
  command destroys is named by an entry it then deletes; an entry may not be left behind under
  another name.  So an inode has one name at most besides its dots (`OneName`), its `..` is the
  directory that has this name (`Above`, `Below`), and the root is nobody's entry and its own
  `..`.  A deletion takes the first row whose name begins the one it is given; `..` stands
  behind `.` (`Dots`), so such a deletion takes `.` first and is not exact.
* `CdKeepsPath` is about `normalize` and the walk through the tree at once: both are recursions
  over the path, and are compared step by step.

**Files** (`FilesProofs`; `FilesAssumption`, and the bound `SmallFiles`, that files end within the
first indirect table): `OwnBlocks`, `FilesHoldTheirContents` and `ReadsWhatWasWritten`, for blocks
and tables of any size, any number of files, of handles open at once and of seeks.

* None of the three is inductive.  `FilesHoldTheirContents` speaks of the cells a look-up finds,
  and the next write goes through the buffer of a handle, whose block may have been looked up
  long before.  The invariant (`Sound`) therefore has, for every handle, that the block in its
  buffer is still one of its file's (`AtHome`), also when the handle was sought anywhere and
  nothing is claimed of its file: its write-back must not hit another file.
* Between files stands `Apart`: no entry of a table names the block another entry names, and
  each is marked in the bitmap.  An allocation that fails half way keeps it, since what it took
  stays marked and is behind `block_count`, where no look-up goes.  The size of a file may grow
  nevertheless, that of a directory does not (`DirectoriesFit`).
* Of a file of which something is claimed, `PlainFile` says that the one handle it has open holds
  a block at the place the index says (`Tracks`), with the cells of that block newer than those
  on the disk, and that buffer and disk together have the contents (`Holding`).  Each of the
  loops of `file_read`, `file_write` and `alloc_blocks` has an invariant of its own.
* Once a file has more blocks than direct pointers, its own data is taken for pointers and
  nothing is claimed of any file (`AllSmall`).

**Layout and formatting** (`DiskProofs`; `VolumesAssumption`): `AreasApart`, for volumes, sectors,
blocks and inodes of any size, and `RootSurvives`, for any number of starts.  A bitmap of `n`
blocks has room for `n + 1`, and the writes of `bitmap_disk_init`, which end less than a block
behind the bitmap, need no more.  `VolumeIInv` says what each phase of `fs_init` leaves on the disk
and in memory.

**Disk driver** (`DiskProofs`; `CallsAssumption`): `SuccessMeansDone` and `SectorsInOrder`, for
sectors and calls of any size and a drive of any pace.  `Phases` says, for every label of the
driver, what it and the drive have counted so far.

What replaces induction.  The induction theorems of the library take an operator as a
parameter and cannot be used.  Instead, `LeastElement` (a set of natural numbers has a least
element, from the well-foundedness of `<`) gives induction over numbers, one set at a time, and
`Recursion` (the steps are a function, and so a parameter like any other) the existence of what a
recursive function defines: the powers of two, the loops over orders and frames of the heap, the
looks of the clock hand, the segments of a path, the blocks and cells of a call on a file, the
spaces of a tab, the text a command prints, and the characters of a line.

## Only model-checked

* `TypeOK` of `InodeCache`, which holds of the states run `inodes` looks at: behind the loss of
  `sound` nothing bounds a size.
* `RingDrains` and `CallsReturn`, which are liveness under fairness.

`PmmTypes` of `Pmm`, `TypeOK` of `BuddyHeap` and `NothingLeaks` of `BitmapDisk` are proved and in
no run.

## Plan

1. Page tables: the walk of `vmm_map_page` that creates tables, and the TLB.
2. `Names` over `InodeCache`: the two share their commands, and the premise `sound` of
   each is what the other shows.

## Not modelled

* A call that finds no free inode: it goes on through address zero, also half way through a
  path with `forced`.
* Names and paths that are too long: an entry has 54 bytes for a name and one for its length
  (`fs_directory.c:84-85`), and paths are copied into buffers on the stack; nothing tests a
  length.  Names in the models are those that fit.
* The string literal that `cwd_path` points to, into which `cd` copies (`shell.c:69`);
  `Names` has a path with a place of its own.
* The second and third indirect tables: no command writes to files, and with 64 inodes no
  directory gets beyond the first.  `fs_data_write_free_block` and `file_tell`: no caller,
  and a read.  A seek before the first access to a file, after which the buffer is used
  before it is initialised.
* Colours, the hardware cursor, `vga_text_print_position`, the commands that only print.
* `printf`, `scanf` and the string helpers; the string comparisons are modelled where they
  are used.
* The walk through page tables, unmapping, the TLB.
* Interrupt tables and register saving, the boot loader (straight-line hardware set-up),
  the ELF reader and the editor (unused or stubs).

Sizes are unbounded integers except where a module says otherwise.
