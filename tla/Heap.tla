-------------------------------- MODULE Heap --------------------------------
(***************************************************************************)
(* The kernel heap, src/os/mm/heap.c: one list of free blocks per order,   *)
(* an order byte in front of every live block, and the fresh frames that   *)
(* heap_alloc_block maps under a block each time it hands it out.          *)
(*                                                                         *)
(* Addresses are bytes.  A free block's link and a live block's order byte *)
(* are the first word of the block, so they lie in whatever frame its      *)
(* first page is mapped to: `word' is the first word of every frame, and   *)
(* blocks whose pages share a frame share it.  The heap's virtual range is *)
(* part of the linear map of physical memory (vmm_init), so before its     *)
(* first allocation page HEAP_START + i is backed by frame PHYSMAP_FRAME + *)
(* i.  Translations are taken from the page table; a stale entry of the    *)
(* TLB (vmm_map_page does not flush it) is not modelled.                   *)
(***************************************************************************)
EXTENDS FrameScan, SequencesExt

CONSTANTS
    HEAP_START,
    HEAP_MAX_ORDER,
    HEADER,           \* sizeof(heap_header_t)
    PHYSMAP_FRAME,    \* the frame that backs page HEAP_START after vmm_init
    Tables,           \* the frames vmm_init took for page tables
    AFTER_LIST,       \* the word that follows heap_free_list in memory
    Requests          \* sizes callers ask for

VARIABLES
    heap_free_list,   \* order -> address of the first free block, or NULL
    word,             \* frame -> the word at its start
    pte,              \* page -> frame it is mapped to
    memory_map,       \* pmm_memory_map
    used_blocks,      \* pmm_used_blocks
    kernel,           \* "runs", or how it stopped
    live              \* history: block handed out -> its order and the request

hvars == <<heap_free_list, word, pte, memory_map, used_blocks, kernel, live>>

ASSUME HeapAssumption ==
    /\ HEAP_MAX_ORDER \in Nat
    /\ HEAP_START \in Nat \ {0} /\ HEAP_START % BLOCK_SIZE = 0
    /\ HEADER \in 1 .. (BLOCK_SIZE - 1)
    /\ AFTER_LIST \in Nat /\ Requests \subseteq Nat
    /\ Tables \subseteq Ram \ Kernel

-----------------------------------------------------------------------------
(* 1ULL << order, by one bit at a time.                                    *)
shifted[order \in Nat] == IF order = 0 THEN 1 ELSE 2 * shifted[order - 1]

heap_order_to_size(order) == shifted[order] * BLOCK_SIZE

(* The machine is large enough for the heap: the frames that back the      *)
(* untouched heap exist (32 to 48 MiB), and the page tables came from the  *)
(* frames that are counted.  Rounding the entries of the memory map down   *)
(* loses fewer frames than a word of the bitmap has bits, and the heap has *)
(* at least as many pages as that.                                         *)
ASSUME WindowAssumption ==
    /\ MaxBlocks \in Nat /\ RESERVED <= MaxBlocks
    /\ PHYSMAP_FRAME \in Nat /\ PHYSMAP_FRAME + shifted[HEAP_MAX_ORDER] <= MaxBlocks
    /\ Tables \subseteq 0 .. (MaxBlocks - 1)
    /\ UsedAfterInit - RESERVED < BITS_PER_WORD
    /\ BITS_PER_WORD <= shifted[HEAP_MAX_ORDER]

Orders == 0 .. HEAP_MAX_ORDER
HEAP_PAGES == shifted[HEAP_MAX_ORDER]
HEAP_END == HEAP_START + heap_order_to_size(HEAP_MAX_ORDER)
Starts == {HEAP_START + i * BLOCK_SIZE : i \in 0 .. (HEAP_PAGES - 1)}
Page(address) == address \div BLOCK_SIZE
PagesOf(b, order) == Page(b) .. (Page(b + heap_order_to_size(order)) - 1)

(* Mutant: the header is not counted, and the comparison is not strict.    *)
MutSizeToOrder(size) ==
    Min({o \in 0 .. HEAP_MAX_ORDER + 1 :
            o > HEAP_MAX_ORDER \/ size <= heap_order_to_size(o)})

(* The first order whose block is larger than the request and its header;  *)
(* HEAP_MAX_ORDER + 1 when there is none.                                  *)
heap_size_to_order(size) ==
    Min({o \in 0 .. HEAP_MAX_ORDER + 1 :
            o > HEAP_MAX_ORDER \/ size + HEADER < heap_order_to_size(o)})

-----------------------------------------------------------------------------
(* Memory.  Blocks start on pages, so the low byte of a link is 0; the low *)
(* byte alone is a live block's order, the rest of its word the caller's.  *)
(* What nobody can tell, a caller's data or memory never written, is       *)
(* UNKNOWN.                                                                *)
UNKNOWN == -1
Junk == [rest |-> UNKNOWN, order |-> UNKNOWN]
AsWord(link) == IF link = UNKNOWN THEN Junk ELSE [rest |-> link, order |-> 0]

(* The heap as its functions pass it on: heads, words, and whether the     *)
(* kernel still runs.                                                      *)
Heap == [head |-> heap_free_list, word |-> word, kernel |-> kernel]

Link(h, b) ==                \* block->next
    LET w == h.word[pte[Page(b)]] IN IF w.order = 0 THEN w.rest ELSE UNKNOWN

(* What current_block is after n rounds of a loop over a list: it stays at *)
(* NULL, and a pointer made of unknown bytes cannot be followed.           *)
Met(h, order) ==
    LET met[n \in Nat] ==
            IF n = 0 THEN h.head[order]
            ELSE IF met[n - 1] \in Starts THEN Link(h, met[n - 1]) ELSE met[n - 1]
    IN  met

(* How such a loop, looking for b, comes out, and after how many rounds.   *)
(* One that has met more blocks than there are meets them for ever.        *)
Rounds(h, order, b) == {n \in 0 .. HEAP_PAGES : Met(h, order)[n] \in {b, NULL, UNKNOWN}}

Search(h, order, b) ==
    IF Rounds(h, order, b) = {} THEN "loops"
    ELSE LET last == Met(h, order)[Min(Rounds(h, order, b))]
         IN  IF last = UNKNOWN THEN "lost" ELSE IF last = NULL THEN "absent" ELSE "found"

(* A block outside the heap would be written over somebody else's memory.  *)
heap_add_block(h, order, b) ==
    IF order > HEAP_MAX_ORDER THEN h
    ELSE IF b \notin Starts THEN [h EXCEPT !.kernel = "lost"]
    ELSE [h EXCEPT !.head[order] = b, !.word[pte[Page(b)]] = AsWord(h.head[order])]

MutDelBlock(h, order, b) == h            \* mutant: the block is not unlinked

(* list_index is a uint8_t: 0 again after 256 rounds.                      *)
heap_del_block(h, order, b) ==
    IF order > HEAP_MAX_ORDER THEN h
    ELSE LET end == Search(h, order, b)
             n == Min(Rounds(h, order, b))
         IN  CASE end = "absent" -> h
               [] end = "found" /\ n % 256 = 0 -> [h EXCEPT !.head[order] = Link(h, b)]
               [] end = "found" /\ n % 256 # 0 ->
                      [h EXCEPT !.word[pte[Page(Met(h, order)[n - 1])]] = AsWord(Link(h, b))]
               [] OTHER -> [h EXCEPT !.kernel = end]

(* The lower half stays the block to split on; the upper half ends up at   *)
(* the head of its list.                                                   *)
heap_split_block(h, from, to, b) ==
    LET cut[o \in to .. from] ==
            IF o = from THEN h
            ELSE heap_add_block(
                    heap_add_block(heap_del_block(cut[o + 1], o + 1, b), o, b),
                    o, b + heap_order_to_size(o))
    IN  cut[to]

(* Mutant: the bit of a frame taken is set only after the loop.            *)
MutTakeFrames(n) ==
    LET f == AllocFrame(memory_map, used_blocks, FALSE)
        x == IF f = {} THEN NULL ELSE CHOOSE g \in f : TRUE
    IN  [map |-> memory_map \cup f, used |-> used_blocks + n, got |-> [i \in 1 .. n |-> x]]

(* n calls of pmm_alloc_block, one after the other; got is what they       *)
(* returned, NULL included, which vmm_map_page takes for frame 0.          *)
TakeFrames(n) ==
    LET take[i \in 0 .. n] ==
            IF i = 0 THEN [map |-> memory_map, used |-> used_blocks, got |-> <<>>]
            ELSE LET s == take[i - 1]
                     f == AllocFrame(s.map, s.used, FALSE)
                 IN  [map  |-> s.map \cup f,
                      used |-> s.used + Cardinality(f),
                      got  |-> Append(s.got, IF f = {} THEN NULL ELSE CHOOSE g \in f : TRUE)]
    IN  take[n]

Buddy(address, size) ==      \* address ^ size, for a power of two
    IF (address \div size) % 2 = 0 THEN address + size ELSE address - size

(* The loop of heap_free, given a pointer: an order at which the buddy of  *)
(* the pointer is on the list moves the pair up one order, the first order *)
(* at which it is not ends the loop.                                       *)
Join(h, order, ptr) ==
    LET at[o \in order .. HEAP_MAX_ORDER + 1] ==
            IF o = order THEN [heap |-> h, merged |-> TRUE]
            ELSE LET s == at[o - 1]
                     size == heap_order_to_size(o - 1)
                     end == Search(s.heap, o - 1, Buddy(ptr, size))
                 IN  IF s.merged /\ end = "found"
                     THEN [heap |-> heap_add_block(
                                heap_del_block(
                                    heap_del_block(s.heap, o - 1, ptr), o - 1, ptr + size),
                                o, ptr),
                           merged |-> TRUE]
                     ELSE IF s.merged /\ end # "absent"
                     THEN [heap |-> [s.heap EXCEPT !.kernel = end], merged |-> FALSE]
                     ELSE [s EXCEPT !.merged = FALSE]
    IN  at[HEAP_MAX_ORDER + 1].heap

(* Mutant of heap_merge: the loop is given the start of the block.         *)
MutMerge(h, order, b) == Join(h, order, b)

(* The loop is given the caller's pointer, which is past the header.       *)
heap_merge(h, order, b) == Join(h, order, b + HEADER)

-----------------------------------------------------------------------------
(* heap_init on the state that pmm_init and vmm_init leave: one block of   *)
(* the top order, as HEAP_SIZE is its size and HEAP_START aligned to it.   *)
Init ==
    /\ heap_free_list = [o \in Orders |-> IF o = HEAP_MAX_ORDER THEN HEAP_START ELSE NULL]
    /\ word = [f \in 0 .. (MaxBlocks - 1) |-> IF f = PHYSMAP_FRAME THEN AsWord(NULL) ELSE Junk]
    /\ pte = [p \in PagesOf(HEAP_START, HEAP_MAX_ORDER) |->
                    PHYSMAP_FRAME + (p - Page(HEAP_START))]
    /\ memory_map = (MemsetBits \ Ram) \cup Kernel \cup Tables
    /\ used_blocks = UsedAfterInit + Cardinality(Tables)
    /\ kernel = "runs"
    /\ live = [b \in {} |-> 0]

(* The kernel stops for good in the middle of a call.                      *)
Stop(how) ==
    /\ kernel' = how
    /\ UNCHANGED <<heap_free_list, word, pte, memory_map, used_blocks, live>>

(* Mutant: the header is written before the pages are mapped.              *)
MutAllocBlock(h, order, size) ==
    LET b == h.head[order]
        s == heap_del_block(h, order, b)
        pages == PagesOf(b, order)
        taken == TakeFrames(Cardinality(pages))
    IN  IF s.kernel = "runs" /\ pages \subseteq DOMAIN pte
        THEN /\ heap_free_list' = s.head
             /\ word' = [s.word EXCEPT ![pte[Page(b)]].order = order]
             /\ pte' = [p \in DOMAIN pte |->
                           IF p \in pages THEN taken.got[p - Page(b) + 1] ELSE pte[p]]
             /\ memory_map' = taken.map
             /\ used_blocks' = taken.used
             /\ live' = [x \in DOMAIN live \cup {b} |->
                           IF x = b THEN [order |-> order, size |-> size] ELSE live[x]]
             /\ UNCHANGED kernel
        ELSE Stop(IF s.kernel = "runs" THEN "lost" ELSE s.kernel)

(* The head of the list, whatever pages it spans: each gets a fresh frame, *)
(* and the order byte goes into the frame that is now under the first.     *)
heap_alloc_block(h, order, size) ==
    LET b == h.head[order]
        s == heap_del_block(h, order, b)
        pages == PagesOf(b, order)
        taken == TakeFrames(Cardinality(pages))
    IN  IF s.kernel = "runs" /\ pages \subseteq DOMAIN pte
        THEN /\ heap_free_list' = s.head
             /\ pte' = [p \in DOMAIN pte |->
                           IF p \in pages THEN taken.got[p - Page(b) + 1] ELSE pte[p]]
             /\ word' = [s.word EXCEPT ![pte'[Page(b)]].order = order]
             /\ memory_map' = taken.map
             /\ used_blocks' = taken.used
             /\ live' = [x \in DOMAIN live \cup {b} |->
                           IF x = b THEN [order |-> order, size |-> size] ELSE live[x]]
             /\ UNCHANGED kernel
        ELSE Stop(IF s.kernel = "runs" THEN "lost" ELSE s.kernel)

(* heap_alloc.  A request of no byte or of more than the heap returns NULL *)
(* and changes nothing.  So does one that no list serves if the word       *)
(* behind heap_free_list, which the code takes for one more list, is 0; in *)
(* the build of this tree it is the pointer boot_info, and the kernel ends *)
(* here: the first round of heap_split_block puts a link 16 MiB behind     *)
(* boot_info, where nothing is mapped (VMM_IDENTITYMAP_END), and without a *)
(* round heap_alloc_block maps fresh frames over the kernel's own pages.   *)
heap_alloc(size) ==
    LET order == heap_size_to_order(size)
        found == Min({o \in order .. HEAP_MAX_ORDER + 1 :
                         o > HEAP_MAX_ORDER \/ heap_free_list[o] # NULL})
    IN  /\ kernel = "runs"
        /\ size # 0 /\ size <= heap_order_to_size(HEAP_MAX_ORDER)
        /\ IF found > HEAP_MAX_ORDER
           THEN AFTER_LIST # NULL /\ Stop("past_list")
           ELSE heap_alloc_block(heap_split_block(Heap, found, order, heap_free_list[found]),
                                 order, size)

(* heap_free of a pointer heap_alloc returned: it goes by the order byte   *)
(* it finds, and an order past the last list changes nothing.              *)
heap_free(b) ==
    LET found == word[pte[Page(b)]].order
    IN  \E order \in IF found = UNKNOWN THEN 0 .. HEAP_MAX_ORDER + 1 ELSE {found} :
          LET h == heap_merge(heap_add_block(Heap, order, b), order, b)
          IN  /\ kernel = "runs"
              /\ heap_free_list' = h.head
              /\ word' = h.word
              /\ kernel' = h.kernel
              /\ live' = [x \in DOMAIN live \ {b} |-> live[x]]
              /\ UNCHANGED <<pte, memory_map, used_blocks>>

(* A caller writes what it asked for: on the first page of its block       *)
(* everything but the order byte, on the others whole words.               *)
Use(b, p) ==
    /\ kernel = "runs"
    /\ p \in DOMAIN pte /\ p \in Page(b) .. Page(b + HEADER + live[b].size - 1)
    /\ word' = [word EXCEPT ![pte[p]] =
                   IF p = Page(b) THEN [@ EXCEPT !.rest = UNKNOWN] ELSE Junk]
    /\ UNCHANGED <<heap_free_list, pte, memory_map, used_blocks, kernel, live>>

Next ==
    \/ \E size \in Requests : heap_alloc(size)
    \/ \E b \in DOMAIN live : heap_free(b)
    \/ \E b \in DOMAIN live : \E p \in DOMAIN pte : Use(b, p)

Spec == Init /\ [][Next]_hvars

-----------------------------------------------------------------------------
(* The blocks a loop over a list meets.                                    *)
Listed(order) == {Met(Heap, order)[n] : n \in 0 .. HEAP_PAGES} \cap Starts
FreeStarts == UNION {Listed(o) : o \in Orders}
LivePages == UNION {PagesOf(b, live[b].order) : b \in DOMAIN live}

(* The frames that back the untouched heap.  The physical manager does not *)
(* know they are in use; once it has handed one out, links and callers'    *)
(* data share memory, and nothing is claimed of the lists any more.        *)
Window == PHYSMAP_FRAME .. (PHYSMAP_FRAME + heap_order_to_size(HEAP_MAX_ORDER) \div BLOCK_SIZE - 1)
Untouched == Window \cap memory_map = {}

(* A block holds its header and every byte its caller asked for, so a full *)
(* buffer never runs into the header of the block behind it.               *)
RequestFits ==
    \A b \in DOMAIN live : live[b].size + HEADER <= heap_order_to_size(live[b].order)

(* Two pages of live blocks share no frame, unless the frames ran out:     *)
(* nobody looks at the NULL of pmm_alloc_block, and every page mapped after*)
(* that point is frame 0.                                                  *)
LivePagesDistinct ==
    \A p, q \in LivePages : p # q /\ pte[p] = pte[q] => pte[p] = NULL

(* The links of the free lists are stored in the free blocks.  As long as  *)
(* the heap's frames have not been given to somebody, no live page shares  *)
(* a frame with the link of a free block.                                  *)
LinksIntact ==
    Untouched => \A a \in FreeStarts : \A p \in LivePages : pte[Page(a)] # pte[p]

(* So far, every loop over a list comes to an end and follows only links   *)
(* that heap_add_block wrote, whatever callers write into their blocks:    *)
(* no list runs in a circle, and a block is never on a list twice.         *)
WalksEnd ==
    Untouched => /\ kernel \notin {"loops", "lost"}
                 /\ \A o \in Orders : Met(Heap, o)[HEAP_PAGES] = NULL

(* So far, heap_free finds the order under which the block was handed out, *)
(* though nothing but the byte in front of the caller's pointer says it.   *)
HeadersKept ==
    Untouched => \A b \in DOMAIN live : word[pte[Page(b)]].order = live[b].order

(* The blocks on the lists in memory and the blocks handed out are the set *)
(* of disjoint blocks of BuddyHeap.                                        *)
Abstract == INSTANCE BuddyHeap WITH
    MaxOrder <- HEAP_MAX_ORDER,
    HeapStart <- HEAP_START,
    Size <- [o \in Orders |-> heap_order_to_size(o)],
    free <- UNION {{<<a, o>> : a \in Listed(o)} : o \in Orders},
    live <- {<<b, live[b].order>> : b \in DOMAIN live}

BuddyStep == Untouched' => [Abstract!Next]_(Abstract!hvars)

(* The links, the order bytes and the merge loop together implement        *)
(* BuddyHeap, one step for one step, as long as the heap's frames have not *)
(* been given to somebody.                                                 *)
ImplementsBuddyHeap == Abstract!Init /\ [][BuddyStep]_hvars

(* What the callers of malloc rely on when they test for NULL ("error" in  *)
(* bin/editor/editor.c): a request that cannot be served comes back.       *)
MallocComesBack == kernel # "past_list"

=============================================================================
