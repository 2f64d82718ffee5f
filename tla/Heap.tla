-------------------------------- MODULE Heap --------------------------------
(***************************************************************************)
(* The kernel heap (mm/heap.c) on top of the page allocator.  Both are     *)
(* used by one thread of control, kernel_main before it starts the         *)
(* scheduler, so a call is one step.                                       *)
(*                                                                         *)
(* mm.Meta maps the address of every block to its BlockMeta.  Memory at    *)
(* any other address is no header: the code clears the magic of a block    *)
(* it absorbs.  mm.FreeList is the linked list as a sequence, and          *)
(* mm.HeapSegments the segments, newest first.                             *)
(***************************************************************************)
EXTENDS PageAlloc, Functions

CONSTANTS
    HeapAlign,       \* HEAP_ALIGN
    MetaSize,        \* sizeof(BlockMeta)
    HeapGrowPages,   \* HEAP_GROW_PAGES, which is HEAP_KEEP_PAGES too
    HeapSegmentCap,  \* HEAP_SEGMENT_CAP
    Requests,        \* arguments of kmalloc
    PageRequests     \* pages other callers ask the page allocator for

ASSUME HeapAssumption ==
    /\ HeapAlign \in Nat \ {0}
    /\ MetaSize \in Nat \ {0} /\ MetaSize % HeapAlign = 0
    /\ PageSize % HeapAlign = 0
    /\ HeapGrowPages \in Nat \ {0}
    /\ HeapSegmentCap \in Nat \ {0}
    /\ Requests \subseteq 0..(Top - 1)
    /\ PageRequests \subseteq Nat

VARIABLES
    live,  \* live[b]: the size the caller of kmalloc asked for when it got block b
    stale  \* blocks that were freed and whose memory was not handed out since

vars == <<mm, held, live, stale>>

KeepSize == HeapGrowPages * PageSize

AlignUp(x) == ((x + HeapAlign - 1) \div HeapAlign) * HeapAlign

Header(size, prevSize, isFree) ==
    [Magic |-> TRUE, Size |-> size, PrevSize |-> prevSize, IsFree |-> isFree]

HeaderAt(m, b) ==
    IF b \in DOMAIN m.Meta THEN m.Meta[b]
    ELSE [Magic |-> FALSE, Size |-> 0, PrevSize |-> 0, IsFree |-> FALSE]

WriteHeader(m, b, header) ==
    [m EXCEPT !.Meta = [a \in DOMAIN @ \cup {b} |-> IF a = b THEN header ELSE @[a]]]

\* A block that was absorbed: all fields of its header become 0.
ClearHeader(m, b) == [m EXCEPT !.Meta = Restrict(@, DOMAIN @ \ {b})]

HeapGrowthHint(m) == Max({0} \cup {m.HeapSegments[i].End : i \in DOMAIN m.HeapSegments})

Owners(m, b) ==
    {s \in ToSet(m.HeapSegments) : s.Base <= b /\ b < s.End}

\* HeapFindSegment and the test of an address against the segment's end.
BeforeSegmentEnd(m, b, addr) == \E s \in Owners(m, b) : addr < s.End

-----------------------------------------------------------------------------

\* Mutant: a block always goes to the front of the list.
InsertAtHead(m, b) == [m EXCEPT !.FreeList = <<b>> \o @]

HeapListInsert(m, b) ==
    LET before == {i \in DOMAIN m.FreeList : \A j \in 1..i : m.FreeList[j] < b}
    IN  [m EXCEPT !.FreeList = InsertAt(@, Cardinality(before) + 1, b)]

HeapListRemove(m, b) == [m EXCEPT !.FreeList = Remove(@, b)]

\* Positions of the free list where HeapFindFree would stop.
Fits(m, size) == {i \in DOMAIN m.FreeList : m.Meta[m.FreeList[i]].Size >= size}

\* The new segment's only block is left on the free list; b is 0 on failure.
Extend(m, pages) ==
    LET got == PageAllocPagesAt(m, HeapGrowthHint(m), pages)
        block == WriteHeader(got.m, got.addr, Header(pages * PageSize, 0, TRUE))
        segment == [Base |-> got.addr, End |-> got.addr + pages * PageSize]
    IN  IF got.addr = 0 THEN [b |-> 0, m |-> m]
        ELSE [b |-> got.addr,
              m |-> HeapListInsert([block EXCEPT !.HeapSegments = <<segment>> \o @], got.addr)]

\* Mutant: the segment table is not tested.
GrowUncapped(m, pages) == Extend(m, pages)

\* Mutant: the pages are taken before the segment table is tested.
GrowLeaks(m, pages) ==
    IF Len(m.HeapSegments) >= HeapSegmentCap
    THEN [b |-> 0, m |-> PageAllocPagesAt(m, HeapGrowthHint(m), pages).m]
    ELSE Extend(m, pages)

HeapGrow(m, pages) ==
    IF Len(m.HeapSegments) >= HeapSegmentCap THEN [b |-> 0, m |-> m]
    ELSE Extend(m, pages)

\* Stamp the size of b into the block after it, if its segment has one.
Restamp(m, b) ==
    LET next == b + m.Meta[b].Size
    IN  IF BeforeSegmentEnd(m, b, next)
        THEN [m EXCEPT !.Meta[next].PrevSize = m.Meta[b].Size]
        ELSE m

HeapSplit(m, b, size) ==
    LET leftOver == m.Meta[b].Size - size
        rest == b + size
        cut == WriteHeader(m, rest, Header(leftOver, size, TRUE))
    IN  IF leftOver < HeapAlign + MetaSize THEN m
        ELSE HeapListInsert([Restamp(cut, rest) EXCEPT !.Meta[b].Size = size], rest)

HeapInit ==
    LET zero == [PageBitmap |-> {}, FreePages |-> 0, Meta |-> <<>>,
                 FreeList |-> <<>>, HeapSegments |-> <<>>]
    IN  HeapGrow(PageAllocInit(zero), HeapGrowPages).m

\* What kmalloc does once it has a block, which is off the free list.
Carve(m, b, total) ==
    LET cut == IF m.Meta[b].Size > total THEN HeapSplit(m, b, total) ELSE m
    IN  Restamp([cut EXCEPT !.Meta[b].IsFree = FALSE], b)

\* Mutant: the header and the rounding may wrap a size around.
NeverTooLarge(size) == FALSE

\* 32-bit arithmetic: a request the guard lets through does not wrap when it is
\* rounded up to HEAP_ALIGN, and may wrap, to 0 pages, when rounded to pages.
TooLarge(size) == size > Top - 1 - MetaSize - HeapAlign

TotalSize(size) == AlignUp(size + MetaSize) % Top

kmalloc(size) ==
    LET total == TotalSize(size)
        fits == Fits(mm, total)
        pages == ((total + PageSize - 1) % Top) \div PageSize
        got == IF fits # {} THEN [b |-> mm.FreeList[Min(fits)], m |-> mm]
               ELSE HeapGrow(mm, pages)
    IN  /\ size # 0
        /\ ~TooLarge(size)
        /\ IF got.b = 0 THEN mm' = got.m /\ UNCHANGED <<live, stale>>
           ELSE LET m == Carve(HeapListRemove(got.m, got.b), got.b, total)
                IN  /\ mm' = m
                    /\ live' = [b \in DOMAIN live \cup {got.b} |->
                                   IF b = got.b THEN size ELSE live[b]]
                    /\ stale' = stale \ (got.b..(got.b + m.Meta[got.b].Size - 1))
        /\ UNCHANGED held

-----------------------------------------------------------------------------

\* Mutant: an absorbed block keeps its header.
MergeLeftKeepsHeader(m, b) ==
    LET left == b - m.Meta[b].PrevSize
        header == HeaderAt(m, left)
    IN  IF m.Meta[b].PrevSize # 0 /\ header.Magic /\ header.IsFree
        THEN [b |-> left, m |-> [m EXCEPT !.Meta[left].Size = @ + m.Meta[b].Size]]
        ELSE [b |-> b, m |-> m]

\* The block that b is part of once a free block on its left has absorbed it.
MergeLeft(m, b) ==
    LET left == b - m.Meta[b].PrevSize
        header == HeaderAt(m, left)
    IN  IF m.Meta[b].PrevSize # 0 /\ header.Magic /\ header.IsFree
        THEN [b |-> left,
              m |-> ClearHeader([m EXCEPT !.Meta[left].Size = @ + m.Meta[b].Size], b)]
        ELSE [b |-> b, m |-> m]

MergeNext(m, b) ==
    LET next == b + m.Meta[b].Size
    IN  IF BeforeSegmentEnd(m, b, next) /\ HeaderAt(m, next).IsFree
        THEN ClearHeader([HeapListRemove(m, next) EXCEPT
                              !.Meta[b].Size = @ + m.Meta[next].Size], next)
        ELSE m

\* The end of kfree: what a large block has past KeepSize becomes a block of its
\* own, on the free list, and its whole pages go to the page allocator.  The
\* block beyond gets KeepSize as its PrevSize.
GiveBack(m, b) ==
    LET give == m.Meta[b].Size - KeepSize
        split == b + KeepSize
        beyond == split + give
        cut == HeapListInsert(
                   WriteHeader([m EXCEPT !.Meta[b].Size = KeepSize], split,
                               Header(give, KeepSize, TRUE)), split)
        stamped == IF BeforeSegmentEnd(m, b, beyond)
                   THEN [cut EXCEPT !.Meta[beyond].PrevSize = KeepSize] ELSE cut
    IN  IF \/ Owners(m, b) # {} /\ ~BeforeSegmentEnd(m, b, beyond)
           \/ give < PageSize
        THEN m
        ELSE PageFreePages(stamped, split, give \div PageSize)

\* The free of a block whose header says it is in use.
Release(m, b) ==
    LET left == MergeLeft(m, b)
        merged == Restamp(MergeNext(left.m, left.b), left.b)
        free == [merged EXCEPT !.Meta[left.b].IsFree = TRUE]
    IN  GiveBack(IF left.b = b THEN HeapListInsert(free, b) ELSE free, left.b)

\* A block is freed by its caller, or a second time before its memory has been
\* handed out again.
kfree(b) ==
    /\ b \in DOMAIN live \cup stale
    /\ mm' = IF ~HeaderAt(mm, b).Magic \/ HeaderAt(mm, b).IsFree THEN mm
             ELSE Release(mm, b)
    /\ live' = Restrict(live, DOMAIN live \ {b})
    /\ stale' = stale \cup {b}
    /\ UNCHANGED held

-----------------------------------------------------------------------------

Init ==
    /\ mm = HeapInit
    /\ held = {}
    /\ live = <<>>
    /\ stale = {}

HeapCall ==
    \/ \E size \in Requests : kmalloc(size)
    \/ \E b \in DOMAIN live \cup stale : kfree(b)

PageCall ==
    /\ \/ CallPageAlloc
       \/ \E n \in PageRequests : CallPageAllocPages(n)
       \/ \E p \in 0..PageCount, offset \in {0, 1}, n \in PageRequests :
              CallPageFreePages(p * PageSize + offset, n)
    /\ UNCHANGED <<live, stale>>

Next == HeapCall \/ PageCall

Spec == Init /\ [][Next]_vars

-----------------------------------------------------------------------------

Blocks == DOMAIN mm.Meta
FreeBlocks == {b \in Blocks : mm.Meta[b].IsFree}
BlockEnd(b) == b + mm.Meta[b].Size
SegmentPages == UNION {PageRange(s.Base, (s.End - s.Base) \div PageSize) :
                          s \in ToSet(mm.HeapSegments)}

\* The fields of the statics; the segment table is not overrun by HeapGrow.
TypeOK ==
    /\ mm.PageBitmap \subseteq Pages
    /\ mm.FreePages \in 0..PageCount
    /\ Blocks \subseteq 0..(Top - 1)
    /\ \A b \in Blocks :
          mm.Meta[b] \in [Magic : {TRUE}, Size : 1..Top, PrevSize : 0..Top, IsFree : BOOLEAN]
    /\ mm.FreeList \in Seq(Blocks)
    /\ mm.HeapSegments \in Seq([Base : 0..Top, End : 0..Top])
    /\ Len(mm.HeapSegments) <= HeapSegmentCap
    /\ held \subseteq Pages
    /\ DOMAIN live \subseteq Blocks
    /\ \A b \in DOMAIN live : live[b] \in Requests
    /\ stale \subseteq 0..(Top - 1)

\* Splitting and merging keep every segment tiled by its blocks, each of which
\* knows the size of the one before it, so a later merge finds the right
\* neighbour; a block freed twice disturbs nothing.
SegmentsAreTiled ==
    /\ \A s \in ToSet(mm.HeapSegments) : s.Base \in Blocks /\ mm.Meta[s.Base].PrevSize = 0
    /\ \A b \in Blocks :
          /\ \A c \in Blocks : b < c => BlockEnd(b) <= c
          /\ \E s \in Owners(mm, b) :
                \/ BlockEnd(b) = s.End
                \/ /\ BlockEnd(b) < s.End
                   /\ BlockEnd(b) \in Blocks
                   /\ mm.Meta[BlockEnd(b)].PrevSize = mm.Meta[b].Size

\* The free list has every free block once, by address, and kfree leaves no two
\* free neighbours in a segment unmerged.
FreeListIsExact ==
    /\ ToSet(mm.FreeList) = FreeBlocks
    /\ \A i, j \in DOMAIN mm.FreeList : i < j => mm.FreeList[i] < mm.FreeList[j]
    /\ \A b \in FreeBlocks :
          BeforeSegmentEnd(mm, b, BlockEnd(b)) => BlockEnd(b) \notin FreeBlocks

\* What kmalloc returned stays the caller's until kfree: the block is in use,
\* and has room for what was asked for and for its header.
AllocationsHold ==
    \A b \in DOMAIN live :
        /\ b \in Blocks \ FreeBlocks
        /\ mm.Meta[b].Size >= MetaSize + live[b]

\* Every usable page is free, the heap's or another caller's, and only one of
\* these; no other page is any; and the count of free pages is right.
PagesAreAccounted ==
    /\ mm.PageBitmap \cap SegmentPages = {}
    /\ mm.PageBitmap \cap held = {}
    /\ held \cap SegmentPages = {}
    /\ mm.PageBitmap \cup held \cup SegmentPages = Usable
    /\ mm.FreePages = Cardinality(mm.PageBitmap)

=============================================================================
