----------------------------- MODULE PageAlloc -----------------------------
(***************************************************************************)
(* The physical page allocator (mm/page_alloc.c).  The bitmap is the set   *)
(* of the pages whose bit is 1.  mm is a record of the statics of mm/;     *)
(* this module uses its fields PageBitmap and FreePages, and module Heap   *)
(* adds those of the heap.  An operator that takes and returns such a      *)
(* record is a C function's effect.  Addresses are in bytes.               *)
(***************************************************************************)
EXTENDS Integers, FiniteSets, FiniteSetsExt, Sequences, SequencesExt

CONSTANTS
    PageSize,     \* PAGE_SIZE
    PageCount,    \* PAGE_COUNT: pages of the 32-bit address space
    WideMod,      \* size of a 64-bit address's type
    MemoryMap,    \* the well-formed entries of the boot loader's map
    LowMemory,    \* 0x100000: everything below is reserved
    KernelStart,  \* _kernel_start
    KernelEnd     \* _kernel_end

Pages == 0..(PageCount - 1)
Top == PageCount * PageSize

\* The pages an allocator may ever hand out: they lie wholly in an available
\* entry and touch neither low memory nor the kernel.
Usable ==
    {p \in Pages :
        /\ \E i \in DOMAIN MemoryMap :
              /\ MemoryMap[i].available
              /\ MemoryMap[i].base + MemoryMap[i].length < WideMod
              /\ MemoryMap[i].base <= p * PageSize
              /\ (p + 1) * PageSize <= MemoryMap[i].base + MemoryMap[i].length
        /\ p * PageSize >= LowMemory
        /\ (p + 1) * PageSize <= KernelStart \/ KernelEnd <= p * PageSize}

\* The last page of the address space holds the firmware's reset vector and is
\* never available: the end of a run does not wrap to 0.
ASSUME PageAssumption ==
    /\ PageSize \in Nat \ {0}
    /\ PageCount \in Nat \ {0}
    /\ WideMod > Top
    /\ LowMemory \in 1..Top
    /\ 0 <= KernelStart /\ KernelStart < KernelEnd /\ KernelEnd <= Top
    /\ PageCount - 1 \notin Usable

VARIABLES
    mm,   \* the statics of mm/
    held  \* the pages that callers other than the heap hold

\* PageSet, for each page of a set.
PageSet(m, pages, available) ==
    IF available
    THEN [m EXCEPT !.PageBitmap = @ \cup pages,
                   !.FreePages = @ + Cardinality(pages \ m.PageBitmap)]
    ELSE [m EXCEPT !.PageBitmap = @ \ pages,
                   !.FreePages = @ - Cardinality(pages \cap m.PageBitmap)]

RoundDown(a) == a \div PageSize
RoundUp(a) == (a + PageSize - 1) \div PageSize

\* Free ranges are rounded inward, reserved ones outward.
PageSetRange(m, base, length, available) ==
    LET end == (base + length) % WideMod
        last == Min({end, Top})
    IN  IF end < base \/ base >= Top THEN m
        ELSE PageSet(m, IF available THEN RoundUp(base)..(RoundDown(last) - 1)
                                     ELSE RoundDown(base)..(RoundUp(last) - 1),
                     available)

PageAllocInit(m) ==
    LET empty == [m EXCEPT !.PageBitmap = {}, !.FreePages = 0]
        AddEntry(n, e) ==
            IF e.available THEN PageSetRange(n, e.base, e.length, TRUE) ELSE n
        mapped == FoldLeft(AddEntry, empty, MemoryMap)
        low == PageSetRange(mapped, 0, LowMemory, FALSE)
    IN  IF MemoryMap = <<>> THEN empty
        ELSE PageSetRange(low, KernelStart, KernelEnd - KernelStart, FALSE)

-----------------------------------------------------------------------------

\* Length of the run of free pages at s that the inner loop counts, up to n.
Run(m, s, n) ==
    CHOOSE r \in 0..n :
        /\ \A i \in 0..(r - 1) : s + i \in m.PageBitmap
        /\ r = n \/ s + r \notin m.PageBitmap

\* Mutant: after a short run the search skips as many pages as it wants.
SearchSkipsCount(m, hint, n) ==
    LET from[s \in 0..(2 * PageCount)] ==
            IF s > PageCount - n THEN 0
            ELSE IF Run(m, s, n) = n THEN s
            ELSE from[s + n]
    IN  from[hint]

\* The loop over start, which goes on after the used page that ended a run.
\* Page 0 is reserved, so 0 is "no run", as in the code.
Search(m, hint, n) ==
    LET from[s \in 0..(2 * PageCount)] ==
            IF s > PageCount - n THEN 0
            ELSE IF Run(m, s, n) = n THEN s
            ELSE from[s + Run(m, s, n) + 1]
    IN  from[hint]

\* PageAllocPagesAt; with hint 0 also PageAllocPages.  addr is 0 on failure.
PageAllocPagesAt(m, hint, n) ==
    LET s == IF n = 0 \/ n > m.FreePages \/ n > PageCount THEN 0
             ELSE Search(m, hint \div PageSize, n)
    IN  [addr |-> s * PageSize,
         m |-> IF s = 0 THEN m ELSE PageSet(m, s..(s + n - 1), FALSE)]

\* The first set bit of the bitmap.
PageAlloc(m) ==
    IF m.PageBitmap = {} THEN [addr |-> 0, m |-> m]
    ELSE LET p == Min(m.PageBitmap)
         IN  [addr |-> p * PageSize, m |-> PageSet(m, {p}, FALSE)]

\* PageFreePages; with n = 1 also PageFree.
PageFreeIgnored(addr, n) ==
    \/ addr = 0 \/ addr % PageSize # 0 \/ n = 0
    \/ addr \div PageSize >= PageCount
    \/ n > PageCount - addr \div PageSize

PageRange(addr, n) == (addr \div PageSize)..(addr \div PageSize + n - 1)

PageFreePages(m, addr, n) ==
    IF PageFreeIgnored(addr, n) THEN m
    ELSE PageSet(m, PageRange(addr, n), TRUE)

-----------------------------------------------------------------------------

\* Calls of the allocator from outside the heap.  A caller frees pages it
\* holds, or passes an address that the code has to ignore.
CallPageAlloc ==
    LET got == PageAlloc(mm)
    IN  /\ got.addr # 0
        /\ mm' = got.m
        /\ held' = held \cup PageRange(got.addr, 1)

CallPageAllocPages(n) ==
    LET got == PageAllocPagesAt(mm, 0, n)
    IN  /\ got.addr # 0
        /\ mm' = got.m
        /\ held' = held \cup PageRange(got.addr, n)

CallPageFreePages(addr, n) ==
    /\ PageFreeIgnored(addr, n) \/ PageRange(addr, n) \subseteq held
    /\ mm' = PageFreePages(mm, addr, n)
    /\ held' = IF PageFreeIgnored(addr, n) THEN held ELSE held \ PageRange(addr, n)

-----------------------------------------------------------------------------

\* The search of PageAllocPages and PageAllocPagesAt, whose outer loop skips
\* ahead, finds the first run of n free pages at or after the hint, and fails
\* only if there is none.
FindsFirstFit ==
    \A hint \in Pages, n \in 1..PageCount :
        LET fits == {s \in hint..(PageCount - n) : s..(s + n - 1) \subseteq mm.PageBitmap}
        IN  Search(mm, hint, n) = IF fits = {} THEN 0 ELSE Min(fits)

=============================================================================
