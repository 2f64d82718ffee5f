SPECIFICATION Spec
CONSTANTS
    PageSize = 12
    PageCount = 10
    WideMod = 1000
    MemoryMap <- SmallMap
    LowMemory = 12
    KernelStart = 20
    KernelEnd = 30
    HeapAlign = 2
    MetaSize = 4
    HeapGrowPages = 2
    HeapSegmentCap = 2
    Requests = {0, 1, 5, 13, 113, 119}
    PageRequests = {1, 2}
INVARIANT TypeOK
INVARIANT SegmentsAreTiled
INVARIANT FreeListIsExact
INVARIANT AllocationsHold
INVARIANT PagesAreAccounted
INVARIANT FindsFirstFit
