SPECIFICATION Spec
CONSTANTS
    PageSize = 12
    PageCount = 10
    WideMod = 1000
    MemoryMap <- SmallMap
    LowMemory = 12
    KernelStart = 20
    KernelEnd = 30
    HeapAlign = 2
    MetaSize = 4
    HeapGrowPages = 1
    HeapSegmentCap = 3
    Requests = {1, 25}
    PageRequests = {}
INVARIANT PagesAreAccounted
