\* three pages of four units; requests of a header and one unit up to more than a page
CONSTANTS
    PageUnits = 4
    Frames = 3
    Requests = {2, 3, 5}
SPECIFICATION FairSpec
INVARIANTS TypeOK ListInOrder NoOverlap Coalesced NothingLost
PROPERTIES CallsReturn ImplementsRegionHeap
CHECK_DEADLOCK FALSE
