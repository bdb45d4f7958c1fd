\* sectors of two words; requests of half a sector up to two and a half
CONSTANTS
    W = 2
    Machines <- AllMachines
    Disks <- SomeDisks
    Sectors = {0, 255, 300}
    Lengths = {1, 2, 4, 5}
    MaxReads = 2
    Garbage = Garbage
    Failures = 1
SPECIFICATION LoadingSpec
INVARIANTS LoadingTypeOK ImageInPlace DataInOrder FindsTheDirectory
PROPERTIES ReadReturns
CHECK_DEADLOCK FALSE
