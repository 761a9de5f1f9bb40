SPECIFICATION Spec
CONSTANTS
    WordBits = 2
    BitmapSize = 2
    BlockSize = 2
    BlockCounts = {1, 2, 3}
    Places = 3
    MaxSlabs = {0, 2}
    Reserves = {0, 1, 3}
    MemFails = TRUE
INVARIANTS FindsLeastFree BooksAgree ReleasesExactlyHeld
PROPERTIES SlabsAreKept
