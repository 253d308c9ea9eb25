SPECIFICATION FairSpec
CONSTANTS
    c1 = c1  im1 = im1  s1 = s1  s2 = s2  none = none
    Calls = {c1}
    Images = {im1}
    Sigs = {s1, s2}
    None = none
    Bodies <- TwoOrThree
    ChunkSizes = {3, 5}
    Capacity = 1
INVARIANTS TypeOK ClientGetsAll StopReasonTrue SignatureBoundOnce LogTellsAll SavesOutliveClient
PROPERTIES WellFormed StreamEnds
CHECK_DEADLOCK FALSE
