CONSTANTS
    Keys <- MCKeys
    Pointers <- MCPointers
    Values <- MCValues
    Loads <- MCLoads
    Patches <- MCPatches
    Flats <- MCFlats
    Depth = 8
    Sent <- MCSent
    Converted <- MCConverted
    Bits = 4
    OutSize = 3
    InSize = 4
    ReadSize = 4
    Arenas = {"plain", "other", "stack"}
    Blocks = {"p", "q"}
    Sizes = {2, 5}
    Aligns = {1, 4}
    BlockSizes = {4, 8}
    Stacked = {"stack"}
    OnStack = 4
    MaxRegions = 3
    Nowhere = Nowhere
SPECIFICATION Spec
CHECK_DEADLOCK FALSE
INVARIANTS
    ViewFinds
    PatchIsRfc7386
    FlattenInverts
    RoundTrip
    ConvertsBack
    BytesInOrder
    RegionsDisjoint
