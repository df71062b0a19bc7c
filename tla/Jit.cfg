SPECIFICATION Spec
CONSTANTS
    LineWords = 2
    LinesPerPage = 2
    Lines = 4
    Slots = 2
    Ways = 2
    Brefs = 1
    ArenaBlocks = 3
    Budget = 4
    Contents <- MCContents
    Patches <- MCPatches
    Programs <- MCPrograms
    Msrs <- MCMsrs
    Vector = 0
    MaxWrites = 1
INVARIANTS
    NoStaleCode
    LinksAreSeverable
    CountersExact
PROPERTIES
    HopIsDispatch
