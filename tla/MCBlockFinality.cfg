CONSTANTS
    MaxBlocks = 4
    MaxErrors = 2
    MaxCrashes = 2
    MaxRestarts = 2
SPECIFICATION Spec
INVARIANTS
    TypeOK
    OnlyTornIndexIsFatal
    RawBlocksMatchChain
    DocumentsCoverChain
PROPERTIES
    ImplementsChain
\* All the blocks, crashes and restarts the bounds allow may be used up.
CHECK_DEADLOCK FALSE
