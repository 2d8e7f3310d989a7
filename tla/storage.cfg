CONSTANTS
    MaxBlocks = 4
    BlockWrites = 5
    MaxCounter = 4
    CutBy = {1}
    CutNodesMax = 3
    Faults = {"commit", "truncate"}
    Handles = {h1, h2}
    Iters = {d1}
    Names = {a, b}
    Nums = {0, 1, 2}
    MaxWrites = 3
    Modes = {"io"}
    NONE = NONE
SPECIFICATION PartSpec
INVARIANTS
    FileRecoverable
    ObjectsSafe
PROPERTIES
    ImplementsAtomicFile
    ImplementsObjectStore
CHECK_DEADLOCK FALSE
