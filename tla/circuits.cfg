SPECIFICATION Spec
CONSTANTS
    x = x
    y = y
    b = b
    None = None
    Gates <- MCGates
    MaxDepth = 2
    Offered <- MCOffered
    Subcircuits <- MCSubcircuits
    MaxOps = 3
    MaxCalls = 2
    MaxWidth = 3
    Careful = TRUE
    Barriers <- MCBarriers
    Pieces <- MCPieces
    Passes = {"quick", "scan", "single", "cluster", "greedy"}
    BlockSizes = {2, 3, 5}
    Width = 4
    MaxSource = 4
    ProcessAfter = 1
    Rounds = 2
INVARIANTS StructureAgrees PositionsHold PartitionsRight
PROPERTY KeepsWires
CHECK_DEADLOCK FALSE
