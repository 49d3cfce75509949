SPECIFICATION Spec
CONSTANTS
    Jobs <- MCJobs
    Costs = {0, 1, 2, 4}
    Fanout = {0, 1, 2}
    MaxNodes = 6
    RectJobs <- MCRectJobs
    RectCosts = {0, 1, 2}
    MaxDeepen = 4
    GrowJobs <- MCGrowJobs
    Distances = {0, 1, 2, 3}
    MaxGates = 4
    ShannonJobs <- MCShannonJobs
INVARIANTS SearchSound RectangleSound GrowthSound DecomposedSound
PROPERTY RectEnds
