SPECIFICATION Spec
CONSTANTS
    MaxQudits = 4
    RemoteWeight = 4
    Queries = {"matching", "qpus", "span", "distances", "tree", "locations", "without", "subgraph", "shapes", "compatible"}
    Machines <- MCMachines
    BlockSizes = {2, 3, 4}
    EmbedJobs <- MCEmbedJobs
    Scores = {0, 1, 2}
    MapJobs <- MCMapJobs
    Patience = 1
    ResetInterval = 3
INVARIANTS ShapesSound EmbedSound MappedSound
PROPERTY MappingEnds
