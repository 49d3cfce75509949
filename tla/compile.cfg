SPECIFICATION Spec
CONSTANTS
    MaxGates = 2
    MaxSingles = 1
    Calls <- MCCalls
    BlockJobs <- MCBlockJobs
INVARIANTS CompiledSound BlocksSound
PROPERTY CompileEnds
