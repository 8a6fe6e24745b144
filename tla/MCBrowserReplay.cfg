SPECIFICATION Spec
CONSTANTS
    Runs = {r1, r2, r3}
    BarCount = 5
    FirstVisible = 2
    Emitting <- MCEmitting
SYMMETRY Symmetric
INVARIANTS
    EvidenceIsPrefix
PROPERTIES
    RunsOnlyAdvance
    LostStepIsFinal
