SPECIFICATION Spec
CONSTANTS
    j1 = j1
    j2 = j2
    Job = {j1}
    Handler = {h1, h2, h3}
    Worker = w
    None = none
    CreatedAt <- SameSecond
    MaxFaults = 1
SYMMETRY Symmetry
INVARIANTS SuccessIsDelivered FinishedHasNoCache RunningIsOwned
PROPERTIES EndedStaysEnded ImplementsLifecycle
