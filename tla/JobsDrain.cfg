SPECIFICATION FairSpec
CONSTANTS
    j1 = j1
    j2 = j2
    Job = {j1, j2}
    Handler = {h1}
    Worker = w
    None = none
    CreatedAt <- OneByOne
    MaxFaults = 1
PROPERTY QueueDrains
