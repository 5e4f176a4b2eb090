CONSTANTS
    TotalUsers = 2
    Selections <- MCSelections
    Selection <- MCSelection
    MaxEdits = 1
    OutboxAttempts = 1
    MaxAttempts = 2
    MaxDuplicates = 1
    MaxDisruptions = 1
SPECIFICATION FairSpec
INVARIANTS
    AudienceExact
    SeedingRestores
    CausesFirst
PROPERTIES
    ServiceSpec
    EventuallyServed
\* A pipeline whose rows are settled may rest.
CHECK_DEADLOCK FALSE
