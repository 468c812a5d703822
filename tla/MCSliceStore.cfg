SPECIFICATION Spec
CONSTANTS
    alice = alice
    bob = bob
    None = None
    NoD = NoD
    NotSet = NotSet
    Capacity = 5
    MaxLimit = 3
    MaxRaces = 3
    Events <- MCEvents
    CreatedAt <- MCCreatedAt
    Kind <- MCKind
    Author <- MCAuthor
    D <- MCD
    Filters <- MCFilters
INVARIANTS
    NewestWins
    ReadsAreSound
PROPERTIES
    ImplementsEventStore
CHECK_DEADLOCK FALSE
