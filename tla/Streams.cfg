SPECIFICATION Spec
CONSTANTS
    None = None
    Other = Other
    Model = Model
    DefaultMaxTokens = 4096
    Bodies <- ClientBodies
    LineEnds <- Patterns
    Finishes <- LastChoices
    UsageChunks <- LastChunks
    StartUsages <- FirstCounts
    Deltas <- LastCounts
    MaxEvents = 7
    MaxPending = 1
    MaxNoise = 1
CHECK_DEADLOCK FALSE
INVARIANTS  EventsAsWhole PassedOn WellFormed StreamAsBody
