SPECIFICATION FairSpec
CONSTANTS
    r1 = r1
    h1 = h1
    h2 = h2
    None = None
    Readings <- OneReading
    Handlers <- TwoHandlers
    Attempts = 3
    MaxStalls = 1
    Faults = {"api", "chain", "mongo", "crash", "stall"}
CHECK_DEADLOCK FALSE
INVARIANT AnchoredIsOnChain
INVARIANT CompletedIsRecorded
INVARIANT SubmissionsBounded
PROPERTY AnchorKept
PROPERTY JobsEnd
