SPECIFICATION FairSpec
CONSTANTS
    d1 = d1
    d2 = d2
    c1 = c1
    c2 = c2
    Decks = {d1, d2}
    Cards = {c1, c2}
    DeckCards <- TwoDecks
    Requests = {r1, r2}
    Capacity = 2
    Pacing = 2
    RewarmAfter = 3
    DropRetryAfter = 2
    JobTime = 3
    MaxStall = 1
INVARIANTS
    OneEnqueuer
PROPERTIES
    AtMostTwoPerPeriod
    ClaimsSpaced
    QueuedIsResolved
    TriggerReturns
    StopEndsWorker
