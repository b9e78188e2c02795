SPECIFICATION FairSpec
CONSTANTS
    Cards = {"d:1", "d:2"}
    Catalog <- TwoDatabases
    MaxVersion = 2
    Attempts = 3
    Wait <- Pauses
    LoadTime = 1
    RefreshEvery = 10
    Remaining <- WorstCase
    MaxHealthy = 6
INVARIANTS
    NeverOlder
    RetryHelps
PROPERTIES
    Fresh
