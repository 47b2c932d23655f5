SPECIFICATION FairScanSpec
CONSTANTS
    Target = "T"
    ASNs = {"T", "X", "Y"}
    Chunks <- MCChunks
    NumChunks = 4
    Baseline = 1
    Snapshots <- MCSnapshots
    Leaky <- MCLeaky
    Addresses = {a1, a2}
    InFlight = 2
    Workers = 2
    MaxSample = 2
    MaxLeaks = 1
INVARIANTS
    ScanTypeOK
    SampleInOrder
    VictimsSurviveTrimming
    AccusedOnlyOfForeign
    ParentIsMostSpecific
    SharingIsInvisible
PROPERTY
    ScanEnds
