SPECIFICATION TFairSpec
CONSTANTS
    None = None
    CAPACITY = 6
    MAX_CHUNK_SIZE = 4
    WRITE_SIZE = 2
    U32_MAX = 7
    RX_SIZE = 1
    RxBytes <- MCRxBytes
    Manifests <- MCManifests
    Chunks <- MCChunks
    EARLY_STEP = TRUE
    Hosts = {"start", "chaotic"}
    Object <- MCObject
    CHUNK_SIZE = 3
    DUPLICATES = 1
    LOSSES = 1
    RERUNS = 1
    FAULTS = 1
INVARIANTS TTypeOK RequestMatchesWork WritesSequential ProgressStored
INVARIANTS DoneMeansStored NoChunkAhead FailsOnlyForCause
PROPERTIES TerminalIsFinal TransferEnds
