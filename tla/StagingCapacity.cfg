SPECIFICATION TSpec
CONSTANTS
    None = None
    CAPACITY = 5
    MAX_CHUNK_SIZE = 4
    WRITE_SIZE = 2
    U32_MAX = 7
    RX_SIZE = 1
    RxBytes <- MCRxBytes
    Manifests <- MCManifests
    Chunks = {}
    EARLY_STEP = FALSE
    Hosts = {"start"}
    Object <- MCObject
    CHUNK_SIZE = 3
    DUPLICATES = 0
    LOSSES = 0
    RERUNS = 0
    FAULTS = 0
INVARIANT FailsOnlyForCause
