CONSTANTS
    BASE = 128
    MAX_BYTES = 4
    None = None
    Invalid = Invalid
    U16_MAX <- MCU16
    Publications <- MCPublications
    PropertyLists <- MCPropertyLists
    Correlations <- MCCorrelations
    Replies <- MCReplies
    PacketIds = {1, 65535}
    Rooms = {12, 24, 400}
    Subscribes = {}
    Unsubscribes = {}
    ClientIds <- MCClientIds
    Auths <- MCAuths
    Wills <- MCWills
    Controls <- MCControls
    Disconnects <- MCDisconnectsWithProperties
    Frames = {}
    RX_LEN = 512
    MAX_INBOUND = 3
    CLIENT_ID_CAPACITY = 64
    TOPIC_CAPACITY = 128
    TARGET_TOPIC = 1
    TARGET_CORRELATION = 2
SPECIFICATION Spec
INVARIANT DisconnectCarriesProperties
