CONSTANTS
    BASE = 128
    MAX_BYTES = 4
    None = None
    Invalid = Invalid
    U16_MAX <- MCU16
    Publications <- MCPublications
    PropertyLists <- MCPropertyLists
    Correlations <- MCCorrelations
    Replies <- MCReplies
    PacketIds = {258}
    Rooms = {12, 24, 400}
    Subscribes <- MCSubscribes
    Unsubscribes <- MCUnsubscribes
    ClientIds <- MCClientIds
    Auths <- MCAuths
    Wills <- MCWills
    Controls <- MCControls
    Disconnects <- MCDisconnects
    Frames <- MCFrames
    RX_LEN = 512
    MAX_INBOUND = 3
    CLIENT_ID_CAPACITY = 64
    TOPIC_CAPACITY = 128
    TARGET_TOPIC = 1
    TARGET_CORRELATION = 2
SPECIFICATION Spec
INVARIANTS PacketIsOneFrame RoundTrip BrokerUnderstands ReplyCorrelated AcceptsExactly IterationLossless
