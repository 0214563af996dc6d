SPECIFICATION Spec
CONSTANTS
    None = None
    Invalid = Invalid
    BASE = 2
    MAX_BYTES = 2
    CAPACITY = 5
    STREAM = 7
INVARIANTS TypeOK FramesStream NoPacketHeldBack
PROPERTY RefusesOnlyMalformed
