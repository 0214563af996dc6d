SPECIFICATION Spec
CONSTANTS
  MAX_ID = 3
  MAX_RETAINED = 1
  MAX_PENDING_CONTROL = 2
  MAX_PENDING_RELEASE = 1
  ACK_LEN = 2
  PING_LEN = 2
  Msgs = {m}
  m = m
  MAX_INBOUND_QOS2 = 1
  BUF_LEN = 10
  HEADER_SIZE = 1
  ENCODE_PAD = 1
  CONNECT_LEN = 3
  GENERATIONS = 2
  DOWNGRADE_QOS = FALSE
  CLIENT_ID_SET = TRUE
  Lens = {2}
  PUBLISH_QOS0 = FALSE
  RequestKinds = {"PublishExactlyOnce"}
  ReceiveMaxima = {1}
  PacketLimits = {}
  MaxQoSs = {2}
  AssignedLens = {0}
  KeepAlives = {FALSE}
  InTypes = {"PubRec", "PubComp"}
  AckOks = {TRUE}
  BrokerIds = {}
PROPERTY HandshakeCompletes
