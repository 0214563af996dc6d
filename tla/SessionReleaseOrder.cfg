SPECIFICATION Spec
CONSTANTS
  MAX_ID = 7
  MAX_RETAINED = 3
  MAX_PENDING_CONTROL = 2
  MAX_PENDING_RELEASE = 3
  ACK_LEN = 1
  PING_LEN = 2
  Msgs = {m}
  m = m
  MAX_INBOUND_QOS2 = 1
  BUF_LEN = 12
  HEADER_SIZE = 1
  ENCODE_PAD = 1
  CONNECT_LEN = 3
  GENERATIONS = 1
  DOWNGRADE_QOS = FALSE
  CLIENT_ID_SET = TRUE
  Lens = {1}
  PUBLISH_QOS0 = FALSE
  RequestKinds = {"PublishExactlyOnce"}
  ReceiveMaxima = {3}
  PacketLimits = {}
  MaxQoSs = {2}
  AssignedLens = {0}
  KeepAlives = {FALSE}
  InTypes = {"PubRec", "PubComp"}
  AckOks = {TRUE}
  BrokerIds = {}
PROPERTY ReleasesKeepOrder
