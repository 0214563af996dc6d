SPECIFICATION DSpec
CONSTANTS
  MAX_ID = 5
  MAX_RETAINED = 2
  MAX_PENDING_CONTROL = 2
  MAX_PENDING_RELEASE = 2
  ACK_LEN = 1
  PING_LEN = 1
  Msgs <- MCMsgs
  MAX_INBOUND_QOS2 = 2
  BUF_LEN = 10
  HEADER_SIZE = 1
  ENCODE_PAD = 1
  CONNECT_LEN = 3
  GENERATIONS = 2
  DOWNGRADE_QOS = FALSE
  CLIENT_ID_SET = TRUE
  Lens = {1}
  PUBLISH_QOS0 = FALSE
  RequestKinds = {"Subscribe", "PublishAtLeastOnce", "PublishExactlyOnce"}
  ReceiveMaxima = {2}
  PacketLimits = {}
  MaxQoSs = {2}
  AssignedLens = {0}
  KeepAlives = {FALSE}
  InTypes = {"SubAck", "UnsubAck", "PubAck", "PubRec", "PubComp", "PubRel", "Publish1", "Publish2"}
  AckOks = {TRUE, FALSE}
  BrokerIds = {1, 2}
  BrokerMsgs <- MCBrokerMsgs
  Traffics <- MCTraffics
  m1 = m1
  m2 = m2
  b1 = b1
  b2 = b2
  None = None
INVARIANTS DTypeOK FirstComeFirstServed QuotaConserved
PROPERTIES OutwardDelivery InwardDelivery
SYMMETRY Names
