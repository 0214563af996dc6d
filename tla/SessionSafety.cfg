SPECIFICATION Spec
CONSTANTS
  MAX_ID = 4
  MAX_RETAINED = 2
  MAX_PENDING_CONTROL = 2
  MAX_PENDING_RELEASE = 1
  ACK_LEN = 2
  PING_LEN = 1
  Msgs = {m}
  m = m
  MAX_INBOUND_QOS2 = 1
  BUF_LEN = 8
  HEADER_SIZE = 1
  ENCODE_PAD = 1
  CONNECT_LEN = 3
  GENERATIONS = 1
  DOWNGRADE_QOS = TRUE
  CLIENT_ID_SET = FALSE
  Lens = {2}
  PUBLISH_QOS0 = TRUE
  RequestKinds = {"Subscribe", "PublishExactlyOnce"}
  ReceiveMaxima = {1}
  PacketLimits = {1}
  MaxQoSs = {1, 2}
  AssignedLens = {0, 2}
  KeepAlives = {FALSE}
  InTypes = {"Disconnect", "SubAck", "PubAck", "PubRec", "PubComp", "PubRel", "Publish2"}
  AckOks = {TRUE, FALSE}
  BrokerIds = {1}
INVARIANTS IdsUnique StreamFramed FlushAccounted IInv ReconnectFits
PROPERTIES NoOvertaking ReplayMarksDup
