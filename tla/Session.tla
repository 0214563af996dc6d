------------------------------- MODULE Session -------------------------------
(***************************************************************************)
(* One minimq session and the connection that drives it                    *)
(* (mqtt_client/session/*.rs).                                             *)
(*                                                                         *)
(* Every network call of the client is an async function that its caller   *)
(* may drop at any await, and the next call starts from whatever state the *)
(* dropped one left.  An action is therefore the code between two awaits:  *)
(* one transport write, the start and the end of a flush, the arrival of   *)
(* one inbound packet with all of its handling, one admission of an        *)
(* application request, one half of the CONNECT handshake.  Which call     *)
(* (drive, poll, recv, publish, subscribe, ...) runs the segment does not  *)
(* matter to the state, so no call has a program counter.                  *)
(*                                                                         *)
(* The broker is unconstrained: any packet may arrive at any time.         *)
(***************************************************************************)
EXTENDS Outbound

CONSTANTS
  MAX_INBOUND_QOS2,  \* slots of pending_server_packet_ids
  BUF_LEN,           \* bytes of the TX buffer
  HEADER_SIZE,       \* MAX_FIXED_HEADER_SIZE
  ENCODE_PAD,        \* fixed-header bytes the encoder reserves and gives back
  CONNECT_LEN,       \* encoder workspace of CONNECT without an assigned id
  GENERATIONS,       \* session generations wrap at this number (2^32)
  DOWNGRADE_QOS,     \* ConfigBuilder::downgrade_qos
  CLIENT_ID_SET,     \* the configuration names a client id
  Lens,              \* encoded sizes of the application's requests
  PUBLISH_QOS0,      \* the application also publishes at QoS 0
  RequestKinds,      \* which OpKinds the application uses
  ReceiveMaxima,     \* Receive Maximum values of a CONNACK
  PacketLimits,      \* Maximum Packet Size values of a CONNACK
  MaxQoSs,           \* Maximum QoS values of a CONNACK
  AssignedLens,      \* lengths of client ids a CONNACK assigns, 0 for none
  KeepAlives,        \* whether keepalive is on after a CONNACK
  InTypes,           \* types of inbound packets
  AckOks,            \* whether acknowledgements carry success
  BrokerIds          \* packet ids the broker chooses for its own PUBLISHes

NO_LIMIT == BUF_LEN + ACK_LEN + PING_LEN
LOCAL_QUOTA == IF MAX_RETAINED <= MAX_PENDING_RELEASE
               THEN MAX_RETAINED ELSE MAX_PENDING_RELEASE

AckTypes == {"SubAck", "UnsubAck", "PubAck", "PubRec", "PubComp"}
BrokerIdTypes == {"PubRel", "Publish1", "Publish2"}
AllInTypes == AckTypes \cup BrokerIdTypes
                \cup {"PingResp", "Publish0", "Disconnect", "Invalid"}

ASSUME SessionAssumption ==
  /\ MAX_INBOUND_QOS2 \in Nat /\ BUF_LEN \in Nat /\ HEADER_SIZE \in Nat
  /\ ENCODE_PAD \in Nat /\ CONNECT_LEN \in Nat /\ GENERATIONS \in Nat \ {0}
  /\ DOWNGRADE_QOS \in BOOLEAN /\ CLIENT_ID_SET \in BOOLEAN
  /\ Lens \subseteq Nat \ {0} /\ PUBLISH_QOS0 \in BOOLEAN
  /\ RequestKinds \subseteq OpKinds
  /\ ReceiveMaxima \subseteq Nat \ {0} /\ PacketLimits \subseteq Nat
  /\ MaxQoSs \subseteq 0 .. 2 /\ AssignedLens \subseteq Nat
  /\ KeepAlives \subseteq BOOLEAN
  /\ InTypes \subseteq AllInTypes /\ AckOks \subseteq BOOLEAN
  /\ BrokerIds \subseteq PacketIds

(* An inbound packet; a field a type does not carry has a fixed value. *)
InPackets ==
  [type : InTypes \cap AckTypes, id : PacketIds, ok : AckOks]
    \cup [type : InTypes \cap BrokerIdTypes, id : BrokerIds, ok : {TRUE}]
    \cup [type : InTypes \ (AckTypes \cup BrokerIdTypes), id : {0}, ok : {TRUE}]

VARIABLES
  (* SessionData *)
  control, release, retained,  \* the queues of Outbound
  connectWorkspace,            \* TX bytes kept free for the next CONNECT
  packetId,                    \* next id to try
  generation,
  sessionPresent,              \* a CONNACK has been accepted in this session
  serverIds,                   \* pending_server_packet_ids
  clientIdLen,                 \* length of the client id the broker assigned
  (* RuntimeState *)
  sendQuota, maxSendQuota, maxPacketSize, maxQos,
  keepalive,                   \* keepalive_interval # 0
  nextPing,                    \* none, armed or due
  pingTimeout,                 \* none, armed or expired
  (* Connection *)
  conn,                        \* none, handshake, live or dead
  flushState,
  (* The byte stream, as the peer sees it *)
  open                         \* the packet that is partly on the wire

queueVars == <<control, release, retained>>
idVars == <<packetId, generation, sessionPresent, serverIds>>
connectVars == <<connectWorkspace, clientIdLen>>
limitVars == <<maxSendQuota, maxPacketSize, maxQos, keepalive>>
timerVars == <<nextPing, pingTimeout>>
linkVars == <<conn, flushState, open>>
vars == <<queueVars, idVars, connectVars, sendQuota, limitVars, timerVars, linkVars>>

out == [control |-> control, release |-> release, retained |-> retained]

NoPacket == [queue |-> "none", index |-> 0, id |-> 0, written |-> 0]

Init ==
  /\ control = <<>> /\ release = <<>> /\ retained = <<>>
  /\ connectWorkspace = 0 /\ clientIdLen = 0
  /\ packetId = 1 /\ generation = 0 /\ sessionPresent = FALSE
  /\ serverIds = {}
  /\ sendQuota = MAX_ID /\ maxSendQuota = MAX_ID  \* both u16::MAX
  /\ maxPacketSize = NO_LIMIT /\ maxQos = 2
  /\ keepalive \in KeepAlives
  /\ nextPing = "none" /\ pingTimeout = "none"
  /\ conn = "none" /\ flushState = "Clean" /\ open = NoPacket

-----------------------------------------------------------------------------
(* Helpers *)

(* Mutant: the CONNECT workspace is not set aside. *)
RetainedCapacityAll == BUF_LEN

RetainedCapacity == BUF_LEN - connectWorkspace

Fits(len) == len <= maxPacketSize

FreeIds == {id \in PacketIds : ~HasId(retained, id) /\ ~HasId(release, id)}

(* Mutant: the id wraps to 0. *)
NextIdZero(id) == (id + 1) % (MAX_ID + 1)

NextId(id) == IF id = MAX_ID THEN 1 ELSE id + 1

(* Mutant: ids in use are not skipped. *)
AllocatedIdUnchecked == packetId

(* next_packet_id: the first free id at or after packetId, going round. *)
AllocatedId ==
  LET distance(id) == IF id >= packetId THEN id - packetId
                                        ELSE id + MAX_ID - packetId
  IN  CHOOSE id \in FreeIds : \A f \in FreeIds : distance(id) <= distance(f)

TakeId == packetId' = NextId(AllocatedId)

(* Mutant: no PINGREQ while a request is unacknowledged.                   *)
ShouldQueuePingIdle ==
  /\ pingTimeout = "none" /\ nextPing = "due" /\ retained = <<>>

(* Mutant: a PINGREQ that waits for its PINGRESP does not count.           *)
ShouldQueuePingAgain ==
  /\ nextPing = "due"
  /\ ~ \E i \in DOMAIN control : control[i].action = "PingReq"
                                   /\ control[i].state # Sent

(* should_queue_pingreq *)
ShouldQueuePing ==
  /\ pingTimeout = "none" /\ nextPing = "due"
  /\ ~ \E i \in DOMAIN control : control[i].action = "PingReq"
                                   /\ control[i].state # Sent

(* What drive_packet requires before it waits for input. *)
Quiet == NoStep(out) /\ flushState = "Clean"

(* flush_outbound returns: also no PINGREQ is due. *)
Drained == Quiet /\ ~ShouldQueuePing

NoteOutboundActivity == nextPing' = IF keepalive THEN "armed" ELSE "none"

(* Mutant: acknowledgements are not armed again. *)
ArmReplayRequests ==
  /\ UNCHANGED control
  /\ release' = Rearm(release)
  /\ retained' = Rearm(MarkPublishDup(retained))

ArmReplay ==
  /\ control' = Rearm(control)
  /\ release' = Rearm(release)
  /\ retained' = Rearm(MarkPublishDup(retained))

ResetTransport == nextPing' = "none" /\ pingTimeout' = "none"

(* handle_disconnect of the session, then of the connection. *)
SessionDisconnect == ArmReplay /\ ResetTransport
HandleDisconnect == SessionDisconnect /\ conn' = "dead"

-----------------------------------------------------------------------------
(* Session::connect *)

ConnectLen == CONNECT_LEN + clientIdLen

ConnectFits == RetainedBytes(retained) + ConnectLen <= BUF_LEN

(* connect drops what is left of the previous connection: no DISCONNECT is *)
(* sent, and nothing else is done when a Connection is dropped.            *)
CanConnect == conn \in {"none", "live", "dead"}

(* CONNECT does not fit, cannot be written, or the call is dropped. *)
ConnectAborts ==
  /\ CanConnect
  /\ ArmReplay /\ ResetTransport
  /\ conn' = "none" /\ flushState' = "Clean" /\ open' = NoPacket
  /\ UNCHANGED <<idVars, connectVars, sendQuota, limitVars>>

(* CONNECT is on the wire and its encoder workspace is reserved for good. *)
ConnectSent ==
  /\ CanConnect /\ ConnectFits
  /\ ArmReplay /\ ResetTransport
  /\ connectWorkspace' = ConnectLen
  /\ conn' = "handshake" /\ flushState' = "Clean" /\ open' = NoPacket
  /\ UNCHANGED <<idVars, clientIdLen, sendQuota, limitVars>>

(* No CONNACK, another packet, or a CONNACK that refuses: the session is   *)
(* left as it is.                                                          *)
ConnectRefused ==
  /\ conn = "handshake"
  /\ SessionDisconnect
  /\ conn' = "none"
  /\ UNCHANGED <<idVars, connectVars, sendQuota, limitVars, flushState, open>>

(* SessionData::reset, when the CONNACK says that no session is present. *)
ResetData(resumed) ==
  IF resumed
  THEN UNCHANGED <<queueVars, packetId, generation, serverIds>>
  ELSE /\ control' = <<>> /\ release' = <<>> /\ retained' = <<>>
       /\ packetId' = 1 /\ generation' = (generation + 1) % GENERATIONS
       /\ serverIds' = {}

(* A property of the CONNACK is invalid: the session may have been reset. *)
ConnAckInvalid(resumed) ==
  /\ conn = "handshake"
  /\ ResetData(resumed)
  /\ sessionPresent' = (resumed /\ sessionPresent)
  /\ ResetTransport
  /\ conn' = "none"
  /\ UNCHANGED <<connectVars, sendQuota, limitVars, flushState, open>>

CommitLimits(receiveMax, limit, qos, keep) ==
  LET quota == IF receiveMax <= LOCAL_QUOTA THEN receiveMax ELSE LOCAL_QUOTA
  IN  /\ sendQuota' = quota /\ maxSendQuota' = quota
      /\ maxPacketSize' = limit /\ maxQos' = qos /\ keepalive' = keep

(* An accepted CONNACK.  An assigned client id needs room in the next      *)
(* CONNECT: without it connect fails after the new limits are in place.    *)
ConnAck(resumed, receiveMax, limit, qos, keep, assigned) ==
  LET workspace == connectWorkspace + assigned
      used == IF resumed THEN RetainedBytes(retained) ELSE 0
      accepted == assigned = 0 \/ used + workspace <= BUF_LEN
  IN  /\ conn = "handshake"
      /\ assigned # 0 => ~CLIENT_ID_SET /\ clientIdLen = 0
      /\ ResetData(resumed)
      /\ CommitLimits(receiveMax, limit, qos, keep)
      /\ sessionPresent' = (accepted \/ (resumed /\ sessionPresent))
      /\ connectWorkspace' = IF accepted THEN workspace ELSE connectWorkspace
      /\ clientIdLen' = IF accepted THEN clientIdLen + assigned ELSE clientIdLen
      /\ nextPing' = IF accepted /\ keep THEN "armed" ELSE "none"
      /\ pingTimeout' = "none"
      /\ conn' = IF accepted THEN "live" ELSE "none"
      /\ UNCHANGED <<flushState, open>>

-----------------------------------------------------------------------------
(* service_outbound_once: one transport write, or one half of a flush *)

(* perform_outbound_step: the transport takes n more bytes of entry i of   *)
(* queue q.                                                                *)
WriteStep(q, i, n) ==
  LET entry == out[q][i]
      len == PacketLen(q, entry)
      written == entry.state.written + n
  IN  /\ conn = "live" /\ flushState # "Flushing"
      /\ NextStep(out, q, i)
      /\ Fits(len)
      /\ n \in 1 .. len - entry.state.written
      /\ flushState' = "Dirty"
      /\ control' = IF q = "control"
                    THEN [control EXCEPT ![i] = SetWritten(entry, written, len)]
                    ELSE control
      /\ release' = IF q = "release"
                    THEN SetIdWritten(release, entry.id, written, len) ELSE release
      /\ retained' = IF q = "retained"
                     THEN SetIdWritten(retained, entry.id, written, len) ELSE retained
      /\ pingTimeout' = IF q = "control" /\ entry.action = "PingReq" /\ written = len
                        THEN "armed" ELSE pingTimeout
      /\ open' = IF written = len THEN NoPacket
                 ELSE [queue |-> q, index |-> i, id |-> entry.id, written |-> written]
      /\ UNCHANGED <<idVars, connectVars, sendQuota, limitVars, nextPing, conn>>

FlushBegin ==
  /\ conn = "live" /\ flushState = "Dirty" /\ NoStep(out)
  /\ flushState' = "Flushing"
  /\ UNCHANGED <<queueVars, idVars, connectVars, sendQuota, limitVars, timerVars,
                 conn, open>>

FlushComplete ==
  /\ conn = "live" /\ flushState = "Flushing"
  /\ control' = DropFlushed(control)
  /\ release' = MarkSent(release)
  /\ retained' = MarkSent(retained)
  /\ NoteOutboundActivity
  /\ flushState' = "Clean"
  /\ UNCHANGED <<idVars, connectVars, sendQuota, limitVars, pingTimeout, conn, open>>

QueueControl(action, id, ok) ==
  control' = IF Len(control) < MAX_PENDING_CONTROL
             THEN Append(control, NewControl(action, id, ok)) ELSE control

(* maybe_queue_pingreq *)
QueuePing ==
  /\ conn = "live" /\ Quiet /\ ShouldQueuePing
  /\ Fits(PING_LEN)
  /\ QueueControl("PingReq", 0, TRUE)
  /\ UNCHANGED <<release, retained, idVars, connectVars, sendQuota, limitVars,
                 timerVars, linkVars>>

-----------------------------------------------------------------------------
(* handle_packet.  A packet is read only while the session is Quiet, and   *)
(* it is handled before anything else is awaited.                          *)

(* Mutant: an acknowledgement restores the whole quota. *)
RaiseQuotaFull == sendQuota' = maxSendQuota

RaiseQuota ==
  sendQuota' = IF sendQuota < maxSendQuota THEN sendQuota + 1 ELSE maxSendQuota

AckedKind(type) ==
  CASE type = "SubAck"   -> "Subscribe"
    [] type = "UnsubAck" -> "Unsubscribe"
    [] type = "PubAck"   -> "PublishAtLeastOnce"
    [] type = "PubRec"   -> "PublishExactlyOnce"

(* SUBACK, UNSUBACK, PUBACK: the request is forgotten whatever the reason  *)
(* code; a failure is only reported to the caller.  Stale ones are ignored.*)
HandleAck(p) ==
  /\ p.type \in {"SubAck", "UnsubAck", "PubAck"}
  /\ \/ \E i \in DOMAIN retained :
           /\ FirstMatch(retained, i, AckedKind(p.type), p.id)
           /\ retained' = RemoveAt(retained, i)
           /\ IF p.type = "PubAck" THEN RaiseQuota ELSE UNCHANGED sendQuota
     \/ /\ ~ \E i \in DOMAIN retained :
                FirstMatch(retained, i, AckedKind(p.type), p.id)
        /\ UNCHANGED <<retained, sendQuota>>
  /\ UNCHANGED <<control, release, idVars, connectVars, limitVars, timerVars, linkVars>>

(* PUBREC for a retained QoS 2 PUBLISH: the packet and its quota are       *)
(* released first; then the PUBREL is queued, unless the reason is a       *)
(* failure, PUBREL is above the broker's size limit (which also ends the   *)
(* connection) or the PUBREL queue is full.                                *)
HandlePubRec(p) ==
  /\ p.type = "PubRec"
  /\ \/ \E i \in DOMAIN retained :
           /\ FirstMatch(retained, i, AckedKind(p.type), p.id)
           /\ RaiseQuota
           /\ \/ /\ ~p.ok \/ (Fits(ACK_LEN) /\ Len(release) = MAX_PENDING_RELEASE)
                 /\ retained' = RemoveAt(retained, i)
                 /\ UNCHANGED <<control, release, timerVars, conn>>
              \/ /\ p.ok /\ Fits(ACK_LEN) /\ Len(release) < MAX_PENDING_RELEASE
                 /\ retained' = RemoveAt(retained, i)
                 /\ release' = Append(release, NewRelease(p.id))
                 /\ UNCHANGED <<control, timerVars, conn>>
              \/ /\ p.ok /\ ~Fits(ACK_LEN)
                 /\ retained' = Rearm(MarkPublishDup(RemoveAt(retained, i)))
                 /\ control' = Rearm(control) /\ release' = Rearm(release)
                 /\ ResetTransport /\ conn' = "dead"
     \/ /\ ~ \E i \in DOMAIN retained :
                FirstMatch(retained, i, AckedKind(p.type), p.id)
        /\ UNCHANGED <<queueVars, sendQuota, timerVars, conn>>
  /\ UNCHANGED <<idVars, connectVars, limitVars, flushState, open>>

HandlePubComp(p) ==
  /\ p.type = "PubComp"
  /\ \/ \E i \in DOMAIN release :
           FirstWithId(release, i, p.id) /\ release' = SwapRemove(release, i)
     \/ ~HasId(release, p.id) /\ UNCHANGED release
  /\ UNCHANGED <<control, retained, idVars, connectVars, sendQuota, limitVars,
                 timerVars, linkVars>>

HandlePingResp(p) ==
  /\ p.type = "PingResp"
  /\ pingTimeout' = "none"
  /\ UNCHANGED <<queueVars, idVars, connectVars, sendQuota, limitVars, nextPing,
                 linkVars>>

(* An acknowledgement above the broker's size limit ends the connection,   *)
(* after pending_server_packet_ids has changed.                            *)
Acknowledge(action, id, ok) ==
  IF Fits(ACK_LEN)
  THEN /\ QueueControl(action, id, ok)
       /\ UNCHANGED <<release, retained, timerVars, conn>>
  ELSE HandleDisconnect

HandlePubRel(p) ==
  /\ p.type = "PubRel"
  /\ serverIds' = serverIds \ {p.id}
  /\ Acknowledge("PubComp", p.id, p.id \in serverIds)
  /\ UNCHANGED <<packetId, generation, sessionPresent, connectVars, sendQuota,
                 limitVars, flushState, open>>

HasServerSlot == Cardinality(serverIds) < MAX_INBOUND_QOS2

HandlePublish(p) ==
  /\ \/ /\ p.type = "Publish0"
        /\ UNCHANGED <<queueVars, serverIds, timerVars, conn>>
     \/ /\ p.type = "Publish1"
        /\ Acknowledge("PubAck", p.id, p.id \notin serverIds)
        /\ UNCHANGED serverIds
     \/ /\ p.type = "Publish2"
        /\ serverIds' = IF HasServerSlot THEN serverIds \cup {p.id} ELSE serverIds
        /\ Acknowledge("PubRec", p.id, p.id \in serverIds \/ HasServerSlot)
  /\ UNCHANGED <<packetId, generation, sessionPresent, connectVars, sendQuota,
                 limitVars, flushState, open>>

(* A broker DISCONNECT, a packet that does not decode, a second CONNACK. *)
HandleFatal(p) ==
  /\ p.type \in {"Disconnect", "Invalid"}
  /\ HandleDisconnect
  /\ UNCHANGED <<idVars, connectVars, sendQuota, limitVars, flushState, open>>

Receive(p) ==
  /\ conn = "live" /\ Quiet
  /\ \/ HandleAck(p) \/ HandlePubRec(p) \/ HandlePubComp(p) \/ HandlePingResp(p)
     \/ HandlePubRel(p) \/ HandlePublish(p) \/ HandleFatal(p)

-----------------------------------------------------------------------------
(* Application requests *)

KindOf(qos) == IF qos = 2 THEN "PublishExactlyOnce" ELSE "PublishAtLeastOnce"

CanPublish ==
  /\ sendQuota # 0
  /\ Len(retained) < MAX_RETAINED
  /\ RetainedBytes(retained) + HEADER_SIZE <= RetainedCapacity

Retain(kind, len, msg) ==
  retained' = Append(retained, NewRetained(kind, AllocatedId, len, msg))

(* publish at QoS 1 or 2: admission, which happens before any transport    *)
(* I/O.  A request that is not admitted still uses up a packet id.         *)
Publish(qos, len, msg) ==
  LET effective == IF qos > maxQos THEN maxQos ELSE qos
      admitted == /\ CanPublish
                  /\ RetainedBytes(retained) + ENCODE_PAD + len <= RetainedCapacity
                  /\ Fits(len)
  IN  /\ conn = "live"
      /\ qos <= maxQos \/ DOWNGRADE_QOS
      /\ effective # 0
      /\ TakeId
      /\ IF admitted
         THEN Retain(KindOf(effective), len, msg) /\ sendQuota' = sendQuota - 1
         ELSE UNCHANGED <<retained, sendQuota>>
      /\ UNCHANGED <<control, release, generation, sessionPresent, serverIds,
                     connectVars, limitVars, timerVars, linkVars>>

(* publish at QoS 0: written and flushed directly, after everything else. *)
PublishQos0(len) ==
  /\ conn = "live" /\ Drained
  /\ RetainedBytes(retained) + ENCODE_PAD + len <= BUF_LEN
  /\ Fits(len)
  /\ NoteOutboundActivity
  /\ UNCHANGED <<queueVars, idVars, connectVars, sendQuota, limitVars, pingTimeout,
                 linkVars>>

(* subscribe and unsubscribe: admission, after flush_outbound. *)
Request(kind, len, msg) ==
  /\ conn = "live" /\ Drained
  /\ Len(retained) < MAX_RETAINED
  /\ TakeId
  /\ IF /\ RetainedBytes(retained) + ENCODE_PAD + len <= BUF_LEN
        /\ RetainedBytes(retained) + len <= RetainedCapacity
        /\ Fits(len)
     THEN Retain(kind, len, msg)
     ELSE UNCHANGED retained
  /\ UNCHANGED <<control, release, generation, sessionPresent, serverIds, connectVars,
                 sendQuota, limitVars, timerVars, linkVars>>

(* disconnect_with: DISCONNECT follows everything else; the connection is  *)
(* over whether or not it could be written.                                *)
Disconnect ==
  /\ conn = "live" /\ Drained /\ Fits(PING_LEN)
  /\ HandleDisconnect
  /\ UNCHANGED <<idVars, connectVars, sendQuota, limitVars, flushState, open>>

-----------------------------------------------------------------------------
(* Failures and time *)

(* A read, write or flush fails, a write takes no byte, the stream ends,   *)
(* or the application calls handle_disconnect.                             *)
TransportFailure ==
  /\ conn = "live"
  /\ HandleDisconnect
  /\ UNCHANGED <<idVars, connectVars, sendQuota, limitVars, flushState, open>>

(* service: no PINGRESP came in time. *)
PingTimeout ==
  /\ conn = "live" /\ pingTimeout = "expired"
  /\ HandleDisconnect
  /\ UNCHANGED <<idVars, connectVars, sendQuota, limitVars, flushState, open>>

PingDue ==
  /\ conn = "live" /\ nextPing = "armed" /\ nextPing' = "due"
  /\ UNCHANGED <<queueVars, idVars, connectVars, sendQuota, limitVars, pingTimeout,
                 linkVars>>

PingExpires ==
  /\ conn = "live" /\ pingTimeout = "armed" /\ pingTimeout' = "expired"
  /\ UNCHANGED <<queueVars, idVars, connectVars, sendQuota, limitVars, nextPing,
                 linkVars>>

-----------------------------------------------------------------------------
ReceiveConnAck ==
  \E resumed \in BOOLEAN :
    \/ ConnAckInvalid(resumed)
    \/ \E receiveMax \in ReceiveMaxima, limit \in PacketLimits \cup {NO_LIMIT},
          qos \in MaxQoSs, keep \in KeepAlives, assigned \in AssignedLens :
         ConnAck(resumed, receiveMax, limit, qos, keep, assigned)

SomeWriteStep ==
  \E q \in Queues : \E i \in DOMAIN out[q] :
    \E n \in 1 .. PacketLen(q, out[q][i]) : WriteStep(q, i, n)

SomeReceive == \E p \in InPackets : Receive(p)

SomeRequest ==
  \E len \in Lens, msg \in Msgs :
    \/ \E qos \in 1 .. 2 : KindOf(qos) \in RequestKinds /\ Publish(qos, len, msg)
    \/ \E kind \in RequestKinds \ PublishKinds : Request(kind, len, msg)
    \/ PUBLISH_QOS0 /\ PublishQos0(len)

Next ==
  \/ ConnectAborts \/ ConnectSent \/ ConnectRefused \/ ReceiveConnAck
  \/ SomeWriteStep \/ FlushBegin \/ FlushComplete \/ QueuePing
  \/ SomeReceive
  \/ SomeRequest \/ Disconnect
  \/ TransportFailure \/ PingTimeout \/ PingDue \/ PingExpires

Spec == Init /\ [][Next]_vars

(* The application keeps driving the connection, the transport accepts     *)
(* bytes and completes flushes, and time passes.  Nothing is assumed of    *)
(* the broker, of reconnection or of the application's requests.           *)
Fairness ==
  /\ WF_vars(SomeWriteStep) /\ WF_vars(FlushBegin) /\ WF_vars(FlushComplete)
  /\ WF_vars(QueuePing) /\ WF_vars(PingDue) /\ WF_vars(PingExpires)
  /\ WF_vars(PingTimeout)

FairSpec == Spec /\ Fairness

-----------------------------------------------------------------------------
(* Properties *)

(* Every field has its type, and the retained and PUBREL queues of         *)
(* Outbound stay within their capacity.                                    *)
TypeOK ==
  /\ control \in Seq(ControlEntries)
  /\ release \in Seq(ReleaseEntries) /\ Len(release) <= MAX_PENDING_RELEASE
  /\ retained \in Seq(RetainedEntries) /\ Len(retained) <= MAX_RETAINED
  /\ connectWorkspace \in Nat /\ clientIdLen \in Nat
  /\ packetId \in PacketIds /\ generation \in Nat
  /\ sessionPresent \in BOOLEAN /\ serverIds \in SUBSET PacketIds
  /\ sendQuota \in Nat /\ maxSendQuota \in Nat /\ maxPacketSize \in Nat
  /\ maxQos \in 0 .. 2 /\ keepalive \in BOOLEAN
  /\ nextPing \in {"none", "armed", "due"}
  /\ pingTimeout \in {"none", "armed", "expired"}
  /\ conn \in {"none", "handshake", "live", "dead"}
  /\ flushState \in {"Clean", "Dirty", "Flushing"}
  /\ open \in [queue : Queues \cup {"none"}, index : Nat, id : Nat, written : Nat]

UniqueIds(requests, releases) ==
  /\ \A i, j \in DOMAIN requests : requests[i].id = requests[j].id => i = j
  /\ \A i, j \in DOMAIN releases : releases[i].id = releases[j].id => i = j
  /\ \A i \in DOMAIN requests, j \in DOMAIN releases : requests[i].id # releases[j].id

(* No two requests in flight share a packet id, not even a request and a   *)
(* PUBREL: next_packet_id skips ids in use after it wraps, across          *)
(* reconnects and after requests that were refused but used up an id.      *)
IdsUnique == UniqueIds(retained, release)

(* At most one acknowledgement or PINGREQ waits at a time, because input   *)
(* is read only after everything was flushed: the branch of drive_packet   *)
(* for a full pending_control is never taken.                              *)
OneControl == Len(control) <= 1

(* However calls are dropped between writes, the peer sees whole packets:  *)
(* the packet that is partly on the wire is still queued, its offset is    *)
(* the number of bytes the transport took, and no other packet is partly   *)
(* written.                                                                *)
StreamFramed ==
  conn = "live" =>
    /\ open # NoPacket =>
         /\ open.queue \in Queues /\ open.index \in DOMAIN out[open.queue]
         /\ LET entry == out[open.queue][open.index]
            IN  /\ entry.id = open.id /\ entry.state = Write(open.written)
                /\ open.written # 0
    /\ \A q \in Queues : \A i \in DOMAIN out[q] :
         InProgress(out[q][i]) => open.queue = q /\ open.index = i

Unflushed(queue) == \E i \in DOMAIN queue : queue[i].state = Flush

(* A live connection whose FlushState is Clean has no written packet that  *)
(* still waits for a flush: a flush that was dropped half way is redone,   *)
(* and what was queued meanwhile is not taken for flushed.                 *)
FlushAccounted ==
  conn = "live" /\ flushState = "Clean" =>
    ~Unflushed(control) /\ ~Unflushed(release) /\ ~Unflushed(retained)

WrittenInOrder(queue) ==
  \A i, j \in DOMAIN queue :
    i < j /\ queue[i].state.tag = "Write" => queue[j].state = Write(0)

(* next_step takes the first entry that is still to be written: in every   *)
(* queue such entries are behind the written ones and only the first may   *)
(* be partly written.  This is about positions: ack_release moves the      *)
(* newest PUBREL to the front of an older one (ReleasesKeepOrder).         *)
WrittenFromFront ==
  WrittenInOrder(control) /\ WrittenInOrder(release) /\ WrittenInOrder(retained)

(* While a PINGRESP is awaited no second PINGREQ is queued or half sent.   *)
OnePing ==
  pingTimeout # "none" =>
    \A i \in DOMAIN control :
      control[i].action = "PingReq" => control[i].state.tag # "Write"

ControlUnsent == \A i \in DOMAIN control : control[i].state # Sent

AllArmed(queue) == \A i \in DOMAIN queue : queue[i].state = Write(0)

HandshakeArmed ==
  conn = "handshake" =>
    /\ flushState = "Clean" /\ open = NoPacket
    /\ AllArmed(control) /\ AllArmed(release) /\ AllArmed(retained)

QueueInv ==
  /\ IdsUnique /\ OneControl /\ ControlUnsent /\ StreamFramed /\ FlushAccounted
  /\ WrittenFromFront /\ OnePing /\ HandshakeArmed

(* The inductive invariant of the proofs.  Besides the properties above: a *)
(* sent acknowledgement never stays queued, and during the handshake of    *)
(* connect everything that was kept is ready to be replayed from its first *)
(* byte on a fresh stream.                                                 *)
IInv == TypeOK /\ QueueInv

(* The packets in flight never use up the TX space that the next CONNECT   *)
(* needs, also after the broker assigned a client id that makes CONNECT    *)
(* longer.                                                                 *)
ReconnectFits == retained # <<>> => ConnectFits

(* A PUBLISH that may have reached the broker is sent again only with its  *)
(* DUP bit set.                                                            *)
ReplayMarksDup ==
  [][\A i \in DOMAIN retained, j \in DOMAIN retained' :
       /\ retained[i].id = retained'[j].id /\ generation' = generation
       /\ retained[i].kind \in PublishKinds
       /\ retained[i].state # Write(0) /\ retained'[j].state = Write(0)
       => retained'[j].dup]_vars

(* A request stands before one that is already retained only if it stood   *)
(* before it: new ones join at the end, and neither an acknowledgement in  *)
(* any order nor a replay changes the order of those that stay.            *)
OldestFirst ==
  \A i \in DOMAIN retained, k, l \in DOMAIN retained' :
    k < l /\ retained[i].id = retained'[l].id
    => \E j \in DOMAIN retained : j < i /\ retained[j].id = retained'[k].id

(* No PUBLISH, SUBSCRIBE or UNSUBSCRIBE has a byte on the wire before an   *)
(* older one is written, in its first transmission and in every replay:    *)
(* the retained queue is in the order of admission, and it is written from *)
(* the front.  PUBRELs do not have this guarantee (ReleasesKeepOrder).     *)
NoOvertaking == [][OldestFirst /\ WrittenInOrder(retained)']_vars

(* The broker's limit is below a packet that is due: every call reports    *)
(* PacketTooLarge and nothing else is sent on this connection.             *)
Oversized ==
  \/ \E q \in Queues : \E i \in DOMAIN out[q] :
       Writable(out, q, i) /\ ~Fits(PacketLen(q, out[q][i]))
  \/ ~Fits(PING_LEN)

(* While the application drives a live connection, everything queued is    *)
(* written and flushed: admission of new requests and dropped calls cannot *)
(* starve the flush.                                                       *)
Drains == (conn = "live" /\ ~Quiet) ~> (conn # "live" \/ Quiet \/ Oversized)

(* A keepalive deadline that passes leads to outbound traffic, also while  *)
(* inbound packets keep arriving and while requests are unacknowledged.    *)
KeepaliveServed ==
  (conn = "live" /\ nextPing = "due" /\ pingTimeout = "none")
    ~> (conn # "live" \/ nextPing # "due" \/ pingTimeout # "none" \/ Oversized)

PublishesQos0 == \E len \in Lens : PublishQos0(len)

(* A peer that falls silent is given up, whatever is in flight at that     *)
(* moment, unless the application keeps publishing at QoS 0: that traffic  *)
(* counts as activity and puts the PINGREQ off for ever.                   *)
SilentPeerDropped ==
  <>[][~SomeReceive /\ ~PublishesQos0]_vars
    => []<>(conn # "live" \/ ~keepalive \/ Oversized)

(* lib.rs: "Deliver exactly once through the MQTT QoS 2 handshake."  When  *)
(* the broker refuses nothing, a QoS 2 PUBLISH leaves the retained queue   *)
(* of a live connection only for its PUBREL.                               *)
HandshakeCompletes ==
  [][\A i \in DOMAIN retained :
       /\ retained[i].kind = "PublishExactlyOnce" /\ conn = "live"
       /\ ~HasId(retained', retained[i].id)
       => HasId(release', retained[i].id)]_vars

(* CHANGELOG 0.13.5: "Preserve MQTT packet ordering across cancelled       *)
(* writes and disconnects."  PUBRELs that wait for PUBCOMP keep the order  *)
(* in which they were sent, which is the order of their replay.            *)
ReleasesKeepOrder ==
  [][\A i, j \in DOMAIN release, k, l \in DOMAIN release' :
       /\ release[i].id = release'[k].id /\ release[j].id = release'[l].id
       /\ i < j
       => k < l]_vars
=============================================================================
