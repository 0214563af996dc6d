------------------------------- MODULE Delivery -------------------------------
(***************************************************************************)
(* A session together with the broker it talks to, the two byte streams    *)
(* between them and the application that holds the Op handles.             *)
(*                                                                         *)
(* The broker follows MQTT 5 and keeps its half of the session across      *)
(* connections until it expires.  A connection may end at any moment: what *)
(* was written and not yet read is lost, in both directions.  Every action *)
(* of the client is the one of module Session; this module adds what the   *)
(* packet it writes or reads means to the other side.                      *)
(***************************************************************************)
EXTENDS Session

CONSTANTS
  BrokerMsgs,   \* what the broker publishes to the client
  Traffics,     \* which messages and which requests are in use together
  None

ASSUME DeliveryAssumption ==
  /\ KeepAlives = {FALSE} /\ AckOks = BOOLEAN
  /\ AckTypes \cup {"PubRel"} \subseteq InTypes
  /\ None \notin Msgs \cup BrokerMsgs
                 \cup [kind : OpKinds, id : PacketIds, generation : 0 .. GENERATIONS - 1]
  /\ BrokerIds = {} => BrokerMsgs = {}
  /\ Traffics \subseteq [msgs : SUBSET (Msgs \cup BrokerMsgs), kinds : SUBSET RequestKinds]

(* What the promise of delivery rests on.  A PUBREL or acknowledgement     *)
(* above the broker's size limit ends the connection after the session has *)
(* changed, and a PUBREC that finds pending_release full is dropped after  *)
(* its PUBLISH: both sides then disagree about the id.  And two successive *)
(* sessions have different generations.                                    *)
ASSUME RoomAssumption ==
  /\ \A limit \in PacketLimits : ACK_LEN <= limit
  /\ IsFiniteSet(Msgs) /\ Cardinality(Msgs) <= MAX_PENDING_RELEASE
  /\ GENERATIONS > 1

VARIABLES
  traffic,             \* the messages and requests of this behaviour
  sessionResumed,      \* session_resumed: the CONNACK found a session
  toBroker, toClient,  \* packets on their way, whole and in order
  linked,              \* the broker has accepted the client's latest CONNECT
  brokerPresent,       \* the broker holds a session of this client
  brokerReceived,      \* ids of QoS 2 PUBLISHes whose PUBREL has not come
  brokerOut,           \* the broker's own PUBLISHes without final acknowledgement
  brokerStatus,        \* what the broker's publisher is told
  brokerQos,           \* the QoS of a broker's message
  ops,                 \* the Op handle the application holds for a message
  forwarded, refused,  \* what the broker did with the client's messages
  received             \* how often the application was given a broker's message

wireVars == <<sessionResumed, toBroker, toClient, linked>>
brokerVars == <<brokerPresent, brokerReceived, brokerOut, brokerStatus,
                brokerQos, forwarded, refused>>
appVars == <<traffic, ops, received>>
dvars == <<vars, wireVars, brokerVars, appVars>>

Op(kind, id, gen) == [kind |-> kind, id |-> id, generation |-> gen]

DInit ==
  /\ Init
  /\ traffic \in Traffics /\ sessionResumed = FALSE
  /\ toBroker = <<>> /\ toClient = <<>> /\ linked = FALSE
  /\ brokerPresent = FALSE /\ brokerReceived = {} /\ brokerOut = <<>>
  /\ brokerStatus = [b \in BrokerMsgs |-> "none"]
  /\ brokerQos = [b \in BrokerMsgs |-> 0]
  /\ ops = [m \in Msgs |-> None]
  /\ forwarded = [m \in Msgs |-> 0] /\ refused = [m \in Msgs |-> FALSE]
  /\ received = [b \in BrokerMsgs |-> 0]

(* One more copy.  At QoS 1 it only matters that there is one. *)
Copied(n, type) == IF type \in {"PublishExactlyOnce", "Publish2"} THEN n + 1 ELSE 1

-----------------------------------------------------------------------------
(* Session::status *)

(* Mutant: the generation of the handle is not compared. *)
StatusAnyGeneration(op) ==
  IF op = None THEN "none"
  ELSE IF HasId(retained, op.id)
            \/ (op.kind = "PublishExactlyOnce" /\ HasId(release, op.id))
  THEN "pending" ELSE "complete"

Status(op) ==
  IF op = None THEN "none"
  ELSE IF op.generation # generation THEN "invalidated"
  ELSE IF HasId(retained, op.id)
            \/ (op.kind = "PublishExactlyOnce" /\ HasId(release, op.id))
  THEN "pending" ELSE "complete"

QosOf(op) ==
  IF op = None THEN 0 ELSE IF op.kind = "PublishExactlyOnce" THEN 2 ELSE 1

-----------------------------------------------------------------------------
(* The streams.  What the client has not read when its connection ends is  *)
(* lost at once; what it has written may still reach the broker.           *)

Packet(type, id, ok, msg) == [type |-> type, id |-> id, ok |-> ok, msg |-> msg]

Unread(packets) == IF conn' \in {"live", "handshake"} THEN packets ELSE <<>>

WrittenPacket(q, entry) ==
  CASE q = "control"  -> Packet(entry.action, entry.id, entry.ok, None)
    [] q = "release"  -> Packet("PubRel", entry.id, TRUE, None)
    [] q = "retained" -> Packet(entry.kind, entry.id, TRUE, entry.msg)

-----------------------------------------------------------------------------
(* The application *)

(* An id is 16 bits and comes round: the application does not keep the     *)
(* handle of a finished operation for that long.                           *)
IdNotHeld ==
  \A m \in Msgs :
    ops[m] # None /\ ops[m].generation = generation => ops[m].id # AllocatedId

HoldsOp(m, kind) ==
  ops' = IF Len(retained') > Len(retained)
         THEN [ops EXCEPT ![m] = Op(kind, AllocatedId, generation)] ELSE ops

AppPublishes(m, len, q) ==
  /\ ops[m] = None /\ KindOf(q) \in traffic.kinds /\ conn = "live" /\ IdNotHeld
  /\ Publish(q, len, m)
  /\ HoldsOp(m, KindOf(IF q > maxQos THEN maxQos ELSE q))
  /\ UNCHANGED <<wireVars, brokerVars, traffic, received>>

AppRequests(m, len, kind) ==
  /\ ops[m] = None /\ conn = "live" /\ IdNotHeld
  /\ Request(kind, len, m)
  /\ HoldsOp(m, kind)
  /\ UNCHANGED <<wireVars, brokerVars, traffic, received>>

AppDrops(m) ==
  /\ Status(ops[m]) \in {"complete", "invalidated"}
  /\ ops' = [ops EXCEPT ![m] = None]
  /\ forwarded' = [forwarded EXCEPT ![m] = 0]
  /\ refused' = [refused EXCEPT ![m] = FALSE]
  /\ UNCHANGED <<vars, wireVars, brokerPresent, brokerReceived, brokerOut,
                 brokerStatus, brokerQos, traffic, received>>

-----------------------------------------------------------------------------
(* The client *)

(* Generations are counted in 32 bits and come round as well. *)
HandlesCurrent == \A m \in Msgs : Status(ops[m]) # "invalidated"

ClientConnects ==
  /\ HandlesCurrent
  /\ ConnectSent
  /\ toClient' = <<>> /\ linked' = FALSE
  /\ UNCHANGED <<sessionResumed, toBroker, brokerVars, appVars>>

ClientReadsConnAck ==
  /\ toClient # <<>> /\ Head(toClient).type = "ConnAck"
  /\ \/ ConnAckInvalid(Head(toClient).ok) /\ UNCHANGED sessionResumed
     \/ /\ sessionResumed' = Head(toClient).ok
        /\ \E receiveMax \in ReceiveMaxima, limit \in PacketLimits \cup {NO_LIMIT},
              qos \in MaxQoSs, assigned \in AssignedLens :
             ConnAck(Head(toClient).ok, receiveMax, limit, qos, FALSE, assigned)
  /\ toClient' = Unread(Tail(toClient))
  /\ UNCHANGED <<toBroker, linked, brokerVars, appVars>>

(* The client does not miss the one CONNACK that tells it of a lost        *)
(* session: after that the protocol itself cannot tell the sessions apart. *)
LossToldNow ==
  toClient # <<>> /\ Head(toClient).type = "ConnAck" /\ ~Head(toClient).ok
    /\ sessionPresent

ClientEnds ==
  /\ ~LossToldNow
  /\ ConnectAborts \/ ConnectRefused \/ Disconnect \/ TransportFailure
  /\ toClient' = Unread(toClient)
  /\ UNCHANGED <<sessionResumed, toBroker, linked, brokerVars, appVars>>

ClientWrites ==
  /\ \E q \in Queues : \E i \in DOMAIN out[q] :
       \E n \in 1 .. PacketLen(q, out[q][i]) :
         /\ WriteStep(q, i, n)
         /\ toBroker' = IF open' = NoPacket
                        THEN Append(toBroker, WrittenPacket(q, out[q][i]))
                        ELSE toBroker
  /\ UNCHANGED <<sessionResumed, toClient, linked, brokerVars, appVars>>

ClientFlushes ==
  /\ FlushBegin \/ FlushComplete
  /\ UNCHANGED <<wireVars, brokerVars, appVars>>

(* Mutant: a QoS 2 message is handed over again when it is repeated. *)
SurfacedAgain(p) == conn' = "live" /\ p.type \in {"Publish1", "Publish2"}

(* handle_packet returns true and the call returns the message: it is      *)
(* given to the application before anything else is awaited.               *)
Surfaced(p) ==
  /\ conn' = "live"
  /\ \/ p.type = "Publish1"
     \/ p.type = "Publish2" /\ p.id \notin serverIds /\ HasServerSlot

ClientReads ==
  /\ toClient # <<>>
  /\ Receive(Head(toClient))
  /\ received' = IF Surfaced(Head(toClient))
                 THEN [received EXCEPT ![Head(toClient).msg] =
                         Copied(@, Head(toClient).type)]
                 ELSE received
  /\ toClient' = Unread(Tail(toClient))
  /\ UNCHANGED <<sessionResumed, toBroker, linked, brokerVars, traffic, ops>>

-----------------------------------------------------------------------------
(* The broker *)

(* A reply to a connection that is over reaches nobody. *)
Reply(packets) == toClient' = IF conn = "live" THEN toClient \o packets ELSE toClient

Resend(entry) ==
  IF entry.phase = "publish" THEN Packet(entry.type, entry.id, TRUE, entry.msg)
                             ELSE Packet("PubRel", entry.id, TRUE, None)

(* CONNECT: clean start, or the broker's session with its unacknowledged   *)
(* packets sent again.  The rest of an older stream is dropped.            *)
BrokerAccepts ==
  LET resumed == sessionPresent /\ brokerPresent
      kept == IF resumed THEN brokerOut ELSE <<>>
  IN  /\ conn = "handshake" /\ ~linked
      /\ linked' = TRUE /\ brokerPresent' = TRUE
      /\ brokerReceived' = IF resumed THEN brokerReceived ELSE {}
      /\ brokerOut' = kept
      /\ brokerStatus' = IF resumed THEN brokerStatus
                         ELSE [b \in BrokerMsgs |->
                                 IF brokerStatus[b] = "none" THEN "none"
                                                             ELSE "invalidated"]
      /\ toBroker' = <<>>
      /\ toClient' = <<Packet("ConnAck", 0, resumed, None)>>
                       \o [i \in DOMAIN kept |-> Resend(kept[i])]
      /\ UNCHANGED <<vars, sessionResumed, brokerQos, forwarded, refused,
                     appVars>>

(* The session expires while the client is away. *)
BrokerForgets ==
  /\ brokerPresent /\ conn # "live" /\ ~(conn = "handshake" /\ linked)
  /\ brokerPresent' = FALSE /\ brokerReceived' = {} /\ brokerOut' = <<>>
  /\ brokerStatus' = [b \in BrokerMsgs |->
                        IF brokerStatus[b] = "none" THEN "none" ELSE "invalidated"]
  /\ toBroker' = <<>>
  /\ UNCHANGED <<vars, sessionResumed, toClient, linked, brokerQos, forwarded,
                 refused, appVars>>

Forward(p) == forwarded' = [forwarded EXCEPT ![p.msg] = Copied(@, p.type)]

(* A request is carried out and acknowledged; a QoS 2 PUBLISH whose id is  *)
(* waiting for PUBREL is a repetition.                                     *)
BrokerTakes(p) ==
  /\ p.type \in OpKinds
  /\ IF p.type = "PublishExactlyOnce"
     THEN /\ IF p.id \in brokerReceived THEN UNCHANGED forwarded ELSE Forward(p)
          /\ brokerReceived' = brokerReceived \cup {p.id}
     ELSE Forward(p) /\ UNCHANGED brokerReceived
  /\ Reply(<<Packet(CHOOSE t \in AckTypes \ {"PubComp"} : AckedKind(t) = p.type,
                    p.id, TRUE, None)>>)
  /\ UNCHANGED <<brokerOut, brokerStatus, refused>>

BrokerRefuses(p) ==
  /\ p.type \in OpKinds /\ p.id \notin brokerReceived
  /\ refused' = [refused EXCEPT ![p.msg] = TRUE]
  /\ Reply(<<Packet(CHOOSE t \in AckTypes \ {"PubComp"} : AckedKind(t) = p.type,
                    p.id, FALSE, None)>>)
  /\ UNCHANGED <<brokerReceived, brokerOut, brokerStatus, forwarded>>

BrokerReleases(p) ==
  /\ p.type = "PubRel"
  /\ brokerReceived' = brokerReceived \ {p.id}
  /\ Reply(<<Packet("PubComp", p.id, p.id \in brokerReceived, None)>>)
  /\ UNCHANGED <<brokerOut, brokerStatus, forwarded, refused>>

(* The client's acknowledgement of entry i of brokerOut is final. *)
Settle(i) ==
  /\ brokerOut' = RemoveAt(brokerOut, i)
  /\ brokerStatus' = [brokerStatus EXCEPT ![brokerOut[i].msg] = "complete"]

Expected(p, i) ==
  /\ brokerOut[i].id = p.id
  /\ \/ p.type = "PubAck" /\ brokerOut[i].type = "Publish1"
     \/ p.type = "PubRec" /\ brokerOut[i].type = "Publish2"
     \/ p.type = "PubComp" /\ brokerOut[i].phase = "release"

BrokerAcked(p) ==
  /\ p.type \in {"PubAck", "PubRec", "PubComp"}
  /\ \/ \E i \in DOMAIN brokerOut :
          /\ Expected(p, i)
          /\ IF p.type = "PubRec" /\ p.ok
             THEN /\ brokerOut' = [brokerOut EXCEPT ![i].phase = "release"]
                  /\ Reply(<<Packet("PubRel", p.id, TRUE, None)>>)
                  /\ UNCHANGED brokerStatus
             ELSE Settle(i) /\ UNCHANGED toClient
     \/ /\ ~ \E i \in DOMAIN brokerOut : Expected(p, i)
        /\ UNCHANGED <<brokerOut, brokerStatus, toClient>>
  /\ UNCHANGED <<brokerReceived, forwarded, refused>>

BrokerReads ==
  /\ toBroker # <<>>
  /\ LET p == Head(toBroker)
     IN  BrokerTakes(p) \/ BrokerRefuses(p) \/ BrokerReleases(p) \/ BrokerAcked(p)
  /\ toBroker' = Tail(toBroker)
  /\ UNCHANGED <<vars, sessionResumed, linked, brokerPresent, brokerQos, appVars>>

(* The broker keeps to the Receive Maximum of the CONNECT and does not use *)
(* an id again while an acknowledgement of its last use may still come:    *)
(* the client sends acknowledgements again after it reconnects.            *)
Retired(id) ==
  /\ \A i \in DOMAIN brokerOut : brokerOut[i].id # id
  /\ \A i \in DOMAIN control : control[i].id # id
  /\ \A i \in DOMAIN toBroker : toBroker[i].msg # None \/ toBroker[i].id # id
  /\ \A i \in DOMAIN toClient : toClient[i].id # id

BrokerPublishes(b, type, id) ==
  /\ conn = "live" /\ brokerStatus[b] = "none"
  /\ Len(brokerOut) < MAX_INBOUND_QOS2
  /\ Retired(id) /\ \A other \in BrokerIds : Retired(other) => id <= other
  /\ brokerOut' = Append(brokerOut, [type |-> type, id |-> id, msg |-> b,
                                     phase |-> "publish"])
  /\ brokerStatus' = [brokerStatus EXCEPT ![b] = "pending"]
  /\ brokerQos' = [brokerQos EXCEPT ![b] = IF type = "Publish2" THEN 2 ELSE 1]
  /\ toClient' = Append(toClient, Packet(type, id, TRUE, b))
  /\ UNCHANGED <<vars, sessionResumed, toBroker, linked, brokerPresent,
                 brokerReceived, forwarded, refused, appVars>>

(* The next message under this name comes when no copy of the last is left.*)
BrokerDrops(b) ==
  /\ brokerStatus[b] \in {"complete", "invalidated"}
  /\ \A i \in DOMAIN toClient : toClient[i].msg # b
  /\ brokerStatus' = [brokerStatus EXCEPT ![b] = "none"]
  /\ brokerQos' = [brokerQos EXCEPT ![b] = 0]
  /\ received' = [received EXCEPT ![b] = 0]
  /\ UNCHANGED <<vars, wireVars, brokerPresent, brokerReceived, brokerOut,
                 forwarded, refused, traffic, ops>>

-----------------------------------------------------------------------------
DNext ==
  \/ \E m \in Msgs \cap traffic.msgs :
       \/ \E len \in Lens, q \in 1 .. 2 : AppPublishes(m, len, q)
       \/ \E len \in Lens, kind \in traffic.kinds \ PublishKinds :
            AppRequests(m, len, kind)
       \/ AppDrops(m)
  \/ ClientConnects \/ ClientReadsConnAck \/ ClientEnds
  \/ ClientWrites \/ ClientFlushes \/ ClientReads
  \/ BrokerAccepts \/ BrokerForgets \/ BrokerReads
  \/ \E b \in BrokerMsgs \cap traffic.msgs :
       \/ \E type \in InTypes \cap {"Publish1", "Publish2"}, id \in BrokerIds :
            BrokerPublishes(b, type, id)
       \/ BrokerDrops(b)

DSpec == DInit /\ [][DNext]_dvars

-----------------------------------------------------------------------------
(* Properties *)

Outward == INSTANCE MessageDelivery
  WITH Messages <- Msgs, REFUSALS <- TRUE,
       status <- [m \in Msgs |-> Status(ops[m])],
       qos <- [m \in Msgs |-> QosOf(ops[m])],
       copies <- forwarded

Inward == INSTANCE MessageDelivery
  WITH Messages <- BrokerMsgs, REFUSALS <- FALSE, status <- brokerStatus,
       qos <- brokerQos, copies <- received,
       refused <- [b \in BrokerMsgs |-> FALSE]

(* Every field has its type: a handle is of an id and a generation the     *)
(* session can give out, and what is on the wire is whole packets.         *)
DTypeOK ==
  /\ TypeOK
  /\ sessionResumed \in BOOLEAN /\ linked \in BOOLEAN /\ brokerPresent \in BOOLEAN
  /\ ops \in [Msgs -> {None} \cup [kind : OpKinds, id : PacketIds,
                                   generation : 0 .. GENERATIONS - 1]]
  /\ forwarded \in [Msgs -> 0 .. 1] /\ refused \in [Msgs -> BOOLEAN]
  /\ received \in [BrokerMsgs -> 0 .. 1]
  /\ brokerReceived \subseteq PacketIds
  /\ \A i \in DOMAIN toBroker : toBroker[i].id \in PacketIds \cup BrokerIds

(* What the application is told about its publishes and requests is true   *)
(* of the broker, across lost connections, replays and lost sessions:      *)
(* status answers Complete only after the broker took or refused the       *)
(* request, a QoS 2 message reaches the broker's subscribers at most once, *)
(* and every handle of a session that was lost says Invalidated, at once.  *)
OutwardDelivery == Outward!Spec

(* The same for the broker's messages: the application was given a message *)
(* before the broker is told it has it, and a QoS 2 message is given to it *)
(* once, although the broker repeats what it saw no answer to and the      *)
(* client repeats its acknowledgements.                                    *)
InwardDelivery == Inward!Spec

Publishes == {i \in DOMAIN retained : retained[i].kind \in PublishKinds}

(* The broker takes requests in the order in which they were admitted: a   *)
(* later one gets through only after every earlier one that still waits    *)
(* for its acknowledgement did, also when a connection is lost halfway     *)
(* through a replay.                                                       *)
FirstComeFirstServed ==
  \A i, j \in DOMAIN retained :
    i < j /\ forwarded[retained[j].msg] > 0 =>
      forwarded[retained[i].msg] > 0 \/ refused[retained[i].msg]

(* The send quota is what the Receive Maximum leaves: on a connection that *)
(* did not resume a session it and the retained PUBLISHes add up to it, so *)
(* no acknowledgement, however late, stale or failed, opens the window     *)
(* further.  A resumed connection starts with the full quota on top of the *)
(* packets it replays, and its quota is bounded by the Receive Maximum     *)
(* only.                                                                   *)
QuotaConserved ==
  conn = "live" =>
    /\ sendQuota <= maxSendQuota
    /\ ~sessionResumed => sendQuota + Cardinality(Publishes) = maxSendQuota
=============================================================================
