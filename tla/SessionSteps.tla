---------------------------- MODULE SessionSteps ------------------------------
(***************************************************************************)
(* Every step of a session keeps IInv: here the requests and the inbound   *)
(* packets, and with SessionOutbound all of Next.                          *)
(***************************************************************************)
EXTENDS SessionOutbound

(* Leaves are small; the time is that of the context they stand in, and a  *)
(* leaf whose encoding takes too long is tried again.                      *)
USE SMTT(30), ZenonT(20), SMTT(31), SMTT(32)

-----------------------------------------------------------------------------
(* Requests. *)

(* publish, subscribe and unsubscribe keep the types: a request is         *)
(* retained only into a free slot.                                         *)
LEMMA RequestKeepsTypes ==
  ASSUME TypeOK, SetFacts, SomeRequest
  PROVE  TypeOK'
<1> USE DEF idVars, connectVars, limitVars, timerVars, linkVars, queueVars
<1>1. PICK len \in Lens, msg \in Msgs :
        \/ \E qos \in 1 .. 2 : KindOf(qos) \in RequestKinds /\ Publish(qos, len, msg)
        \/ \E kind \in RequestKinds \ PublishKinds : Request(kind, len, msg)
        \/ PublishQos0(len)
  BY DEF SomeRequest
<1>2. len \in Nat
  BY SessionAssumption
<1>3. ASSUME NEW qos \in 1 .. 2, Publish(qos, len, msg)
      PROVE  TypeOK'
  <2>1. packetId' \in PacketIds
    BY <1>3, TakeIdType DEF Publish
  <2>2. CASE UNCHANGED <<retained, sendQuota>>
    BY <1>3, <2>1, <2>2 DEF Publish, TypeOK
  <2>3. ASSUME NEW effective \in 0 .. 2, CanPublish,
               Retain(KindOf(effective), len, msg), sendQuota' = sendQuota - 1
        PROVE  TypeOK'
    <3>1. KindOf(effective) \in OpKinds
      BY DEF KindOf, OpKinds, PublishKinds
    <3>2. retained' \in Seq(RetainedEntries) /\ Len(retained') <= MAX_RETAINED
      BY <1>2, <2>3, <3>1, RetainType DEF CanPublish
    <3>3. sendQuota' \in Nat
      BY <2>3 DEF CanPublish, TypeOK
    <3> QED
      BY <1>3, <2>1, <3>2, <3>3 DEF Publish, TypeOK
  <2>4. (IF qos > maxQos THEN maxQos ELSE qos) \in 0 .. 2
    BY DEF TypeOK
  <2> QED
    BY <1>3, <2>2, <2>3, <2>4 DEF Publish
<1>4. ASSUME NEW kind \in RequestKinds \ PublishKinds, Request(kind, len, msg)
      PROVE  TypeOK'
  <2>1. packetId' \in PacketIds /\ kind \in OpKinds
    BY <1>4, TakeIdType, SessionAssumption DEF Request
  <2>2. retained' \in Seq(RetainedEntries) /\ Len(retained') <= MAX_RETAINED
    BY <1>2, <1>4, <2>1, RetainType DEF Request, TypeOK
  <2> QED
    BY <1>4, <2>1, <2>2 DEF Request, TypeOK
<1>5. CASE PublishQos0(len)
  BY <1>5 DEF PublishQos0, NoteOutboundActivity, TypeOK
<1> QED
  BY <1>1, <1>3, <1>4, <1>5

(* A newly retained request keeps QueueInv: its id is free, and it goes    *)
(* behind every other request, unwritten.                                  *)
LEMMA RetainQueues ==
  ASSUME IInv, SetFacts, conn = "live", NEW kind \in OpKinds, NEW len \in Nat, NEW msg \in Msgs,
         Len(retained) < MAX_RETAINED, Retain(kind, len, msg),
         UNCHANGED <<control, release, pingTimeout, linkVars>>
  PROVE  QueueInv'
<1> DEFINE last == Len(retained) + 1
<1>1. /\ DOMAIN retained' = 1 .. last
      /\ \A i \in DOMAIN retained : retained'[i] = retained[i]
      /\ retained'[last] = NewRetained(kind, AllocatedId, len, msg)
  BY RetainType DEF IInv
<1>2. /\ retained'[last].id = AllocatedId /\ retained'[last].state = Write(0)
  BY <1>1 DEF NewRetained
<1>3. DOMAIN retained = 1 .. Len(retained) /\ Len(retained) \in Nat
  BY LenProperties DEF IInv, TypeOK
<1>4. /\ AllocatedId \notin {retained[i].id : i \in DOMAIN retained}
      /\ AllocatedId \notin {release[i].id : i \in DOMAIN release}
  BY DEF SetFacts, FreeIds, HasId
<1>5. /\ conn' = "live" /\ open' = open /\ flushState' = flushState
      /\ control' = control /\ release' = release
  BY DEF linkVars
<1>6. Write(0) # Flush /\ Write(0).written = 0
  BY DEF Write, Flush
<1>7. \A i \in DOMAIN retained' : i \in DOMAIN retained \/ i = last
  BY <1>1, <1>3
<1>8. IdsUnique'
  BY <1>1, <1>2, <1>3, <1>4, <1>5, <1>7 DEF IInv, QueueInv, IdsUnique, UniqueIds
<1>9. OneControl' /\ ControlUnsent' /\ OnePing' /\ HandshakeArmed'
  BY <1>5 DEF IInv, QueueInv, OneControl, ControlUnsent, OnePing, HandshakeArmed
<1>10. FlushAccounted'
  BY <1>1, <1>2, <1>5, <1>6, <1>7 DEF IInv, QueueInv, FlushAccounted, Unflushed
<1>11. WrittenFromFront'
  BY <1>1, <1>2, <1>3, <1>5, <1>7 DEF IInv, QueueInv, WrittenFromFront, WrittenInOrder
<1>12. StreamFramed'
  <2>1. \A r \in Queues : \A j \in DOMAIN out[r] : j \in DOMAIN out'[r] /\ out'[r][j] = out[r][j]
    BY <1>1, <1>3, <1>5 DEF Queues, out
  <2>2. \A r \in Queues : \A j \in DOMAIN out'[r] :
          InProgress(out'[r][j]) => j \in DOMAIN out[r] /\ InProgress(out[r][j])
    BY <1>1, <1>2, <1>5, <1>6, <1>7 DEF Queues, out, InProgress
  <2> QED
    BY <1>5, <2>1, <2>2 DEF IInv, QueueInv, StreamFramed
<1> QED
  BY <1>8, <1>9, <1>10, <1>11, <1>12 DEF QueueInv

-----------------------------------------------------------------------------
(* Inbound packets. *)

(* handle_packet keeps the types, for every inbound packet.                *)
LEMMA ReceiveKeepsTypes ==
  ASSUME TypeOK, NEW p \in InPackets, Receive(p)
  PROVE  TypeOK'
<1> USE DEF idVars, connectVars, limitVars, timerVars, linkVars, queueVars
<1>1. /\ QueueTypes /\ p.ok \in BOOLEAN
      /\ p.type \in AckTypes \cup BrokerIdTypes => p.id \in PacketIds
  BY ZenonT(30), SessionAssumption DEF QueueTypes, TypeOK, InPackets
<1>2. RaiseQuota => sendQuota' \in Nat
  BY DEF RaiseQuota, TypeOK
<1>3. CASE HandleAck(p)
  <2>1. retained' \in Seq(RetainedEntries) /\ Len(retained') <= MAX_RETAINED
    BY <1>3, RemoveRequestType DEF HandleAck, TypeOK
  <2>2. sendQuota' \in Nat
    BY <1>3, <1>2 DEF HandleAck, TypeOK
  <2> QED
    BY <1>3, <2>1, <2>2 DEF HandleAck, TypeOK
<1>4. CASE HandlePubRec(p)
  <2>1. CASE UNCHANGED <<queueVars, sendQuota, timerVars, conn>>
    BY <1>4, <2>1 DEF HandlePubRec, TypeOK
  <2>2. ASSUME NEW i \in DOMAIN retained, RaiseQuota,
               retained' = RemoveAt(retained, i),
               UNCHANGED <<control, release, timerVars, conn>>
        PROVE  TypeOK'
    <3>1. retained' \in Seq(RetainedEntries) /\ Len(retained') <= MAX_RETAINED
      BY <2>2, RemoveRequestType
    <3> QED
      BY <1>2, <1>4, <2>2, <3>1 DEF HandlePubRec, TypeOK
  <2>3. ASSUME NEW i \in DOMAIN retained, RaiseQuota,
               retained' = RemoveAt(retained, i), Len(release) < MAX_PENDING_RELEASE,
               release' = Append(release, NewRelease(p.id)),
               UNCHANGED <<control, timerVars, conn>>
        PROVE  TypeOK'
    <3>1. retained' \in Seq(RetainedEntries) /\ Len(retained') <= MAX_RETAINED
      BY <2>3, RemoveRequestType
    <3>2. NewRelease(p.id) \in ReleaseEntries
      BY <1>1, <1>4, EntryTypes DEF NewRelease, ReleaseEntries, HandlePubRec, AckTypes
    <3>3. release' \in Seq(ReleaseEntries) /\ Len(release') <= MAX_PENDING_RELEASE
      <4>1. release \in Seq(ReleaseEntries) /\ Len(release) \in Nat
        BY LenProperties DEF TypeOK
      <4> QED
        BY <4>1, <3>2, <2>3, AppendProperties, SizesAssumption
    <3> QED
      BY <1>2, <1>4, <2>3, <3>1, <3>3 DEF HandlePubRec, TypeOK
  <2>4. ASSUME NEW i \in DOMAIN retained, RaiseQuota,
               retained' = Rearm(MarkPublishDup(RemoveAt(retained, i))),
               control' = Rearm(control), release' = Rearm(release),
               ResetTransport, conn' = "dead"
        PROVE  TypeOK'
    <3>1. /\ RemoveAt(retained, i) \in Seq(RetainedEntries)
          /\ Len(RemoveAt(retained, i)) <= MAX_RETAINED
      BY <2>4, RemoveRequestType
    <3>2. QueueTypes'
      BY <1>1, <2>4, <3>1, ArmReplayTypes DEF QueueTypes
    <3> QED
      BY <1>2, <1>4, <2>4, <3>2 DEF HandlePubRec, TypeOK, QueueTypes, ResetTransport
  <2> QED
    BY <1>4, <2>1, <2>2, <2>3, <2>4 DEF HandlePubRec
<1>5. CASE HandlePubComp(p)
  <2>1. release' \in Seq(ReleaseEntries) /\ Len(release') <= MAX_PENDING_RELEASE
    <3>1. release \in Seq(ReleaseEntries) /\ Len(release) \in Nat
          /\ Len(release) <= MAX_PENDING_RELEASE
      BY LenProperties DEF TypeOK
    <3> QED
      BY <1>5, <3>1, SwapRemoveProperties, SizesAssumption DEF HandlePubComp
  <2> QED
    BY <1>5, <2>1 DEF HandlePubComp, TypeOK
<1>6. CASE HandlePingResp(p)
  BY <1>6 DEF HandlePingResp, TypeOK
<1>7. CASE HandlePubRel(p)
  <2>1. p.id \in PacketIds /\ (p.id \in serverIds) \in BOOLEAN
    BY <1>1, <1>7 DEF HandlePubRel, BrokerIdTypes
  <2>2. Acknowledge("PubComp", p.id, p.id \in serverIds)
    BY <1>7 DEF HandlePubRel
  <2>3. /\ QueueTypes' /\ nextPing' \in {"none", "armed", "due"}
        /\ pingTimeout' \in {"none", "armed", "expired"}
        /\ conn' \in {"none", "handshake", "live", "dead"}
    BY ZenonT(30), <2>1, <2>2, AcknowledgeType
  <2> QED
    BY <1>7, <2>3 DEF HandlePubRel, TypeOK, QueueTypes
<1>8. CASE HandlePublish(p)
  <2>1. CASE p.type = "Publish0"
    BY <1>8, <2>1 DEF HandlePublish, TypeOK
  <2>2. CASE p.type = "Publish1"
    <3>1. p.id \in PacketIds /\ Acknowledge("PubAck", p.id, p.id \notin serverIds)
      BY <1>1, <1>8, <2>2 DEF HandlePublish, BrokerIdTypes
    <3>2. /\ QueueTypes' /\ nextPing' \in {"none", "armed", "due"}
          /\ pingTimeout' \in {"none", "armed", "expired"}
          /\ conn' \in {"none", "handshake", "live", "dead"}
      BY ZenonT(30), <3>1, AcknowledgeType
    <3> QED
      BY <1>8, <2>2, <3>2 DEF HandlePublish, TypeOK, QueueTypes
  <2>3. CASE p.type = "Publish2"
    <3>1. p.id \in PacketIds
          /\ Acknowledge("PubRec", p.id, p.id \in serverIds \/ HasServerSlot)
      BY <1>1, <1>8, <2>3 DEF HandlePublish, BrokerIdTypes
    <3>2. /\ QueueTypes' /\ nextPing' \in {"none", "armed", "due"}
          /\ pingTimeout' \in {"none", "armed", "expired"}
          /\ conn' \in {"none", "handshake", "live", "dead"}
      BY ZenonT(30), <3>1, AcknowledgeType
    <3> QED
      BY <1>8, <2>3, <3>1, <3>2 DEF HandlePublish, TypeOK, QueueTypes
  <2> QED
    BY <1>8, <2>1, <2>2, <2>3 DEF HandlePublish
<1>9. CASE HandleFatal(p)
  BY <1>1, <1>9, ArmReplayKeepsTypes
     DEF HandleFatal, HandleDisconnect, SessionDisconnect, ResetTransport, TypeOK, QueueTypes
<1> QED
  BY <1>3, <1>4, <1>5, <1>6, <1>7, <1>8, <1>9 DEF Receive

(* What ack_release leaves is part of what was there, although swap_remove *)
(* reorders it.                                                            *)
LEMMA PubCompQueues ==
  ASSUME TypeOK, IdsUnique, NEW i \in DOMAIN release, release' = SwapRemove(release, i),
         UNCHANGED retained
  PROVE  /\ IdsUnique'
         /\ \A j \in DOMAIN release' : \E k \in DOMAIN release : release'[j] = release[k]
<1> DEFINE old(j) == IF j = i THEN Len(release) ELSE j
<1>1. /\ release \in Seq(ReleaseEntries) /\ Len(release) \in Nat
      /\ DOMAIN release = 1 .. Len(release)
  BY LenProperties DEF TypeOK
<1>2. /\ DOMAIN release' = 1 .. Len(release) - 1
      /\ \A j \in 1 .. Len(release) - 1 :
           release'[j] = IF j = i THEN release[Len(release)] ELSE release[j]
  BY <1>1, SwapRemoveProperties
<1>3. \A j \in DOMAIN release' :
        old(j) \in DOMAIN release /\ release'[j] = release[old(j)]
  BY <1>1, <1>2
<1>4. \A j, k \in DOMAIN release' : old(j) = old(k) => j = k
  BY <1>1, <1>2
<1> HIDE DEF old
<1> QED
  BY <1>3, <1>4 DEF IdsUnique, UniqueIds

(* The control queue is empty whenever something is added to it. *)
LEMMA QueueControlQueues ==
  ASSUME IInv, TypeOK', conn = "live", Quiet, NEW action, NEW id, NEW ok,
         QueueControl(action, id, ok), action = "PingReq" => pingTimeout = "none",
         UNCHANGED <<release, retained, pingTimeout, conn, open>>
  PROVE  QueueInv'
<1>1. /\ control = <<>> /\ open = NoPacket
      /\ \A i \in DOMAIN release : release[i].state = Sent
      /\ \A i \in DOMAIN retained : retained[i].state = Sent
  BY QuietState
<1>2. control' = <<NewControl(action, id, ok)>>
  BY <1>1, SizesAssumption DEF QueueControl
<1>3. /\ Len(control') = 1 /\ DOMAIN control' = {1}
      /\ control'[1].state = Write(0) /\ control'[1].action = action
  BY <1>2 DEF NewControl
<1>4. Write(0) # Sent
  BY DEF Write, Sent
<1>5. Calm(control)' /\ Calm(release)' /\ Calm(retained)'
  BY <1>1, <1>3 DEF Calm
<1>6. OneControl' /\ ControlUnsent' /\ OnePing'
  BY <1>3, <1>4 DEF OneControl, ControlUnsent, OnePing
<1>7. IdsUnique'
  BY DEF IInv, QueueInv, IdsUnique, UniqueIds
<1> QED
  BY <1>1, <1>5, <1>6, <1>7, CalmQueues

(* Acknowledging an inbound PUBLISH or PUBREL keeps QueueInv.              *)
LEMMA AcknowledgeQueues ==
  ASSUME IInv, TypeOK', conn = "live", Quiet,
         NEW action \in {"PubAck", "PubRec", "PubComp"}, NEW id, NEW ok,
         Acknowledge(action, id, ok), UNCHANGED open
  PROVE  QueueInv'
<1>1. CASE Fits(ACK_LEN)
  BY <1>1, QueueControlQueues DEF Acknowledge, timerVars
<1>2. CASE ~Fits(ACK_LEN)
  <2>1. /\ control \in Seq(ControlEntries) /\ release \in Seq(ReleaseEntries)
        /\ retained \in Seq(RetainedEntries) /\ Len(control) <= 1
        /\ UniqueIds(retained, release)
    BY DEF IInv, QueueInv, TypeOK, OneControl, IdsUnique
  <2>2. ArmReplay /\ pingTimeout' = "none" /\ conn' = "dead"
    BY <1>2 DEF Acknowledge, HandleDisconnect, SessionDisconnect, ResetTransport
  <2> QED
    BY <2>1, <2>2, ArmReplayQueues DEF ArmReplay
<1> QED
  BY <1>1, <1>2

(* Forgetting acknowledged requests keeps QueueInv, because input is       *)
(* handled only when everything left has been sent.                        *)
LEMMA RemovalQueues ==
  ASSUME IInv, TypeOK', conn = "live", Quiet, UNCHANGED <<control, pingTimeout, conn, open>>,
         IdsUnique', Calm(release)',
         \A j \in DOMAIN retained' : \E k \in DOMAIN retained : retained'[j] = retained[k]
  PROVE  QueueInv'
<1>1. /\ control = <<>> /\ open = NoPacket
      /\ \A i \in DOMAIN retained : retained[i].state = Sent
  BY QuietState
<1>2. Calm(control)' /\ Calm(retained)'
  BY <1>1 DEF Calm
<1>3. OneControl' /\ ControlUnsent' /\ OnePing'
  BY DEF IInv, QueueInv, OneControl, ControlUnsent, OnePing
<1> QED
  BY <1>1, <1>2, <1>3, CalmQueues

(* All four outcomes of a PUBREC keep QueueInv.                            *)
LEMMA PubRecQueues ==
  ASSUME IInv, TypeOK', conn = "live", Quiet, NEW p, HandlePubRec(p)
  PROVE  QueueInv'
<1> USE DEF queueVars, timerVars
<1>1. /\ control = <<>> /\ open = NoPacket /\ TypeOK /\ IdsUnique
      /\ \A i \in DOMAIN release : release[i].state = Sent
  BY QuietState DEF IInv, QueueInv
<1>2. CASE UNCHANGED <<queueVars, sendQuota, timerVars, conn>>
  BY <1>2, SameQueues DEF HandlePubRec
<1>3. ASSUME NEW i \in DOMAIN retained, retained' = RemoveAt(retained, i),
             UNCHANGED <<control, release, timerVars, conn>>
      PROVE  QueueInv'
  <2>1. IdsUnique' /\ \A j \in DOMAIN retained' : \E k \in DOMAIN retained : retained'[j] = retained[k]
    BY <1>1, <1>3, RemoveRequest DEF IdsUnique
  <2>2. Calm(release)'
    BY <1>1, <1>3 DEF Calm
  <2> QED
    BY <1>3, <2>1, <2>2, RemovalQueues DEF HandlePubRec
<1>4. ASSUME NEW i \in DOMAIN retained, retained[i].id = p.id,
             retained' = RemoveAt(retained, i),
             release' = Append(release, NewRelease(p.id)),
             UNCHANGED <<control, timerVars, conn>>
      PROVE  QueueInv'
  <2>1. /\ UniqueIds(retained', release) /\ \A j \in DOMAIN retained' : retained'[j].id # p.id
        /\ \A j \in DOMAIN retained' : \E k \in DOMAIN retained : retained'[j] = retained[k]
    BY <1>1, <1>4, RemoveRequest
  <2>2. /\ DOMAIN release = 1 .. Len(release) /\ Len(release) \in Nat
    BY <1>1, LenProperties DEF TypeOK
  <2>3. /\ Len(release') = Len(release) + 1 /\ DOMAIN release' = 1 .. Len(release) + 1
        /\ \A j \in DOMAIN release : release'[j] = release[j]
        /\ release'[Len(release) + 1] = NewRelease(p.id)
    <3>1. release' \in Seq(ReleaseEntries) /\ release \in Seq(ReleaseEntries)
      BY <1>1 DEF TypeOK
    <3>2. /\ Len(release') = Len(release) + 1
          /\ \A j \in 1 .. Len(release) : release'[j] = release[j]
          /\ release'[Len(release) + 1] = NewRelease(p.id)
      BY <1>4, <2>2, <3>1
    <3> QED
      BY <2>2, <3>1, <3>2, LenProperties
  <2>4. release'[Len(release) + 1].id = p.id /\ release'[Len(release) + 1].state = Write(0)
    BY <2>3 DEF NewRelease
  <2>5. \A j \in DOMAIN release' : j \in DOMAIN release \/ j = Len(release) + 1
    BY <2>2, <2>3
  <2>6. \A j \in DOMAIN release : release[j].id # p.id
    BY <1>1, <1>4 DEF IdsUnique, UniqueIds
  <2>7. IdsUnique'
    BY <2>1, <2>2, <2>3, <2>4, <2>5, <2>6 DEF IdsUnique, UniqueIds
  <2>8. Calm(release)'
    BY <1>1, <2>3, <2>4, <2>5 DEF Calm
  <2> QED
    BY <1>4, <2>1, <2>7, <2>8, RemovalQueues DEF HandlePubRec
<1>5. ASSUME NEW i \in DOMAIN retained,
             retained' = Rearm(MarkPublishDup(RemoveAt(retained, i))),
             control' = Rearm(control), release' = Rearm(release),
             ResetTransport, conn' = "dead"
      PROVE  QueueInv'
  <2>1. RemoveAt(retained, i) \in Seq(RetainedEntries) /\ UniqueIds(RemoveAt(retained, i), release)
    BY <1>1, RemoveRequest
  <2>2. control \in Seq(ControlEntries) /\ release \in Seq(ReleaseEntries) /\ Len(control) <= 1
    BY DEF IInv, QueueInv, TypeOK, OneControl
  <2> QED
    BY <1>5, <2>1, <2>2, ArmReplayQueues DEF ResetTransport
<1> QED
  BY <1>2, <1>3, <1>4, <1>5 DEF HandlePubRec, FirstMatch

(* handle_packet keeps QueueInv, for every inbound packet.                 *)
LEMMA ReceiveQueues ==
  ASSUME IInv, TypeOK', NEW p \in InPackets, Receive(p)
  PROVE  QueueInv'
<1> USE DEF queueVars, timerVars, linkVars, idVars
<1>1. conn = "live" /\ Quiet /\ TypeOK /\ IdsUnique
  BY DEF Receive, IInv, QueueInv
<1>2. \A i \in DOMAIN release : release[i].state = Sent
  BY <1>1, QuietState
<1>3. CASE HandleAck(p)
  <2>1. CASE retained' = retained
    BY <1>3, <2>1, SameQueues DEF HandleAck
  <2>2. ASSUME NEW i \in DOMAIN retained, retained' = RemoveAt(retained, i)
        PROVE  QueueInv'
    <3>1. IdsUnique' /\ \A j \in DOMAIN retained' : \E k \in DOMAIN retained : retained'[j] = retained[k]
      BY <1>1, <1>3, <2>2, RemoveRequest DEF IdsUnique, HandleAck
    <3>2. Calm(release)'
      BY <1>2, <1>3 DEF Calm, HandleAck
    <3> QED
      BY <1>1, <1>3, <3>1, <3>2, RemovalQueues DEF HandleAck
  <2> QED
    BY <1>3, <2>1, <2>2 DEF HandleAck
<1>4. CASE HandlePubRec(p)
  BY <1>1, <1>4, PubRecQueues
<1>5. CASE HandlePubComp(p)
  <2>1. CASE release' = release
    BY <1>5, <2>1, SameQueues DEF HandlePubComp
  <2>2. ASSUME NEW i \in DOMAIN release, release' = SwapRemove(release, i)
        PROVE  QueueInv'
    <3>1. IdsUnique' /\ \A j \in DOMAIN release' : \E k \in DOMAIN release : release'[j] = release[k]
      BY <1>1, <1>5, <2>2, PubCompQueues DEF HandlePubComp
    <3>2. Calm(release)'
      BY <1>2, <3>1 DEF Calm
    <3> QED
      BY <1>1, <1>5, <3>1, <3>2, RemovalQueues DEF HandlePubComp
  <2> QED
    BY <1>5, <2>1, <2>2 DEF HandlePubComp
<1>6. CASE HandlePingResp(p)
  BY <1>6, SameQueues DEF HandlePingResp
<1>7. CASE HandlePubRel(p)
  BY <1>1, <1>7, AcknowledgeQueues DEF HandlePubRel
<1>8. CASE HandlePublish(p)
  <2>1. CASE p.type = "Publish0"
    BY <1>8, <2>1, SameQueues DEF HandlePublish
  <2>2. CASE p.type = "Publish1"
    BY <1>1, <1>8, <2>2, AcknowledgeQueues DEF HandlePublish
  <2>3. CASE p.type = "Publish2"
    BY <1>1, <1>8, <2>3, AcknowledgeQueues DEF HandlePublish
  <2> QED
    BY <1>8, <2>1, <2>2, <2>3 DEF HandlePublish
<1>9. CASE HandleFatal(p)
  <2>1. /\ control \in Seq(ControlEntries) /\ release \in Seq(ReleaseEntries)
        /\ retained \in Seq(RetainedEntries) /\ Len(control) <= 1
        /\ UniqueIds(retained, release)
    BY DEF IInv, QueueInv, TypeOK, OneControl, IdsUnique
  <2> QED
    BY <1>9, <2>1, ArmReplayQueues
       DEF HandleFatal, HandleDisconnect, SessionDisconnect, ArmReplay, ResetTransport
<1> QED
  BY <1>3, <1>4, <1>5, <1>6, <1>7, <1>8, <1>9 DEF Receive

-----------------------------------------------------------------------------
(* Every step. *)

(* Every step keeps the types.  It needs OneControl for complete_flush and *)
(* IdsUnique for the lookups by id of set_retained_written.                *)
LEMMA TypeStep ==
  ASSUME TypeOK, OneControl, IdsUnique, SetFacts, [Next]_vars
  PROVE  TypeOK'
<1> USE DEF idVars, connectVars, limitVars, timerVars, linkVars, queueVars
<1>0. QueueTypes
  BY DEF TypeOK, QueueTypes
<1>1. CASE ConnectAborts \/ ConnectSent
  <2>1. QueueTypes'
    BY <1>0, <1>1, ArmReplayKeepsTypes DEF ConnectAborts, ConnectSent
  <2>2. connectWorkspace' \in Nat
    BY <1>1, SessionAssumption DEF ConnectAborts, ConnectSent, ConnectLen, TypeOK
  <2>3. open' \in [queue : Queues \cup {"none"}, index : Nat, id : Nat, written : Nat]
    BY <1>1 DEF ConnectAborts, ConnectSent, NoPacket
  <2> QED
    BY ZenonT(30), <1>1, <2>1, <2>2, <2>3
       DEF ConnectAborts, ConnectSent, ResetTransport, TypeOK, QueueTypes
<1>2. CASE ConnectRefused \/ Disconnect \/ TransportFailure \/ PingTimeout
  <2>1. QueueTypes'
    BY <1>0, <1>2, ArmReplayKeepsTypes
       DEF ConnectRefused, Disconnect, TransportFailure, PingTimeout, HandleDisconnect,
           SessionDisconnect
  <2> QED
    BY ZenonT(30), <1>2, <2>1
       DEF ConnectRefused, Disconnect, TransportFailure, PingTimeout, HandleDisconnect,
           SessionDisconnect, ResetTransport, TypeOK, QueueTypes
<1>3. CASE ReceiveConnAck
  BY <1>3, ConnAckKeepsTypes
<1>4. CASE SomeWriteStep
  <2>1. PICK q \in Queues : \E i \in DOMAIN out[q] :
          \E n \in 1 .. PacketLen(q, out[q][i]) : WriteStep(q, i, n)
    BY <1>4 DEF SomeWriteStep
  <2>2. PICK i \in DOMAIN out[q], n \in Nat : WriteStep(q, i, n)
    BY <2>1
  <2> QED
    BY <2>2, WriteStepKeepsTypes
<1>5. CASE FlushBegin \/ PingDue \/ PingExpires
  BY ZenonT(30), <1>5 DEF FlushBegin, PingDue, PingExpires, TypeOK
<1>6. CASE FlushComplete
  BY <1>6, FlushCompleteKeepsTypes
<1>7. CASE QueuePing
  <2>1. control' \in Seq(ControlEntries)
    BY ZenonT(30), <1>7, QueueControlType DEF QueuePing, TypeOK
  <2> QED
    BY <1>7, <2>1 DEF QueuePing, TypeOK
<1>8. CASE SomeReceive
  BY <1>8, ReceiveKeepsTypes DEF SomeReceive
<1>9. CASE SomeRequest
  BY <1>9, RequestKeepsTypes
<1>10. CASE UNCHANGED vars
  BY <1>10 DEF vars, TypeOK
<1> QED
  BY <1>1, <1>2, <1>3, <1>4, <1>5, <1>6, <1>7, <1>8, <1>9, <1>10 DEF Next

(* Every step keeps QueueInv.                                              *)
LEMMA QueueStep ==
  ASSUME IInv, TypeOK', SetFacts, [Next]_vars
  PROVE  QueueInv'
<1> USE DEF idVars, connectVars, limitVars, timerVars, linkVars, queueVars
<1>0. /\ control \in Seq(ControlEntries) /\ release \in Seq(ReleaseEntries)
      /\ retained \in Seq(RetainedEntries) /\ Len(control) <= 1
      /\ UniqueIds(retained, release)
  BY DEF IInv, QueueInv, TypeOK, OneControl, IdsUnique
<1>1. CASE ConnectAborts \/ ConnectSent
  BY <1>0, <1>1, ArmReplayQueues DEF ConnectAborts, ConnectSent, ArmReplay, ResetTransport
<1>2. CASE ConnectRefused \/ Disconnect \/ TransportFailure \/ PingTimeout
  BY <1>0, <1>2, ArmReplayQueues
     DEF ConnectRefused, Disconnect, TransportFailure, PingTimeout, HandleDisconnect,
         SessionDisconnect, ArmReplay, ResetTransport
<1>3. CASE ReceiveConnAck
  <2>1. PICK resumed \in BOOLEAN :
          /\ conn = "handshake" /\ ResetData(resumed) /\ pingTimeout' = "none"
          /\ conn' \in {"none", "live"} /\ UNCHANGED <<flushState, open>>
    BY <1>3 DEF ReceiveConnAck, ConnAckInvalid, ConnAck, ResetTransport
  <2> QED
    BY <2>1, ConnAckQueues
<1>4. CASE SomeWriteStep
  <2>1. PICK q \in Queues : \E i \in DOMAIN out[q] :
          \E n \in 1 .. PacketLen(q, out[q][i]) : WriteStep(q, i, n)
    BY <1>4 DEF SomeWriteStep
  <2>2. PICK i \in DOMAIN out[q], n \in Nat : WriteStep(q, i, n)
    BY <2>1
  <2> QED
    BY <2>2, WriteStepQueues
<1>5. CASE FlushBegin \/ PingDue \/ PingExpires
  BY <1>5, SameQueues DEF FlushBegin, PingDue, PingExpires
<1>6. CASE FlushComplete
  BY <1>6, FlushCompleteQueues
<1>7. CASE QueuePing
  BY ZenonT(30), <1>7, QueueControlQueues DEF QueuePing, ShouldQueuePing
<1>8. CASE SomeReceive
  BY <1>8, ReceiveQueues DEF SomeReceive
<1>9. CASE SomeRequest
  <2>1. PICK len \in Lens, msg \in Msgs :
          \/ \E qos \in 1 .. 2 : KindOf(qos) \in RequestKinds /\ Publish(qos, len, msg)
          \/ \E kind \in RequestKinds \ PublishKinds : Request(kind, len, msg)
          \/ PublishQos0(len)
    BY <1>9 DEF SomeRequest
  <2>2. len \in Nat /\ \A qos : KindOf(qos) \in OpKinds
    BY SessionAssumption DEF KindOf, OpKinds, PublishKinds
  <2>3. ASSUME NEW qos \in 1 .. 2, Publish(qos, len, msg)
        PROVE  QueueInv'
    <3>1. CASE retained' = retained
      BY <2>3, <3>1, SameQueues DEF Publish
    <3>2. ASSUME NEW kind \in OpKinds, CanPublish, Retain(kind, len, msg)
          PROVE  QueueInv'
      BY <2>2, <2>3, <3>2, RetainQueues DEF Publish, CanPublish
    <3> QED
      BY <2>2, <2>3, <3>1, <3>2 DEF Publish
  <2>4. ASSUME NEW kind \in RequestKinds, Request(kind, len, msg)
        PROVE  QueueInv'
    <3>1. kind \in OpKinds
      BY SessionAssumption
    <3>2. CASE retained' = retained
      BY <2>4, <3>2, SameQueues DEF Request
    <3>3. CASE Retain(kind, len, msg)
      BY <2>2, <2>4, <3>1, <3>3, RetainQueues DEF Request
    <3> QED
      BY <2>4, <3>2, <3>3 DEF Request
  <2>5. CASE PublishQos0(len)
    BY <2>5, SameQueues DEF PublishQos0
  <2> QED
    BY <2>1, <2>3, <2>4, <2>5
<1>10. CASE UNCHANGED vars
  BY <1>10, SameQueues DEF vars
<1> QED
  BY <1>1, <1>2, <1>3, <1>4, <1>5, <1>6, <1>7, <1>8, <1>9, <1>10 DEF Next
=============================================================================
