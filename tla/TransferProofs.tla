--------------------------- MODULE TransferProofs ----------------------------
(***************************************************************************)
(* A staging transfer from end to end, for every object, every chunk size  *)
(* and any number of duplicates, lost connections, reruns and faults.      *)
(*                                                                         *)
(* TransferInv is about the one thing the two sides share, the progress of *)
(* the transfer: a status on its way to the host claims nothing the device *)
(* has not reached, and a chunk on its way to the device answers such a    *)
(* status.                                                                 *)
(* CauseInv adds, for an object that fits the device, that nothing speaks  *)
(* of a failure before the first fault.                                    *)
(***************************************************************************)
EXTENDS StagingProofs

(* Leaves are small; the time is that of the context they stand in, and a  *)
(* leaf whose encoding takes too long is tried again.                      *)
USE SMTT(30), ZenonT(20), SMTT(31), SMTT(32)

-----------------------------------------------------------------------------
(* A storage job ends. *)

(* The storage job ends: unless the chunk was the final one, what is stored *)
(* is short of the object.                                                  *)
LEMMA CompletionMoves ==
  ASSUME ServiceInv, NEW success \in BOOLEAN, complete_request(success)
  PROVE  ServiceMoves
<1>1. DeviceInv /\ DeviceInv'
  BY CompletionHonest DEF ServiceInv
<1>2. mqtt \in Mqtts /\ transfer \in Options /\ state \in States
  BY <1>1, TransferOption
<1>3. CASE request = None
  <2>1. UNCHANGED <<mqtt, state, transfer>>
    BY <1>3 DEF complete_request, service
  <2> QED BY <1>1, <2>1, OnlyQueue DEF ServiceInv
<1>4. CASE request # None
  <2>1. /\ Completed(success) /\ transfer # None
        /\ state \in {"Preparing", "Writing"} /\ request \in Requests
    BY <1>1, <1>4 DEF complete_request, DeviceInv, StorageInv, StorageTypes,
                      RequestMatchesWork, Remembers
  <2>2. CASE ~success
    <3>1. ObjectOnly(transfer, "Error") /\ "Storage" \in StatusCodes
      BY DEF ServiceInv, ObjectOnly, StatusCodes
    <3> QED BY <1>1, <2>1, <2>2, <3>1, PublishMoves DEF Completed
  <2>3. CASE success /\ request.kind = "Prepare"
    <3>1. ObjectOnly(transfer, "Ready") /\ "Accepted" \in StatusCodes
      BY <2>1 DEF ServiceInv, ObjectOnly, StatusCodes
    <3> QED BY <1>1, <2>1, <2>3, <3>1, PublishMoves DEF Completed
  <2>4. CASE success /\ request.kind # "Prepare"
    <3>1. /\ request' = None
          /\ transfer' = [transfer EXCEPT !.next_offset =
                IF request.final_chunk THEN transfer.size ELSE request.next_offset]
          /\ state' = IF request.final_chunk THEN "Complete" ELSE "Ready"
          /\ mqtt' = queue(mqtt, IF request.final_chunk THEN "Complete" ELSE "Accepted")
      BY <2>1, <2>4 DEF Completed
    <3>2. transfer \in Transfers
      BY <1>2, <2>1 DEF Options
    <3>3. /\ transfer'.id = transfer.id /\ transfer'.size = transfer.size
          /\ transfer'.fnv1a64 = transfer.fnv1a64
          /\ transfer'.next_offset =
               IF request.final_chunk THEN transfer.size ELSE request.next_offset
      BY <3>1, <3>2 DEF Transfers
    <3>4. state = "Writing" /\ work.kind = "Write" /\ work # None
      BY <1>1, <1>4, <2>1, <2>4 DEF DeviceInv, StorageInv, RequestMatchesWork
    <3>5. /\ transfer.next_offset = stored /\ stored \in Nat /\ stored <= transfer.size
          /\ work.offset = stored /\ work.len \in Nat
          /\ request.next_offset = ChunkEnd(work)
          /\ request.final_chunk <=> request.next_offset = transfer.size
      <4>1. /\ StorageTypes /\ Remembers /\ WritesSequential
            /\ transfer.next_offset <= transfer.size
        BY ZenonT(30), <1>1, <2>1 DEF DeviceInv, StorageInv
      <4> QED BY <2>1, <3>4, <4>1, ConfigAssumption
              DEF StorageTypes, Remembers, WritesSequential, Works
    <3>6. ~request.final_chunk => request.next_offset < transfer.size
      BY <3>2, <3>5, OffsetNat DEF ChunkEnd
    <3>7. stored <= ChunkEnd(work)
      BY <3>2, <3>5, OffsetNat DEF ChunkEnd
    <3>8. Further(transfer, state, transfer', state')
      <4>1. transfer' # None
        BY <1>1, <2>1, <3>1, TransferOption, NoneAssumption, <3>2, <3>3
           DEF DeviceInv, StorageInv, Remembers
      <4> QED BY <3>3, <3>4, <3>5, <3>7, <4>1 DEF Further
    <3>9. ObjectOnly(transfer', state')
      BY <2>1, <3>1, <3>3, <3>6 DEF ServiceInv, ObjectOnly
    <3>10. Latest(mqtt', state')
      <4>1. CASE request.final_chunk
        BY <1>2, <3>1, <4>1, LatestComplete DEF ServiceInv
      <4>2. CASE ~request.final_chunk
        <5>1. Latest(queue(mqtt, "Accepted"), state)
          BY <1>2, <3>4, LatestQueue DEF ServiceInv, Actions, StatusCodes
        <5> QED BY <3>1, <4>2, <5>1, LatestPhase
      <4> QED BY <4>1, <4>2
    <3>11. mqtt'.inflight = mqtt.inflight
      BY <1>2, <3>1, QueueInflight DEF Actions, StatusCodes
    <3>12. transfer' \in Options
      BY <1>1 DEF DeviceInv, StorageInv, StorageTypes, Options
    <3>13. InflightGood(mqtt', transfer', state')
      BY ZenonT(30), <1>2, <3>8, <3>11, <3>12, StatusStays DEF ServiceInv, InflightGood
    <3> QED BY ZenonT(30), <1>1, <3>8, <3>9, <3>10, <3>13
            DEF ServiceMoves, ServiceInv, Latest, InflightGood, ObjectOnly
  <2> QED BY <2>2, <2>3, <2>4
<1> QED BY <1>3, <1>4

-----------------------------------------------------------------------------
(* What the broker holds. *)

Publishes ==
  {[kind |-> "manifest", manifest |-> Object]}
    \cup {[kind |-> "chunk", chunk |-> ChunkAt(offset)] : offset \in Offsets}

(* The host answers a status, so a chunk never asks the device to skip one. *)
GoodPublish(p, t) ==
  \/ p = [kind |-> "manifest", manifest |-> Object]
  \/ \E offset \in Offsets :
       /\ CanSend /\ offset < Object.size
       /\ t # None /\ offset <= t.next_offset
       /\ p = [kind |-> "chunk", chunk |-> ChunkAt(offset)]

Holds(statuses, publishes, t, phase) ==
  /\ statuses \in Seq(Statuses)
  /\ publishes \in Seq(Publishes)
  /\ \A i \in 1..Len(statuses) : GoodStatus(statuses[i], t, phase)
  /\ \A i \in 1..Len(publishes) : GoodPublish(publishes[i], t)

(* A good publication is a publication. *)
LEMMA PublishType ==
  ASSUME NEW p, NEW t, GoodPublish(p, t)
  PROVE  p \in Publishes
BY DEF GoodPublish, Publishes

(* What the broker holds stays good while the service moves on. *)
LEMMA HoldsStays ==
  ASSUME NEW hs, NEW ps, NEW t \in Options, NEW u \in Options, NEW phase, NEW next,
         Holds(hs, ps, t, phase), Further(t, phase, u, next)
  PROVE  Holds(hs, ps, u, next)
<1>1. \A i \in 1..Len(hs) : GoodStatus(hs[i], u, next)
  BY StatusStays DEF Holds
<1>2. ASSUME NEW i \in 1..Len(ps) PROVE GoodPublish(ps[i], u)
  <2>1. GoodPublish(ps[i], t)
    BY DEF Holds
  <2>2. \A offset \in Offsets : offset \in Nat
    BY InputAssumption DEF Offsets
  <2> QED BY <2>1, <2>2, OffsetNat DEF GoodPublish, Further, Options
<1> QED BY <1>1, <1>2 DEF Holds

(* The broker takes a good status. *)
LEMMA HoldsStatus ==
  ASSUME NEW hs, NEW ps, NEW t, NEW phase, NEW s,
         Holds(hs, ps, t, phase), GoodStatus(s, t, phase)
  PROVE  Holds(Append(hs, s), ps, t, phase)
<1>1. s \in Statuses /\ hs \in Seq(Statuses)
  BY DEF GoodStatus, Holds
<1>2. /\ Append(hs, s) \in Seq(Statuses)
      /\ \A i \in 1..Len(Append(hs, s)) :
           Append(hs, s)[i] = s \/ (i \in 1..Len(hs) /\ Append(hs, s)[i] = hs[i])
  BY <1>1
<1> QED BY <1>2 DEF Holds

(* The broker takes a good publication. *)
LEMMA HoldsPublish ==
  ASSUME NEW hs, NEW ps, NEW t, NEW phase, NEW p,
         Holds(hs, ps, t, phase), GoodPublish(p, t)
  PROVE  Holds(hs, Append(ps, p), t, phase)
<1>1. p \in Publishes /\ ps \in Seq(Publishes)
  BY PublishType DEF Holds
<1>2. /\ Append(ps, p) \in Seq(Publishes)
      /\ \A i \in 1..Len(Append(ps, p)) :
           Append(ps, p)[i] = p \/ (i \in 1..Len(ps) /\ Append(ps, p)[i] = ps[i])
  BY <1>1
<1> QED BY <1>2 DEF Holds

(* The broker delivers or drops what it holds. *)
LEMMA HoldsHeads ==
  ASSUME NEW hs, NEW ps, NEW t, NEW phase, Holds(hs, ps, t, phase)
  PROVE  /\ Holds(<<>>, <<>>, t, phase)
         /\ Holds(<<>>, ps, t, phase) /\ Holds(hs, <<>>, t, phase)
         /\ hs # <<>> => /\ GoodStatus(Head(hs), t, phase)
                         /\ Holds(Tail(hs), ps, t, phase)
         /\ ps # <<>> => /\ GoodPublish(Head(ps), t)
                         /\ Holds(hs, Tail(ps), t, phase)
<1>1. hs \in Seq(Statuses) /\ ps \in Seq(Publishes)
  BY DEF Holds
<1>2. \A S : <<>> \in Seq(S) /\ Len(<<>>) = 0
  OBVIOUS
<1>3. hs # <<>> => /\ Head(hs) = hs[1] /\ 1 \in 1..Len(hs) /\ Tail(hs) \in Seq(Statuses)
                   /\ \A i \in 1..Len(Tail(hs)) :
                        i + 1 \in 1..Len(hs) /\ Tail(hs)[i] = hs[i + 1]
  BY <1>1
<1>4. ps # <<>> => /\ Head(ps) = ps[1] /\ 1 \in 1..Len(ps) /\ Tail(ps) \in Seq(Publishes)
                   /\ \A i \in 1..Len(Tail(ps)) :
                        i + 1 \in 1..Len(ps) /\ Tail(ps)[i] = ps[i + 1]
  BY <1>1
<1>5. Holds(<<>>, <<>>, t, phase) /\ Holds(<<>>, ps, t, phase) /\ Holds(hs, <<>>, t, phase)
  BY <1>2 DEF Holds
<1>6. hs # <<>> => /\ GoodStatus(Head(hs), t, phase)
                   /\ Holds(Tail(hs), ps, t, phase)
  BY <1>3 DEF Holds
<1>7. ps # <<>> => /\ GoodPublish(Head(ps), t)
                   /\ Holds(hs, Tail(ps), t, phase)
  BY <1>4 DEF Holds
<1> QED BY <1>5, <1>6, <1>7


-----------------------------------------------------------------------------
(* The invariant of the transfer. *)

TransferTypes ==
  /\ host \in {"start", "subscribed", "waiting", "done", "failed", "timeout",
               "chaotic"}
  /\ session \in {"none", "open", "subscribed"}
  /\ budget \in [dup : Nat, loss : Nat, rerun : Nat, fault : 0..FAULTS]

TransferInv ==
  /\ DeviceInv
  /\ TransferTypes
  /\ ~Commanded => toHost = <<>> /\ toDevice = <<>>
  /\ Commanded => /\ ServiceInv
                  /\ Holds(toHost, toDevice, transfer, state)
                  /\ host = "done" => state = "Complete"

(* The command starts with an idle device and an empty broker. *)
LEMMA TransferInit == TInit => TransferInv
<1> SUFFICES ASSUME TInit PROVE TransferInv
  OBVIOUS
<1>1. DeviceInv
  BY DeviceInit DEF TInit
<1>2. budget \in [dup : Nat, loss : Nat, rerun : Nat, fault : 0..FAULTS]
  BY TransferAssumption DEF TInit
<1>3. TransferTypes /\ host # "done"
  BY <1>2, TransferAssumption DEF TInit, TransferTypes
<1>4. /\ ObjectOnly(transfer, state)
      /\ Latest(mqtt, state) /\ InflightGood(mqtt, transfer, state)
  BY NoneAssumption
     DEF TInit, Init, NewMqtt, ObjectOnly, Latest, SubscribeQueued, Subscribe,
         InflightGood, Actions
<1>5. Holds(toHost, toDevice, transfer, state)
  BY DEF TInit, Holds
<1> QED BY <1>1, <1>3, <1>4, <1>5 DEF TInit, TransferInv, ServiceInv

(* A step of the device under the host command. *)
LEMMA DeviceSide ==
  ASSUME TransferInv, Commanded, ServiceMoves, TransferTypes', host' = host,
         Holds(toHost', toDevice', transfer, state)
  PROVE  TransferInv'
<1>1. transfer \in Options /\ transfer' \in Options
  BY TransferOption
     DEF TransferInv, ServiceMoves, ServiceInv, DeviceInv, StorageInv, StorageTypes, Options
<1>2. Holds(toHost', toDevice', transfer', state')
  BY <1>1, HoldsStays DEF ServiceMoves
<1>3. host' = "done" => state' = "Complete"
  BY DEF TransferInv, ServiceMoves, Further
<1>4. Commanded'
  BY DEF Commanded
<1>5. ServiceInv' /\ DeviceInv'
  BY DEF ServiceMoves, ServiceInv
<1> QED BY <1>2, <1>3, <1>4, <1>5 DEF TransferInv, Holds

(* A step of the host command. *)
LEMMA HostSide ==
  ASSUME TransferInv, Commanded, UNCHANGED vars, TransferTypes', Commanded',
         Holds(toHost', toDevice', transfer, state),
         host' = "done" => state = "Complete"
  PROVE  TransferInv'
<1>1. ServiceInv
  BY DEF TransferInv
<1>2. DeviceInv'
  BY <1>1, DevicePreserves DEF ServiceInv
<1>3. ServiceInv' /\ UNCHANGED <<transfer, state>>
  BY <1>1, <1>2 DEF ServiceInv, vars, ObjectOnly, Latest, InflightGood
<1> QED BY <1>2, <1>3 DEF TransferInv, Holds

(* What a bound allows. *)
LEMMA SpendType ==
  ASSUME TransferTypes, NEW kind \in {"dup", "loss", "rerun", "fault"}, Spend(kind)
  PROVE  /\ budget' \in [dup : Nat, loss : Nat, rerun : Nat, fault : 0..FAULTS]
         /\ budget'.fault <= budget.fault
         /\ kind = "fault" => budget'.fault < FAULTS
BY TransferAssumption DEF TransferTypes, Spend

(* What the device's Op delivers is good. *)
LEMMA DeliveredHolds ==
  ASSUME TransferInv, Commanded, mqtt.inflight # None, Delivered
  PROVE  /\ Holds(toHost', toDevice', transfer, state)
         /\ session' \in {"none", "open", "subscribed"}
<1>1. Holds(toHost, toDevice, transfer, state)
  BY DEF TransferInv
<1>2. mqtt.inflight.action # Subscribe => GoodStatus(mqtt.inflight.status, transfer, state)
  BY DEF TransferInv, ServiceInv, InflightGood
<1>3. mqtt.inflight.action # Subscribe =>
        Holds(Append(toHost, mqtt.inflight.status), toDevice, transfer, state)
  BY <1>1, <1>2, HoldsStatus
<1> QED BY ZenonT(30), <1>1, <1>3 DEF Delivered, ForHost, TransferInv, TransferTypes

(* handle of a good publication moves the service on. *)
LEMMA PublishMovesService ==
  ASSUME ServiceInv, NEW p, GoodPublish(p, transfer), HandlePublish(p)
  PROVE  ServiceMoves
<1>1. CASE p = [kind |-> "manifest", manifest |-> Object]
  <2>1. p.kind = "manifest" /\ p.manifest = Object
    BY <1>1
  <2> QED BY <2>1, ManifestMoves DEF HandlePublish
<1>2. ASSUME NEW offset \in Offsets, CanSend, offset < Object.size,
             p = [kind |-> "chunk", chunk |-> ChunkAt(offset)]
      PROVE  ServiceMoves
  <2>1. p.kind = "chunk" /\ p.chunk = ChunkAt(offset)
    BY <1>2
  <2>2. HandleChunk(ChunkAt(offset))
    BY <2>1 DEF HandlePublish
  <2>3. ChunkAt(offset) \in [id : {Object.id}, offset : {offset},
                             len : 1..MAX_CHUNK_SIZE, padded : {TRUE}]
    BY ZenonT(30), <1>2, ChunkFits
  <2>4. WellFormed(ChunkAt(offset))
    BY <2>3, ConfigAssumption DEF WellFormed, Offsets
  <2> QED BY <2>2, <2>4, ChunkMoves
<1> QED BY <1>1, <1>2 DEF GoodPublish


(* Every step of the device keeps TransferInv. *)
LEMMA DevicePart ==
  ASSUME TransferInv, Commanded, Device
  PROVE  TransferInv'
<1>1. /\ ServiceInv /\ DeviceInv /\ TransferTypes
      /\ Holds(toHost, toDevice, transfer, state)
  BY DEF TransferInv
<1>2. ASSUME NEW event \in {"Connected", "Reconnected"}, DeviceConnects(event)
      PROVE  TransferInv'
  <2>1. ServiceMoves
    BY <1>1, <1>2, ConnectionMoves DEF DeviceConnects
  <2>2. Holds(toHost', toDevice', transfer, state)
    BY <1>1, <1>2, HoldsHeads DEF DeviceConnects
  <2>3. TransferTypes' /\ host' = host
    BY <1>1, <1>2 DEF DeviceConnects, TransferTypes
  <2> QED BY <2>1, <2>2, <2>3, DeviceSide
<1>3. ASSUME ServiceMoves, UNCHANGED <<host, net>>,
             budget' = budget \/ \E kind \in {"dup", "loss", "rerun", "fault"} : Spend(kind)
      PROVE  TransferInv'
  <2>1. TransferTypes'
    BY <1>1, <1>3, SpendType DEF TransferTypes, net
  <2> QED BY <1>1, <1>3, <2>1, DeviceSide DEF net
<1>4. CASE DeviceDisconnects
  BY <1>1, <1>3, <1>4, ConnectionMoves DEF DeviceDisconnects
<1>5. CASE DeviceSends
  <2>1. ServiceMoves /\ mqtt.inflight # None
    BY <1>1, <1>5, ConnectionMoves DEF DeviceSends, OpCompletes
  <2>2. /\ Holds(toHost', toDevice', transfer, state)
        /\ session' \in {"none", "open", "subscribed"}
    BY <1>5, <2>1, DeliveredHolds DEF DeviceSends
  <2>3. TransferTypes' /\ host' = host
    BY <1>1, <1>5, <2>2 DEF DeviceSends, TransferTypes
  <2> QED BY <2>1, <2>2, <2>3, DeviceSide
<1>6. CASE DeviceSendsUnacked
  <2>1. ServiceMoves /\ mqtt.inflight # None
    BY <1>1, <1>6, ConnectionMoves DEF DeviceSendsUnacked
  <2>2. /\ Holds(toHost', toDevice', transfer, state)
        /\ session' \in {"none", "open", "subscribed"}
    BY <1>6, <2>1, DeliveredHolds DEF DeviceSendsUnacked
  <2>3. TransferTypes' /\ host' = host
    BY <1>1, <1>6, <2>2, SpendType DEF DeviceSendsUnacked, TransferTypes
  <2> QED BY <2>1, <2>2, <2>3, DeviceSide
<1>7. CASE DeviceStep
  BY <1>1, <1>3, <1>7, StepQuiet, StepStarts DEF DeviceStep
<1>8. CASE DeviceStarts
  BY <1>1, <1>3, <1>8, StartupMoves DEF DeviceStarts
<1>9. CASE DeviceStepCancelled
  <2>1. StepNoStart
    BY <1>9 DEF DeviceStepCancelled, StepNoStart, Stepping
  <2>2. ServiceMoves
    BY <1>1, <2>1, StepQuiet
  <2>3. mqtt' = Retired(Measured) /\ mqtt'.pending # None
    BY <1>9 DEF DeviceStepCancelled
  <2>4. mqtt'.pending # Subscribe => mqtt'.pending \in StatusCodes
    BY <1>1, <2>3, PendingGood DEF Mqtts, Actions
  <2>5. mqtt'.pending # Subscribe =>
          GoodStatus(status_with(mqtt'.pending), transfer, state)
    BY <1>1, <2>3, <2>4, PendingGood
  <2>6. Holds(toHost', toDevice', transfer, state)
    <3>1. CASE mqtt'.pending = Subscribe
      BY <1>1, <1>9, <3>1 DEF DeviceStepCancelled
    <3>2. CASE mqtt'.pending # Subscribe
      BY ZenonT(30), <1>1, <1>9, <2>5, <3>2, HoldsStatus DEF DeviceStepCancelled, ForHost
    <3> QED BY <3>1, <3>2
  <2>7. TransferTypes' /\ host' = host
    BY <1>1, <1>9, SpendType DEF DeviceStepCancelled, TransferTypes
  <2> QED BY <2>2, <2>6, <2>7, DeviceSide
<1>10. CASE DeviceReceives
  <2>1. GoodPublish(Head(toDevice), transfer)
    BY ZenonT(30), <1>1, <1>10, HoldsHeads DEF DeviceReceives
  <2>2. ServiceMoves
    BY <1>1, <1>10, <2>1, PublishMovesService DEF DeviceReceives
  <2>3. Holds(toHost', toDevice', transfer, state)
    BY <1>1, <1>10, HoldsHeads DEF DeviceReceives
  <2>4. TransferTypes' /\ host' = host
    BY <1>1, <1>10 DEF DeviceReceives, TransferTypes
  <2> QED BY <2>2, <2>3, <2>4, DeviceSide
<1>11. CASE DeviceReceivesTwice
  <2>1. GoodPublish(Head(toDevice), transfer)
    BY <1>1, <1>11, HoldsHeads DEF DeviceReceivesTwice
  <2> QED BY <1>1, <1>3, <1>11, <2>1, PublishMovesService DEF DeviceReceivesTwice
<1>12. CASE StorageSucceeds \/ StorageFails
  BY ZenonT(30), <1>1, <1>3, <1>12, CompletionMoves DEF StorageSucceeds, StorageFails
<1>13. CASE DeviceAborts
  BY <1>1, <1>3, <1>13, AbortMoves DEF DeviceAborts
<1> QED BY <1>2, <1>4, <1>5, <1>6, <1>7, <1>8, <1>9, <1>10, <1>11, <1>12, <1>13 DEF Device

(* What the host sends in answer to a status. *)
LEMMA ReactHolds ==
  ASSUME TransferInv, Commanded, toHost # <<>>, Reacts(Head(toHost)),
         toHost' = Tail(toHost), host = "waiting"
  PROVE  /\ Holds(toHost', toDevice', transfer, state)
         /\ host' \in {"waiting", "failed", "done"}
         /\ host' = "done" => state = "Complete"
<1> DEFINE s == Head(toHost)
<1>1. GoodStatus(s, transfer, state) /\ Holds(Tail(toHost), toDevice, transfer, state)
  BY HoldsHeads DEF TransferInv
<1> HIDE DEF s
<1>2. Reacts(s)
  BY DEF s
<1>3. CASE toDevice' = toDevice
  BY ZenonT(30), <1>1, <1>2, <1>3 DEF Reacts, GoodStatus
<1>4. CASE /\ ~Ignores(s) /\ ~Fails(s) /\ s.code # "Complete" /\ ~NothingToSend(s)
           /\ toDevice' = ForDevice([kind |-> "chunk", chunk |-> ChunkAt(s.next_offset)])
           /\ host' = host
  <2>1. s.id # None /\ Matches(s) /\ ~Raises(s)
    BY <1>4, TransferAssumption DEF Ignores, Fails, Matches
  <2>2. s.next_offset \in Offsets
    BY <1>1 DEF GoodStatus, Statuses
  <2>3. CanSend
    BY <1>4 DEF NothingToSend, CanSend
  <2>4. GoodPublish([kind |-> "chunk", chunk |-> ChunkAt(s.next_offset)], transfer)
    BY ZenonT(30), <1>1, <1>4, <2>1, <2>2, <2>3 DEF GoodStatus, GoodPublish
  <2> QED BY <1>1, <1>4, <2>4, HoldsPublish DEF ForDevice
<1> QED BY <1>2, <1>3, <1>4 DEF Reacts

(* Every step of the host command keeps TransferInv. *)
LEMMA HostPart == TransferInv /\ Host => TransferInv'
<1> SUFFICES ASSUME TransferInv, Host PROVE TransferInv'
  OBVIOUS
<1>1. Commanded
  BY DEF Host, HostSubscribes, HostPublishesManifest, HostReceives, HostTimesOut,
         HostReruns, Commanded
<1>2. TransferTypes /\ Holds(toHost, toDevice, transfer, state)
  BY <1>1 DEF TransferInv
<1>3. CASE HostSubscribes \/ HostTimesOut
  BY <1>1, <1>2, <1>3, HostSide
     DEF HostSubscribes, HostTimesOut, TransferTypes, Commanded, net
<1>4. CASE HostPublishesManifest
  <2>1. GoodPublish([kind |-> "manifest", manifest |-> Object], transfer)
    BY DEF GoodPublish
  <2>2. Holds(toHost', toDevice', transfer, state)
    BY <1>2, <1>4, <2>1, HoldsPublish DEF HostPublishesManifest, ForDevice
  <2>3. TransferTypes' /\ Commanded' /\ host' = "waiting" /\ UNCHANGED vars
    BY <1>2, <1>4 DEF HostPublishesManifest, TransferTypes, Commanded
  <2> QED BY <1>1, <2>2, <2>3, HostSide
<1>5. CASE HostReceives
  <2>1. /\ Holds(toHost', toDevice', transfer, state)
        /\ host' \in {"waiting", "failed", "done"}
        /\ host' = "done" => state = "Complete"
    BY <1>1, <1>5, ReactHolds DEF HostReceives
  <2>2. TransferTypes' /\ Commanded' /\ UNCHANGED vars
    BY <1>2, <1>5, <2>1 DEF HostReceives, TransferTypes, Commanded
  <2> QED BY <1>1, <2>1, <2>2, HostSide
<1>6. CASE HostReruns
  <2>1. Holds(toHost', toDevice', transfer, state)
    BY <1>2, <1>6, HoldsHeads DEF HostReruns
  <2>2. TransferTypes' /\ Commanded' /\ host' = "start" /\ UNCHANGED vars
    BY <1>2, <1>6, SpendType DEF HostReruns, TransferTypes, Commanded
  <2> QED BY <1>1, <2>1, <2>2, HostSide
<1> QED BY <1>3, <1>4, <1>5, <1>6 DEF Host

(* Every step of the system keeps TransferInv. *)
LEMMA TransferStep == TransferInv /\ [TNext]_sysVars => TransferInv'
<1> SUFFICES ASSUME TransferInv, [TNext]_sysVars PROVE TransferInv'
  OBVIOUS
<1>1. CASE ~Commanded /\ Next /\ UNCHANGED <<host, net, budget>>
  <2>1. DeviceInv'
    BY <1>1, DevicePreserves DEF TransferInv
  <2> QED BY <1>1, <2>1 DEF TransferInv, TransferTypes, Commanded, net
<1>2. CASE UNCHANGED sysVars
  <2>1. DeviceInv'
    BY <1>2, DevicePreserves DEF TransferInv, sysVars
  <2>2. UNCHANGED <<host, toHost, toDevice, session, budget, mqtt, transfer, state>>
    BY <1>2 DEF sysVars, vars, net
  <2>3. Commanded => ServiceInv'
    BY <2>1, <2>2 DEF TransferInv, ServiceInv, ObjectOnly, Latest, InflightGood
  <2> QED BY <2>1, <2>2, <2>3 DEF TransferInv, TransferTypes, Commanded, Holds
<1> QED BY <1>1, <1>2, DevicePart, HostPart DEF TNext


-----------------------------------------------------------------------------
(* Failures. *)

(* What the staged object must satisfy: it is not empty, its padded size    *)
(* fits the storage, the host's chunk size holds a write, and the session   *)
(* can receive a full chunk.                                                *)
ObjectFits ==
  /\ Object.size > 0
  /\ Object.size + ((-Object.size) % WRITE_SIZE) <= CAPACITY
  /\ CanSend
  /\ RxBytes[Object.id] <= RX_SIZE

(* Neither the service nor anything it queued speaks of a failure. *)
Calm(m, phase) ==
  /\ phase # "Error"
  /\ m.pending \notin ErrorCodes /\ m.startup_publish \notin ErrorCodes
  /\ m.inflight # None /\ m.inflight.action # Subscribe =>
       ~Raises(m.inflight.status)

KeepsRx(m, n) ==
  /\ m.max_rx_packet_size = RX_SIZE => n.max_rx_packet_size = RX_SIZE
  /\ n.inflight # None => m.inflight # None \/ n.max_rx_packet_size = RX_SIZE

Faulted == budget.fault < FAULTS

(* Before the first fault everything is calm; and the device hears from the *)
(* host only after its first step has measured the session.                 *)
CauseInv ==
  Commanded =>
    /\ ~Faulted => /\ Calm(mqtt, state) /\ host # "failed"
                   /\ \A i \in 1..Len(toHost) : ~Raises(toHost[i])
    /\ toDevice # <<>> => session = "subscribed"
    /\ session = "subscribed" \/ mqtt.inflight # None =>
         mqtt.max_rx_packet_size = RX_SIZE

(* queue of anything but an error adds no error. *)
LEMMA CalmQueue ==
  ASSUME NEW m \in Mqtts, NEW action \in Actions
  PROVE  /\ queue(m, action).max_rx_packet_size = m.max_rx_packet_size
         /\ \A phase : Calm(m, phase) /\ action \notin ErrorCodes =>
                         Calm(queue(m, action), phase)
<1>1. CASE SubscribeQueued(m) /\ action # Subscribe
  BY <1>1 DEF queue, Calm, Mqtts
<1>2. CASE ~SubscribeQueued(m)
  BY <1>2 DEF queue, Calm, Mqtts
<1> QED BY <1>1, <1>2 DEF queue

(* A finished Op adds no error. *)
LEMMA CalmRetired ==
  ASSUME NEW m \in Mqtts, NEW phase
  PROVE  /\ Retired(m).max_rx_packet_size = m.max_rx_packet_size
         /\ Calm(m, phase) => Calm(Retired(m), phase)
<1> DEFINE taken == [m EXCEPT !.inflight = None]
           up == [taken EXCEPT !.subscribed = TRUE, !.startup_publish = None]
<1>1. /\ taken \in Mqtts /\ taken.inflight = None /\ taken.pending = m.pending
      /\ taken.startup_publish = m.startup_publish
      /\ taken.max_rx_packet_size = m.max_rx_packet_size
  BY DEF Mqtts
<1>2. /\ up \in Mqtts /\ up.inflight = None /\ up.pending = m.pending
      /\ up.startup_publish = None
      /\ up.max_rx_packet_size = m.max_rx_packet_size
  <2> HIDE DEF taken
  <2> QED BY ZenonT(30), <1>1 DEF Mqtts
<1>3. Retired(m) = IF m.inflight = None \/ m.inflight.action # Subscribe THEN taken
                   ELSE IF m.startup_publish = None THEN up
                   ELSE queue(up, m.startup_publish)
  BY DEF Retired
<1> HIDE DEF taken, up
<1>4. None \notin ErrorCodes
  BY NoneAssumption DEF ErrorCodes, Actions, StatusCodes
<1>5. Calm(m, phase) => Calm(taken, phase) /\ Calm(up, phase)
  BY <1>1, <1>2, <1>4 DEF Calm
<1>6. m.startup_publish # None => m.startup_publish \in Actions
  BY DEF Mqtts, Actions
<1>7. m.startup_publish # None =>
        /\ queue(up, m.startup_publish).max_rx_packet_size = m.max_rx_packet_size
        /\ Calm(m, phase) => Calm(queue(up, m.startup_publish), phase)
  <2>1. Calm(m, phase) => m.startup_publish \notin ErrorCodes
    BY DEF Calm
  <2> QED BY <1>2, <1>5, <1>6, <2>1, CalmQueue
<1> QED BY <1>1, <1>2, <1>3, <1>5, <1>7

(* Steps that leave the service's state alone. *)
Undisturbed ==
  /\ KeepsRx(mqtt, mqtt')
  /\ Calm(mqtt, state) => Calm(mqtt', state')

(* Connects, disconnects and completed Ops raise no error. *)
LEMMA ConnectionCalm ==
  ASSUME DeviceInv,
         \/ \E event \in {"Connected", "Reconnected"} : Connect(event)
         \/ Disconnect \/ OpCompletes
  PROVE  Undisturbed
<1>1. mqtt \in Mqtts
  BY TransferOption
<1>2. ASSUME mqtt.inflight # None, NEW op, mqtt' = [mqtt EXCEPT !.inflight.op = op],
             state' = state
      PROVE  Undisturbed
  <2>1. mqtt.inflight \in Inflights
    BY <1>1, <1>2 DEF Mqtts
  <2>2. mqtt'.inflight = [mqtt.inflight EXCEPT !.op = op]
    BY <1>1, <1>2 DEF Mqtts
  <2>3. /\ mqtt'.inflight.action = mqtt.inflight.action
        /\ mqtt'.inflight.status = mqtt.inflight.status
    BY <2>1, <2>2 DEF Inflights
  <2>4. /\ mqtt'.pending = mqtt.pending /\ mqtt'.startup_publish = mqtt.startup_publish
        /\ mqtt'.max_rx_packet_size = mqtt.max_rx_packet_size
    BY <1>1, <1>2 DEF Mqtts
  <2> QED BY <1>2, <2>3, <2>4 DEF Undisturbed, Calm, KeepsRx
<1>3. CASE mqtt' = mqtt /\ state' = state
  BY <1>3 DEF Undisturbed, Calm, KeepsRx
<1> QED BY <1>2, <1>3 DEF Connect, Disconnect, OpCompletes, service

(* begin_startup repeats an error, it raises none. *)
LEMMA StartupCalm == DeviceInv /\ begin_startup => Undisturbed
<1> SUFFICES ASSUME DeviceInv, begin_startup PROVE Undisturbed
  OBVIOUS
<1> DEFINE m == IF conn = "Connected"
                THEN [mqtt EXCEPT !.inflight = None, !.subscribed = FALSE]
                ELSE mqtt
           idle == [m EXCEPT !.startup_publish = None]
           replay == [m EXCEPT !.startup_publish = replay_status]
<1>1. mqtt \in Mqtts /\ state \in States
  BY TransferOption
<1>2. /\ m \in Mqtts /\ m.pending = mqtt.pending
      /\ m.inflight \in {None, mqtt.inflight}
      /\ m.max_rx_packet_size = mqtt.max_rx_packet_size
  BY ZenonT(30), <1>1 DEF Mqtts
<1>3. mqtt' = IF ~m.subscribed THEN queue(replay, Subscribe)
              ELSE IF replay_status = None THEN idle
              ELSE queue(idle, replay_status)
  BY DEF begin_startup
<1> HIDE DEF m
<1>4. /\ idle \in Mqtts /\ idle.pending = m.pending /\ idle.inflight = m.inflight
      /\ idle.startup_publish = None
      /\ idle.max_rx_packet_size = m.max_rx_packet_size
  BY <1>2 DEF Mqtts
<1>5. /\ replay \in Mqtts /\ replay.pending = m.pending /\ replay.inflight = m.inflight
      /\ replay.startup_publish = replay_status
      /\ replay.max_rx_packet_size = m.max_rx_packet_size
  BY <1>1, <1>2, ReplayCode DEF Mqtts
<1> HIDE DEF idle, replay
<1>6. None \notin ErrorCodes /\ Subscribe \notin ErrorCodes /\ Subscribe \in Actions
      /\ StatusCodes \subseteq Actions
  BY NoneAssumption DEF ErrorCodes, Actions, StatusCodes, Subscribe
<1>7. state # "Error" => replay_status \notin ErrorCodes
  BY <1>1, <1>6 DEF replay_status, current_code, ErrorCodes, States
<1>8. Calm(mqtt, state) => Calm(idle, state) /\ Calm(replay, state)
  BY <1>2, <1>4, <1>5, <1>6, <1>7 DEF Calm
<1>9. Calm(mqtt, state) => Calm(mqtt', state)
  <2>1. Calm(mqtt, state) => Calm(queue(replay, Subscribe), state)
    BY <1>5, <1>6, <1>8, CalmQueue
  <2>2. Calm(mqtt, state) /\ replay_status # None => Calm(queue(idle, replay_status), state)
    <3>1. Calm(mqtt, state) => state # "Error"
      BY DEF Calm
    <3> QED BY <1>4, <1>6, <1>7, <1>8, <3>1, CalmQueue, ReplayCode
  <2> QED BY <1>3, <1>8, <2>1, <2>2
<1>10. /\ mqtt'.max_rx_packet_size = mqtt.max_rx_packet_size
       /\ mqtt'.inflight \in {None, mqtt.inflight}
  BY ZenonT(30), <1>2, <1>3, <1>4, <1>5, <1>6, CalmQueue, QueueInflight, ReplayCode
<1> QED BY <1>9, <1>10 DEF begin_startup, Undisturbed, KeepsRx, Calm

(* step raises no error. *)
LEMMA StepCalm ==
  ASSUME DeviceInv, StepNoStart \/ StepStart
  PROVE  Undisturbed
<1> DEFINE m == Retired(Measured)
<1>1. mqtt \in Mqtts
  BY TransferOption
<1>2. /\ Measured \in Mqtts /\ Measured.max_rx_packet_size = RX_SIZE
      /\ Calm(mqtt, state) => Calm(Measured, state)
  BY <1>1 DEF Measured, Mqtts, Calm
<1>3. /\ m \in Mqtts /\ m.max_rx_packet_size = RX_SIZE
      /\ Calm(mqtt, state) => Calm(m, state)
  <2>1. m \in Mqtts
    BY ZenonT(30), MeasuredHonest, RetiredHonest DEF DeviceInv, Honest
  <2> QED BY <1>2, <2>1, CalmRetired
<1>4. CASE StepNoStart
  BY <1>2, <1>3, <1>4 DEF StepNoStart, Undisturbed, KeepsRx, Calm
<1>5. CASE StepStart
  <2> DEFINE status == IF m.pending = Subscribe THEN None ELSE status_with(m.pending)
             started == [action |-> m.pending, op |-> "pending", status |-> status]
  <2>1. m.pending # None /\ mqtt' = [m EXCEPT !.pending = None, !.inflight = started]
    BY <1>5 DEF StepStart
  <2> HIDE DEF m
  <2>2. /\ mqtt'.pending = None /\ mqtt'.inflight = started
        /\ mqtt'.startup_publish = m.startup_publish
        /\ mqtt'.max_rx_packet_size = RX_SIZE
    BY <1>3, <2>1 DEF Mqtts
  <2>3. started.action = m.pending /\ started.status = status
    OBVIOUS
  <2>4. state # "Error" /\ m.pending \notin ErrorCodes => ~Raises(status_with(m.pending))
    BY DEF Raises, status_with
  <2>5. None \notin ErrorCodes
    BY NoneAssumption DEF ErrorCodes, Actions, StatusCodes
  <2> HIDE DEF started
  <2>6. Calm(mqtt, state) => Calm(mqtt', state)
    BY <1>3, <2>2, <2>3, <2>4, <2>5 DEF Calm
  <2> QED BY <1>5, <2>2, <2>6 DEF StepStart, Undisturbed, KeepsRx, Calm
<1> QED BY <1>4, <1>5


(* Queuing a code that is not an error. *)
LEMMA PublishCalm ==
  ASSUME DeviceInv, NEW code \in StatusCodes, mqtt' = queue(mqtt, code),
         Calm(mqtt, state) => code \notin ErrorCodes /\ state' # "Error"
  PROVE  Undisturbed
<1>1. mqtt \in Mqtts /\ code \in Actions
  BY TransferOption DEF Actions
<1>2. /\ mqtt'.inflight = mqtt.inflight
      /\ mqtt'.max_rx_packet_size = mqtt.max_rx_packet_size
      /\ Calm(mqtt, state) => Calm(mqtt', state)
  BY <1>1, QueueInflight, CalmQueue
<1> QED BY <1>2 DEF Undisturbed, KeepsRx, Calm

(* current_code is an error only in Error. *)
LEMMA CurrentCalm ==
  ASSUME DeviceInv
  PROVE  state # "Error" => current_code \notin ErrorCodes
BY TransferOption DEF current_code, ErrorCodes, States

(* The padding of the last chunk is a number of bytes. *)
LEMMA PaddingNat == (-Object.size) % WRITE_SIZE \in Nat
<1>1. Object.size \in Int /\ WRITE_SIZE \in Nat \ {0}
  BY InputAssumption, TransferAssumption, ConfigAssumption
<1>2. (-Object.size) % WRITE_SIZE \in 0..(WRITE_SIZE - 1)
  BY <1>1, PaddedAligned, ZenonT(30)
<1> QED BY <1>1, <1>2

(* The manifest of an object that fits is accepted. *)
LEMMA ManifestCalm ==
  ASSUME ObjectFits, ServiceInv, HandleManifest(Object),
         mqtt.max_rx_packet_size = RX_SIZE
  PROVE  Undisturbed
<1>1. DeviceInv
  BY DEF ServiceInv
<1>2. Object.size \in 1..CAPACITY
  <2>1. Object.size \in Nat /\ CAPACITY \in Nat
    BY InputAssumption, TransferAssumption, ConfigAssumption
  <2> QED BY <2>1, PaddingNat DEF ObjectFits
<1>3. ~(RxBytes[Object.id] > mqtt.max_rx_packet_size) /\ Object.size # 0
      /\ ~(Object.size > CAPACITY)
  BY <1>2, InputAssumption, TransferAssumption, ConfigAssumption DEF ObjectFits
<1>4. CASE Publish(current_code)
  <2>1. Calm(mqtt, state) => current_code \notin ErrorCodes /\ state' # "Error"
    BY <1>1, <1>4, CurrentCalm DEF Publish, Calm
  <2> QED BY <1>1, <1>4, <2>1, PublishCalm, CurrentCode DEF Publish
<1>5. CASE Consume
  BY <1>5 DEF Consume, Undisturbed, KeepsRx, Calm
<1>6. CASE mqtt' = queue(mqtt, "Accepted") /\ state' = "Preparing"
  <2>1. "Accepted" \in StatusCodes /\ "Accepted" \notin ErrorCodes
    BY DEF StatusCodes, ErrorCodes
  <2> QED BY <1>1, <1>6, <2>1, PublishCalm
<1> QED BY <1>3, <1>4, <1>5, <1>6 DEF HandleManifest, handle_manifest

(* A chunk of the host is the next one or a repeated one, and the device    *)
(* has no objection to either.                                              *)
LEMMA ChunkCalm ==
  ASSUME ObjectFits, ServiceInv, NEW offset \in Offsets, offset < Object.size,
         transfer # None, offset <= transfer.next_offset,
         HandleChunk(ChunkAt(offset))
  PROVE  Undisturbed
<1> DEFINE c == ChunkAt(offset)
<1>1. DeviceInv /\ transfer \in Transfers /\ state \in States
  BY TransferOption DEF ServiceInv, Options
<1>2. /\ c \in [id : {Object.id}, offset : {offset},
                len : 1..MAX_CHUNK_SIZE, padded : {TRUE}]
      /\ c.len % WRITE_SIZE = 0
      /\ offset % WRITE_SIZE = 0 =>
           \/ offset + c.len < Object.size
           \/ offset + c.len = Object.size + ((-Object.size) % WRITE_SIZE)
  BY ZenonT(30), ChunkFits DEF ObjectFits
<1> HIDE DEF c
<1>3. /\ c.offset = offset /\ c.len \in 1..MAX_CHUNK_SIZE
      /\ offset \in Nat /\ c.len \in Nat /\ transfer.next_offset \in Nat
      /\ transfer.size = Object.size /\ Object.size \in Nat
      /\ CAPACITY \in Nat /\ CAPACITY <= U32_MAX /\ U32_MAX \in Nat
  BY <1>1, <1>2, InputAssumption, ConfigAssumption, TransferAssumption, OffsetNat
     DEF Offsets, ServiceInv, ObjectOnly
<1>10. c.padded = TRUE
  BY ZenonT(30), <1>2
<1>4. ~ChunkAhead(c)
  BY <1>3 DEF ChunkAhead
<1>5. state = "Ready" /\ ~ChunkBehind(c) => ChunkFailure(c) = None
  <2> SUFFICES ASSUME state = "Ready", ~ChunkBehind(c) PROVE ChunkFailure(c) = None
    OBVIOUS
  <2>1. offset = stored /\ stored % WRITE_SIZE = 0
    BY <1>1, <1>3, <1>4 DEF ChunkAhead, ChunkBehind, DeviceInv, StorageInv, Remembers
  <2>2. offset + c.len <= CAPACITY
    BY <1>2, <1>3, <2>1, PaddingNat DEF ObjectFits
  <2>3. /\ ~(c.len = 0 \/ c.len > MAX_CHUNK_SIZE)
        /\ ~(c.len % WRITE_SIZE # 0)
        /\ ~(c.offset + c.len > U32_MAX) /\ ~(c.offset + c.len > CAPACITY)
        /\ ~(/\ c.offset + c.len > transfer.size
             /\ transfer.size - c.offset >= c.len \/ ~c.padded)
    BY <1>2, <1>3, <1>10, <2>2, ConfigAssumption
  <2> QED BY <2>3 DEF ChunkFailure
<1>6. CASE Publish(current_code)
  <2>1. Calm(mqtt, state) => current_code \notin ErrorCodes /\ state' # "Error"
    BY <1>1, <1>6, CurrentCalm DEF Publish, Calm
  <2> QED BY <1>1, <1>6, <2>1, PublishCalm, CurrentCode DEF Publish
<1>7. CASE \E code \in {"Idle", "Duplicate"} : Publish(code)
  BY <1>1, <1>7, PublishCalm DEF Publish, StatusCodes, ErrorCodes, Calm
<1>8. CASE mqtt' = mqtt /\ state' \in {state, "Writing"}
  BY <1>8 DEF Undisturbed, KeepsRx, Calm
<1>9. HandleChunk(c)
  BY DEF c
<1> QED BY ZenonT(30), <1>1, <1>4, <1>5, <1>6, <1>7, <1>8, <1>9
        DEF HandleChunk, handle_chunk, ReadyChunk, Consume, States

(* A job that succeeds raises no error. *)
LEMMA SuccessCalm ==
  ASSUME DeviceInv, complete_request(TRUE)
  PROVE  Undisturbed
<1>1. CASE request = None
  BY <1>1 DEF complete_request, service, Undisturbed, KeepsRx, Calm
<1>2. CASE request # None
  <2>1. Completed(TRUE) /\ transfer # None
    BY ZenonT(30), <1>2 DEF complete_request, DeviceInv, StorageInv, RequestMatchesWork, Remembers
  <2>2. state' \in {"Ready", "Complete"}
        /\ \E code \in {"Accepted", "Complete"} : mqtt' = queue(mqtt, code)
    BY <2>1 DEF Completed
  <2> QED BY <2>2, PublishCalm DEF StatusCodes, ErrorCodes
<1> QED BY <1>1, <1>2

(* A failure reported by the owner. *)
LEMMA FaultKeepsRx ==
  ASSUME DeviceInv, abort \/ complete_request(FALSE)
  PROVE  KeepsRx(mqtt, mqtt')
<1>1. mqtt \in Mqtts
  BY TransferOption
<1>2. CASE mqtt' = mqtt
  BY <1>2 DEF KeepsRx
<1>3. ASSUME NEW code \in {"Error", "Storage"}, mqtt' = queue(mqtt, code)
      PROVE  KeepsRx(mqtt, mqtt')
  <2>1. code \in Actions
    BY DEF Actions, StatusCodes
  <2> QED BY <1>1, <1>3, <2>1, CalmQueue, QueueInflight DEF KeepsRx
<1>4. CASE abort
  BY <1>3, <1>4 DEF abort
<1>5. CASE complete_request(FALSE)
  BY <1>2, <1>3, <1>5 DEF complete_request, Completed, service
<1> QED BY ZenonT(30), <1>4, <1>5


(* The invariant carries over a step that disturbs nothing. *)
LEMMA CauseSide ==
  ASSUME TransferInv, CauseInv, Commanded, host' = host,
         ~Faulted' => /\ ~Faulted /\ Calm(mqtt', state')
                      /\ \A i \in 1..Len(toHost') : ~Raises(toHost'[i]),
         toDevice' # <<>> => session' = "subscribed",
         session' = "subscribed" \/ mqtt'.inflight # None =>
           mqtt'.max_rx_packet_size = RX_SIZE
  PROVE  CauseInv'
BY DEF CauseInv, Calm, Raises, Faulted

(* Duplicates, losses and reruns leave the count of faults alone. *)
LEMMA FaultedStays ==
  ASSUME TransferTypes,
         budget' = budget \/ \E kind \in {"dup", "loss", "rerun"} : Spend(kind)
  PROVE  Faulted => Faulted'
<1>1. budget.fault \in Nat /\ FAULTS \in Nat
  BY TransferAssumption DEF TransferTypes
<1>2. CASE budget' = budget
  BY <1>2 DEF Faulted
<1>3. ASSUME NEW kind \in {"dup", "loss", "rerun"}, Spend(kind)
      PROVE  Faulted => Faulted'
  <2>1. /\ budget' \in [dup : Nat, loss : Nat, rerun : Nat, fault : 0..FAULTS]
        /\ budget'.fault <= budget.fault
    BY <1>3, SpendType
  <2> QED BY <1>1, <2>1 DEF Faulted
<1> QED BY <1>2, <1>3

(* What the device's Op delivers is an error only after a fault. *)
LEMMA DeliveredCause ==
  ASSUME TransferInv, CauseInv, Commanded, mqtt.inflight # None, Delivered
  PROVE  /\ ~Faulted => \A i \in 1..Len(toHost') : ~Raises(toHost'[i])
         /\ toDevice' # <<>> => session' = "subscribed"
         /\ mqtt.max_rx_packet_size = RX_SIZE
<1>1. toHost \in Seq(Statuses)
  BY DEF TransferInv, Holds
<1>2. mqtt.inflight.action # Subscribe =>
        /\ mqtt.inflight.status \in Statuses
        /\ ~Faulted => ~Raises(mqtt.inflight.status)
  BY DEF TransferInv, ServiceInv, InflightGood, GoodStatus, CauseInv, Calm
<1>3. CASE toHost' = toHost
  BY <1>3 DEF CauseInv, Delivered
<1>4. CASE mqtt.inflight.action # Subscribe /\ toHost' = Append(toHost, mqtt.inflight.status)
  <2>1. \A i \in 1..Len(toHost') :
          toHost'[i] = mqtt.inflight.status \/ (i \in 1..Len(toHost) /\ toHost'[i] = toHost[i])
    BY <1>1, <1>2, <1>4
  <2> QED BY <1>2, <1>4, <2>1 DEF CauseInv, Delivered
<1> QED BY <1>3, <1>4 DEF Delivered, ForHost

(* No publication of the host command is refused. *)
LEMMA PublishCause ==
  ASSUME ObjectFits, ServiceInv, NEW p, GoodPublish(p, transfer), HandlePublish(p),
         mqtt.max_rx_packet_size = RX_SIZE
  PROVE  Undisturbed
<1>1. CASE p = [kind |-> "manifest", manifest |-> Object]
  <2>1. p.kind = "manifest" /\ p.manifest = Object
    BY <1>1
  <2> QED BY <2>1, ManifestCalm DEF HandlePublish
<1>2. ASSUME NEW offset \in Offsets, offset < Object.size,
             transfer # None, offset <= transfer.next_offset,
             p = [kind |-> "chunk", chunk |-> ChunkAt(offset)]
      PROVE  Undisturbed
  <2>1. p.kind = "chunk" /\ p.chunk = ChunkAt(offset)
    BY <1>2
  <2>2. HandleChunk(ChunkAt(offset))
    BY <2>1 DEF HandlePublish
  <2> QED BY <1>2, <2>2, ChunkCalm
<1> QED BY <1>1, <1>2 DEF GoodPublish

(* Every step of the device keeps CauseInv. *)
LEMMA CauseDevice ==
  ASSUME ObjectFits, TransferInv, CauseInv, Commanded, Device
  PROVE  CauseInv'
<1>1. /\ ServiceInv /\ DeviceInv /\ TransferTypes
      /\ Holds(toHost, toDevice, transfer, state)
  BY DEF TransferInv
<1>2. ASSUME Undisturbed, host' = host, toHost' = toHost,
             toDevice' \in {toDevice, Tail(toDevice)}, session' = session,
             budget' = budget \/ \E kind \in {"dup", "loss", "rerun"} : Spend(kind)
      PROVE  CauseInv'
  <2>1. Faulted => Faulted'
    BY <1>1, <1>2, FaultedStays
  <2>2. toDevice' # <<>> => toDevice # <<>>
    <3>1. toDevice = <<>> => Tail(toDevice) = <<>> \/ toDevice' = toDevice
      BY <1>2
    <3> QED BY ZenonT(30), <1>2, <3>1, <1>1 DEF Holds
  <2> QED BY <1>2, <2>1, <2>2, CauseSide DEF Undisturbed, KeepsRx, CauseInv
<1>3. ASSUME NEW event \in {"Connected", "Reconnected"}, DeviceConnects(event)
      PROVE  CauseInv'
  <2>1. Undisturbed
    BY <1>1, <1>3, ConnectionCalm DEF DeviceConnects
  <2>2. toDevice' # <<>> => session' = "subscribed"
    BY <1>3 DEF DeviceConnects, CauseInv
  <2>3. session' = "subscribed" => session = "subscribed"
    BY <1>3 DEF DeviceConnects
  <2>4. host' = host /\ toHost' = toHost /\ (Faulted <=> Faulted')
    BY <1>3 DEF DeviceConnects, Faulted
  <2> QED BY <2>1, <2>2, <2>3, <2>4, CauseSide DEF Undisturbed, KeepsRx, CauseInv
<1>4. CASE DeviceDisconnects
  BY <1>1, <1>2, <1>4, ConnectionCalm DEF DeviceDisconnects, net
<1>5. ASSUME Undisturbed, mqtt.inflight # None, Delivered, host' = host,
             budget' = budget \/ \E kind \in {"dup", "loss", "rerun"} : Spend(kind)
      PROVE  CauseInv'
  <2>1. Faulted => Faulted'
    BY <1>1, <1>5, FaultedStays
  <2>2. /\ ~Faulted => \A i \in 1..Len(toHost') : ~Raises(toHost'[i])
        /\ toDevice' # <<>> => session' = "subscribed"
        /\ mqtt.max_rx_packet_size = RX_SIZE
    BY <1>5, DeliveredCause
  <2> QED BY <1>5, <2>1, <2>2, CauseSide DEF Undisturbed, KeepsRx, CauseInv
<1>6. CASE DeviceSends
  BY <1>1, <1>5, <1>6, ConnectionCalm DEF DeviceSends, OpCompletes
<1>7. CASE DeviceSendsUnacked
  BY <1>1, <1>5, <1>7, ConnectionCalm DEF DeviceSendsUnacked
<1>8. CASE DeviceStep
  BY <1>1, <1>2, <1>8, StepCalm DEF DeviceStep, net
<1>9. CASE DeviceStarts
  BY <1>1, <1>2, <1>9, StartupCalm DEF DeviceStarts, net
<1>10. CASE DeviceStepCancelled
  <2>1. StepNoStart
    BY <1>10 DEF DeviceStepCancelled, StepNoStart, Stepping
  <2>2. Undisturbed
    BY <1>1, <2>1, StepCalm
  <2>3. mqtt' = Retired(Measured) /\ mqtt'.pending # None
    BY <1>10 DEF DeviceStepCancelled
  <2>4. mqtt'.max_rx_packet_size = RX_SIZE
    <3>1. Measured \in Mqtts /\ Measured.max_rx_packet_size = RX_SIZE
      BY <1>1, TransferOption DEF Measured, Mqtts
    <3> QED BY <2>3, <3>1, CalmRetired
  <2>5. mqtt'.pending # Subscribe => status_with(mqtt'.pending) \in Statuses
    BY ZenonT(30), <1>1, <2>3, PendingGood DEF GoodStatus, Mqtts, Actions
  <2>6. ~Faulted /\ mqtt'.pending # Subscribe => ~Raises(status_with(mqtt'.pending))
    BY ZenonT(30), <2>2 DEF Undisturbed, CauseInv, Calm, Raises, status_with
  <2>7. ~Faulted => \A i \in 1..Len(toHost') : ~Raises(toHost'[i])
    <3>1. CASE toHost' = toHost
      BY <3>1 DEF CauseInv
    <3>2. CASE mqtt'.pending # Subscribe
               /\ toHost' = Append(toHost, status_with(mqtt'.pending))
      <4>1. \A i \in 1..Len(toHost') :
              \/ toHost'[i] = status_with(mqtt'.pending)
              \/ i \in 1..Len(toHost) /\ toHost'[i] = toHost[i]
        BY <1>1, <2>5, <3>2 DEF Holds
      <4> QED BY <2>6, <3>2, <4>1 DEF CauseInv
    <3> QED BY <1>10, <3>1, <3>2 DEF DeviceStepCancelled, ForHost
  <2>8. toDevice' # <<>> => session' = "subscribed"
    BY <1>10 DEF DeviceStepCancelled, CauseInv
  <2>9. Faulted => Faulted'
    BY <1>1, <1>10, FaultedStays DEF DeviceStepCancelled
  <2>10. host' = host
    BY <1>10 DEF DeviceStepCancelled
  <2> QED BY <2>2, <2>4, <2>7, <2>8, <2>9, <2>10, CauseSide DEF Undisturbed, CauseInv
<1>11. ASSUME toDevice # <<>>, HandlePublish(Head(toDevice))
       PROVE  Undisturbed
  <2>1. GoodPublish(Head(toDevice), transfer)
    BY ZenonT(30), <1>1, <1>11, HoldsHeads
  <2>2. mqtt.max_rx_packet_size = RX_SIZE
    BY <1>11 DEF CauseInv
  <2> QED BY <1>1, <1>11, <2>1, <2>2, PublishCause
<1>12. CASE DeviceReceives
  BY <1>2, <1>11, <1>12 DEF DeviceReceives
<1>13. CASE DeviceReceivesTwice
  BY <1>2, <1>11, <1>13 DEF DeviceReceivesTwice, net
<1>14. CASE StorageSucceeds
  BY <1>1, <1>2, <1>14, SuccessCalm DEF StorageSucceeds, net
<1>15. CASE StorageFails \/ DeviceAborts
  <2>1. KeepsRx(mqtt, mqtt') /\ UNCHANGED <<host, net>> /\ Spend("fault")
    BY ZenonT(30), <1>1, <1>15, FaultKeepsRx DEF StorageFails, DeviceAborts
  <2>2. Faulted'
    BY <1>1, <2>1, SpendType DEF Faulted
  <2> QED BY <2>1, <2>2, CauseSide DEF KeepsRx, CauseInv, net
<1> QED BY <1>3, <1>4, <1>6, <1>7, <1>8, <1>9, <1>10, <1>12, <1>13, <1>14, <1>15 DEF Device


(* The host gives up on a status only when the status reports a failure:    *)
(* one that asks for a chunk asks for one the object has.                   *)
LEMMA CauseReact ==
  ASSUME ObjectFits, TransferInv, CauseInv, Commanded, toHost # <<>>,
         Reacts(Head(toHost)), host = "waiting", ~Faulted
  PROVE  host' # "failed"
<1> DEFINE s == Head(toHost)
<1>1. GoodStatus(s, transfer, state)
  BY ZenonT(30), HoldsHeads DEF TransferInv
<1>2. ~Raises(s)
  <2>1. toHost \in Seq(Statuses)
    BY DEF TransferInv, Holds
  <2>2. s = toHost[1] /\ 1 \in 1..Len(toHost)
    BY <2>1
  <2> QED BY <2>2 DEF CauseInv
<1> HIDE DEF s
<1>3. Reacts(s)
  BY DEF s
<1>4. ~Fails(s)
  BY <1>2 DEF Fails
<1>5. ~Ignores(s) /\ s.code # "Complete" => ~NothingToSend(s)
  <2> SUFFICES ASSUME ~Ignores(s), s.code # "Complete" PROVE ~NothingToSend(s)
    OBVIOUS
  <2>1. s.id # None
    BY <1>2 DEF Ignores
  <2>2. s.next_offset \in Nat /\ Object.size \in Nat
    <3>1. s.next_offset \in Offsets
      BY <1>1 DEF GoodStatus, Statuses
    <3> QED BY <3>1, InputAssumption, TransferAssumption DEF Offsets
  <2>3. s.next_offset < Object.size
    BY <1>1, <1>2, <2>1 DEF GoodStatus
  <2> QED BY <2>2, <2>3 DEF NothingToSend, ObjectFits, CanSend
<1> QED BY ZenonT(30), <1>3, <1>4, <1>5 DEF Reacts

(* Every step of the host command keeps CauseInv. *)
LEMMA CauseHost == ObjectFits /\ TransferInv /\ CauseInv /\ Host => CauseInv'
<1> SUFFICES ASSUME ObjectFits, TransferInv, CauseInv, Host PROVE CauseInv'
  OBVIOUS
<1>1. Commanded
  BY DEF Host, HostSubscribes, HostPublishesManifest, HostReceives, HostTimesOut,
         HostReruns, Commanded
<1>2. TransferTypes /\ Holds(toHost, toDevice, transfer, state)
  BY <1>1 DEF TransferInv
<1>3. UNCHANGED <<mqtt, state, session>>
  BY DEF Host, HostSubscribes, HostPublishesManifest, HostReceives, HostTimesOut,
         HostReruns, vars, net
<1>4. Faulted => Faulted'
  BY <1>2, FaultedStays
     DEF Host, HostSubscribes, HostPublishesManifest, HostReceives, HostTimesOut, HostReruns
<1>5. toDevice' # <<>> => session' = "subscribed"
  BY <1>1, <1>3
     DEF Host, HostSubscribes, HostPublishesManifest, HostReceives, HostTimesOut,
         HostReruns, Reacts, ForDevice, CauseInv, net
<1>6. ~Faulted => \A i \in 1..Len(toHost') : ~Raises(toHost'[i])
  <2> SUFFICES ASSUME ~Faulted PROVE \A i \in 1..Len(toHost') : ~Raises(toHost'[i])
    OBVIOUS
  <2>1. \A i \in 1..Len(toHost) : ~Raises(toHost[i])
    BY <1>1 DEF CauseInv
  <2>2. CASE toHost' = toHost
    BY <2>1, <2>2
  <2>3. CASE toHost' = <<>>
    BY <2>3
  <2>4. CASE toHost # <<>> /\ toHost' = Tail(toHost)
    <3>1. \A i \in 1..Len(toHost') : i + 1 \in 1..Len(toHost) /\ toHost'[i] = toHost[i + 1]
      BY <1>2, <2>4 DEF Holds
    <3> QED BY <2>1, <3>1
  <2> QED BY <2>2, <2>3, <2>4
          DEF Host, HostSubscribes, HostPublishesManifest, HostReceives, HostTimesOut,
              HostReruns, net
<1>7. ~Faulted => host' # "failed"
  BY <1>1, CauseReact
     DEF Host, HostSubscribes, HostPublishesManifest, HostReceives, HostTimesOut, HostReruns
<1> QED BY ZenonT(30), <1>1, <1>3, <1>4, <1>5, <1>6, <1>7 DEF CauseInv, Calm, Raises, Faulted

(* Nothing has failed at the start. *)
LEMMA CauseInit == TInit => CauseInv
<1> SUFFICES ASSUME TInit PROVE CauseInv
  OBVIOUS
<1>1. /\ state # "Error" /\ mqtt.pending = None /\ mqtt.startup_publish = None
      /\ mqtt.inflight = None /\ toHost = <<>> /\ toDevice = <<>>
      /\ session = "none" /\ host # "failed"
  BY ZenonT(30), TransferAssumption DEF TInit, Init, NewMqtt
<1>2. None \notin ErrorCodes
  BY NoneAssumption DEF Actions, StatusCodes, ErrorCodes
<1> QED BY <1>1, <1>2 DEF CauseInv, Calm

(* Every step of the system keeps CauseInv. *)
LEMMA CauseStep ==
  ObjectFits /\ TransferInv /\ CauseInv /\ [TNext]_sysVars => CauseInv'
<1> SUFFICES ASSUME ObjectFits, TransferInv, CauseInv, [TNext]_sysVars PROVE CauseInv'
  OBVIOUS
<1>1. CASE ~Commanded /\ Next /\ UNCHANGED <<host, net, budget>>
  BY <1>1 DEF CauseInv, Commanded
<1>2. CASE UNCHANGED sysVars
  <2>1. UNCHANGED <<host, toHost, toDevice, session, budget, mqtt, state>>
    BY <1>2 DEF sysVars, vars, net
  <2> QED BY <2>1 DEF CauseInv, Commanded, Calm, Raises, Faulted
<1>3. CASE Commanded /\ Device
  BY <1>3, CauseDevice
<1>4. CASE Host
  BY <1>4, CauseHost
<1> QED BY <1>1, <1>2, <1>3, <1>4 DEF TNext

-----------------------------------------------------------------------------
(* The theorems. *)

(* The invariant holds in every reachable state of the whole system. *)
THEOREM TransferInvariant == TSpec => []TransferInv
  BY TransferInit, TransferStep, PTL DEF TSpec

(* The device, the host and what the broker holds keep their types; no      *)
(* chunk the host cuts is empty or longer than the device accepts.          *)
THEOREM TransferTypesHold == TSpec => []TTypeOK
<1>1. DeviceInv => TypeOK
  BY DEF DeviceInv, Honest, StorageInv, StorageTypes, TypeOK
<1>2. ASSUME TransferInv PROVE toHost \in Seq(Statuses)
  <2>1. <<>> \in Seq(Statuses)
    OBVIOUS
  <2> QED BY ZenonT(30), <1>2, <2>1 DEF TransferInv, Holds
<1>3. ASSUME TransferInv
      PROVE  \A i \in 1..Len(toDevice) :
               \/ toDevice[i] = [kind |-> "manifest", manifest |-> Object]
               \/ /\ toDevice[i].kind = "chunk"
                  /\ toDevice[i].chunk \in
                       [id : {Object.id}, offset : Offsets, len : 1..MAX_CHUNK_SIZE,
                        padded : {TRUE}]
  <2>1. CASE ~Commanded
    BY <1>3, <2>1 DEF TransferInv
  <2>2. ASSUME Commanded, NEW i \in 1..Len(toDevice)
        PROVE  \/ toDevice[i] = [kind |-> "manifest", manifest |-> Object]
               \/ /\ toDevice[i].kind = "chunk"
                  /\ toDevice[i].chunk \in
                       [id : {Object.id}, offset : Offsets, len : 1..MAX_CHUNK_SIZE,
                        padded : {TRUE}]
    <3>1. GoodPublish(toDevice[i], transfer)
      BY <1>3, <2>2 DEF TransferInv, Holds
    <3>2. ASSUME NEW offset \in Offsets, offset < Object.size, CanSend,
                 toDevice[i] = [kind |-> "chunk", chunk |-> ChunkAt(offset)]
          PROVE  /\ toDevice[i].kind = "chunk"
                 /\ toDevice[i].chunk \in
                      [id : {Object.id}, offset : Offsets, len : 1..MAX_CHUNK_SIZE,
                       padded : {TRUE}]
      <4>1. toDevice[i].kind = "chunk" /\ toDevice[i].chunk = ChunkAt(offset)
        BY <3>2
      <4> QED BY ZenonT(30), <3>2, <4>1, ChunkFits
    <3> QED BY ZenonT(30), <3>1, <3>2 DEF GoodPublish
  <2> QED BY ZenonT(30), <2>1, <2>2
<1>4. TransferTypes => budget \in [dup : Nat, loss : Nat, rerun : Nat, fault : Nat]
  <2>1. 0..FAULTS \subseteq Nat
    BY TransferAssumption
  <2> QED BY <2>1 DEF TransferTypes
<1>5. ASSUME TransferInv PROVE TTypeOK
  <2>1. TypeOK /\ TransferTypes
    BY <1>1, <1>5 DEF TransferInv
  <2> QED BY ZenonT(30), <1>2, <1>3, <1>4, <1>5, <2>1 DEF TransferTypes, TTypeOK
<1> QED BY <1>5, TransferInvariant, PTL

(* What holds of the device alone holds of the device in a transfer. *)
THEOREM DeviceInTransfer ==
  TSpec => [](RequestMatchesWork /\ WritesSequential /\ ProgressStored)
<1>1. DeviceInv => RequestMatchesWork /\ WritesSequential
  BY DEF DeviceInv, StorageInv
<1>2. DeviceInv => ProgressStored
  BY ZenonT(30) DEF DeviceInv, StorageInv, Remembers, Honest, Offset, ProgressStored
<1>3. TransferInv => RequestMatchesWork /\ WritesSequential /\ ProgressStored
  BY <1>1, <1>2 DEF TransferInv
<1> QED BY <1>3, TransferInvariant, PTL

(* When the host command reports success, every byte of the object is on    *)
(* the device's storage.                                                    *)
THEOREM SuccessIsStored == TSpec => []DoneMeansStored
<1>1. TransferInv => DoneMeansStored
  BY ZenonT(30) DEF TransferInv, ServiceInv, DeviceInv, StorageInv, Remembers, Honest, Offset,
         ObjectOnly, Commanded, DoneMeansStored
<1> QED BY <1>1, TransferInvariant, PTL

(* No chunk on its way to the device lies ahead of what the device has, so  *)
(* duplicates and reconnects never make a chunk skip bytes.                 *)
THEOREM ChunksFollow == TSpec => []NoChunkAhead
<1>1. ASSUME TransferInv PROVE NoChunkAhead
  <2>1. CASE ~Commanded
    BY <1>1, <2>1 DEF TransferInv, NoChunkAhead
  <2>2. ASSUME Commanded, NEW i \in 1..Len(toDevice), toDevice[i].kind = "chunk"
        PROVE  transfer # None /\ toDevice[i].chunk.offset <= transfer.next_offset
    <3>1. GoodPublish(toDevice[i], transfer)
      BY ZenonT(30), <1>1, <2>2 DEF TransferInv, Holds
    <3>2. ASSUME NEW offset \in Offsets, transfer # None, offset <= transfer.next_offset,
                 toDevice[i] = [kind |-> "chunk", chunk |-> ChunkAt(offset)]
          PROVE  transfer # None /\ toDevice[i].chunk.offset <= transfer.next_offset
      BY <3>2 DEF ChunkAt, ChunkUnpadded
    <3>3. toDevice[i] # [kind |-> "manifest", manifest |-> Object]
      <4> SUFFICES ASSUME toDevice[i] = [kind |-> "manifest", manifest |-> Object]
                   PROVE  FALSE
        BY ZenonT(30)
      <4>1. toDevice[i].kind = "manifest"
        OBVIOUS
      <4> QED BY ZenonT(30), <2>2, <4>1
    <3> QED BY ZenonT(30), <3>1, <3>2, <3>3 DEF GoodPublish
  <2> QED BY <2>1, <2>2 DEF NoChunkAhead
<1> QED BY <1>1, TransferInvariant, PTL

(* Duplicates, lost connections, lost acknowledgements and reruns of the    *)
(* host never fail the transfer of an object that fits: only a storage      *)
(* failure or an abort does.                                                *)
THEOREM OnlyFaultsFail ==
  ASSUME ObjectFits
  PROVE  TSpec => []FailsOnlyForCause
<1>1. CauseInv => FailsOnlyForCause
  BY DEF CauseInv, Calm, Faulted, FailsOnlyForCause, Commanded
<1>2. TransferInv /\ CauseInv /\ [TNext]_sysVars => CauseInv'
  BY CauseStep
<1> QED BY <1>1, <1>2, CauseInit, TransferInvariant, PTL DEF TSpec

==============================================================================
