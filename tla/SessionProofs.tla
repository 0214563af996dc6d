---------------------------- MODULE SessionProofs -----------------------------
(***************************************************************************)
(* The safety invariants of Session hold for every value of its constants. *)
(*                                                                         *)
(* The properties are proved together, as conjuncts of IInv: reading input *)
(* only when everything is flushed (QuietState) bounds pending_control by  *)
(* one, which complete_flush relies on. SessionSteps and SessionReconnect  *)
(* have the steps; here follow the facts about finite sets they rest on    *)
(* and the theorems.                                                       *)
(*                                                                         *)
(* The free packet id that next_packet_id finds exists by the pigeonhole   *)
(* principle: fewer ids are in use than there are.                         *)
(***************************************************************************)
EXTENDS SessionSteps, SessionReconnect, FiniteSetTheorems

(* Leaves are small; the time is that of the context they stand in, and a  *)
(* leaf whose encoding takes too long is tried again.                      *)
USE SMTT(30), ZenonT(20), SMTT(31), SMTT(32)

-----------------------------------------------------------------------------
(* Finite sets. *)

(* complete_flush on a control queue of at most one entry: the entry is    *)
(* dropped exactly when it is in Flush.                                    *)
LEMMA DropFlushedProperties ==
  ASSUME NEW S, NEW q \in Seq(S), Len(q) <= 1
  PROVE  /\ (\E i \in DOMAIN q : q[i].state = Flush) => DropFlushed(q) = <<>>
         /\ (\A i \in DOMAIN q : q[i].state # Flush) => DropFlushed(q) = q
<1> DEFINE kept == {i \in DOMAIN q : q[i].state # Flush}
<1>1. Len(q) \in Nat /\ DOMAIN q = 1 .. Len(q) /\ q \in [1 .. Len(q) -> S]
  BY LenProperties
<1>2. CASE kept = {}
  <2>1. Cardinality(kept) = 0
    BY ZenonT(30), <1>2, FS_EmptySet
  <2>2. DropFlushed(q) \in [1 .. 0 -> S]
    BY <1>2, <2>1 DEF DropFlushed
  <2>3. DropFlushed(q) = <<>>
    BY <2>2
  <2>4. (\A i \in DOMAIN q : q[i].state # Flush) => q = <<>>
    BY <1>1, <1>2, EmptySeq
  <2> QED
    BY <2>3, <2>4
<1>3. CASE kept # {}
  <2>1. Len(q) = 1 /\ kept = {1}
    BY <1>1, <1>3
  <2>2. Cardinality(kept) = 1
    BY <2>1, FS_Singleton
  <2>3. {j \in kept : j <= 1} = {1}
    BY <2>1
  <2>4. (CHOOSE i \in kept : Cardinality({j \in kept : j <= i}) = 1) = 1
    BY <2>1, <2>3, FS_Singleton
  <2>5. DropFlushed(q) = [k \in 1 .. 1 |-> q[1]]
    <3> DEFINE pick(k) == CHOOSE i \in kept : Cardinality({j \in kept : j <= i}) = k
    <3>1. DropFlushed(q) = [k \in 1 .. Cardinality(kept) |-> q[pick(k)]]
      BY DEF DropFlushed
    <3>2. DropFlushed(q) = [k \in 1 .. 1 |-> q[pick(k)]]
      BY ZenonT(30), <3>1, <2>2
    <3>3. \A k \in 1 .. 1 : k = 1
      OBVIOUS
    <3>4. pick(1) = 1
      BY ZenonT(30), <2>4
    <3> HIDE DEF pick
    <3> QED
      BY <3>2, <3>3, <3>4
  <2>6. q = [k \in 1 .. 1 |-> q[1]]
    BY <1>1, <2>1
  <2>7. \A i \in DOMAIN q : q[i].state # Flush
    BY <1>1, <2>1
  <2> QED
    BY <2>5, <2>6, <2>7
<1> QED
  BY <1>2, <1>3

(* A queue uses at most as many packet ids as it has entries.              *)
LEMMA QueueIdsCardinality ==
  ASSUME NEW S, NEW queue \in Seq(S),
         NEW ids, ids = {queue[i].id : i \in DOMAIN queue}
  PROVE  IsFiniteSet(ids) /\ Cardinality(ids) \in Nat /\ Cardinality(ids) <= Len(queue)
<1> DEFINE f == [i \in 1 .. Len(queue) |-> queue[i].id]
<1>1. Len(queue) \in Nat /\ DOMAIN queue = 1 .. Len(queue)
  BY LenProperties
<1>2. f \in Surjection(1 .. Len(queue), ids)
  BY <1>1 DEF Surjection
<1>3. IsFiniteSet(1 .. Len(queue)) /\ Cardinality(1 .. Len(queue)) = Len(queue)
  BY <1>1, FS_Interval
<1>4. IsFiniteSet(ids) /\ Cardinality(ids) <= Len(queue)
  BY <1>2, <1>3, FS_Surjection
<1> QED
  BY <1>4, FS_CardinalityType

(* The search of next_packet_id has something to find: the ids in use in   *)
(* `retained` and `pending_release` are fewer than all ids.                *)
LEMMA FreeIdsNonEmpty ==
  ASSUME TypeOK
  PROVE  FreeIds # {}
<1> DEFINE a == {retained[i].id : i \in DOMAIN retained}
           b == {release[i].id : i \in DOMAIN release}
<1>a. IsFiniteSet(a) /\ Cardinality(a) \in Nat /\ Cardinality(a) <= Len(retained)
  BY QueueIdsCardinality, ZenonT(30) DEF TypeOK
<1>b. IsFiniteSet(b) /\ Cardinality(b) \in Nat /\ Cardinality(b) <= Len(release)
  BY QueueIdsCardinality, ZenonT(30) DEF TypeOK
<1>2. IsFiniteSet(a \cup b) /\ Cardinality(a \cup b) \in Nat
  BY ZenonT(30), <1>a, <1>b, FS_Union, FS_CardinalityType
<1>3. Cardinality(a \cap b) \in Nat
  BY ZenonT(30), <1>a, <1>b, FS_Intersection, FS_CardinalityType
<1>4. Cardinality(a \cup b) <= Cardinality(a) + Cardinality(b)
  <2> HIDE DEF a, b
  <2>1. Cardinality(a \cup b) = Cardinality(a) + Cardinality(b) - Cardinality(a \cap b)
    BY <1>a, <1>b, FS_Union, ZenonT(30)
  <2> QED
    BY <1>a, <1>b, <1>3, <2>1
<1>5. Cardinality(a \cup b) < MAX_ID
  <2>1. Len(retained) \in Nat /\ Len(retained) <= MAX_RETAINED
    BY LenProperties DEF TypeOK
  <2>2. Len(release) \in Nat /\ Len(release) <= MAX_PENDING_RELEASE
    BY LenProperties DEF TypeOK
  <2> HIDE DEF a, b
  <2> QED
    BY <2>1, <2>2, <1>a, <1>b, <1>2, <1>4, SizesAssumption, IdsAssumption
<1>6. IsFiniteSet(PacketIds) /\ Cardinality(PacketIds) = MAX_ID
  BY FS_Interval, IdsAssumption, SizesAssumption DEF PacketIds
<1>7. ~(PacketIds \subseteq a \cup b)
  <2> SUFFICES ASSUME PacketIds \subseteq a \cup b PROVE FALSE
    OBVIOUS
  <2>1. Cardinality(PacketIds) <= Cardinality(a \cup b)
    BY <1>2, FS_Subset
  <2> HIDE DEF a, b
  <2> QED
    BY <2>1, <1>2, <1>5, <1>6, IdsAssumption
<1> QED
  BY <1>7 DEF FreeIds, HasId

(* next_packet_id returns an id that no in-flight packet uses. *)
LEMMA AllocatedIdIsFree ==
  ASSUME TypeOK
  PROVE  AllocatedId \in FreeIds
<1> DEFINE distance(id) == IF id >= packetId THEN id - packetId
                                             ELSE id + MAX_ID - packetId
           D == {distance(id) : id \in FreeIds}
<1>1. packetId \in 1 .. MAX_ID /\ MAX_ID \in Nat /\ FreeIds \subseteq 1 .. MAX_ID
  BY IdsAssumption DEF TypeOK, FreeIds, PacketIds
<1>2. \A id \in FreeIds : distance(id) \in Nat
  BY <1>1
<1>3. D \in SUBSET Nat /\ D # {}
  BY <1>2, FreeIdsNonEmpty
<1>4. PICK d \in D : \A e \in D : d <= e
  BY ZenonT(30), <1>3, SmallestInSet
<1>5. \E id \in FreeIds : \A f \in FreeIds : distance(id) <= distance(f)
  BY <1>4
<1> QED
  BY <1>5 DEF AllocatedId

(* The facts about finite sets that the steps rest on. *)
LEMMA FactsHold ==
  ASSUME TypeOK
  PROVE  SetFacts
<1>1. AllocatedId \in FreeIds
  BY AllocatedIdIsFree
<1> QED
  BY ZenonT(30), <1>1, DropFlushedProperties DEF SetFacts

-----------------------------------------------------------------------------
(* The theorems. *)

(* A new Session satisfies the inductive invariant.                        *)
LEMMA InvInit == Init => IInv
<1> SUFFICES ASSUME Init PROVE IInv
  OBVIOUS
<1>1. TypeOK
  BY TypeInit
<1>2. DOMAIN <<>> = {} /\ Len(<<>>) = 0
  BY EmptySeq
<1>3. IdsUnique /\ OneControl /\ ControlUnsent /\ StreamFramed /\ FlushAccounted
  BY <1>2 DEF Init, IdsUnique, UniqueIds, OneControl, ControlUnsent, StreamFramed, FlushAccounted
<1>4. WrittenFromFront /\ OnePing /\ HandshakeArmed
  BY ZenonT(30), <1>2 DEF Init, WrittenFromFront, WrittenInOrder, OnePing, HandshakeArmed
<1> QED
  BY <1>1, <1>3, <1>4 DEF IInv, QueueInv

(* Every step of a session preserves it.                                   *)
LEMMA InvStep == IInv /\ [Next]_vars => IInv'
<1> SUFFICES ASSUME IInv, [Next]_vars PROVE IInv'
  OBVIOUS
<1>1. TypeOK'
  BY TypeStep, FactsHold DEF IInv, QueueInv
<1> QED
  BY <1>1, QueueStep, FactsHold DEF IInv

(* IInv holds in every reachable state of a session, for all buffer sizes, *)
(* queue capacities, packet lengths and broker limits: the types, and what *)
(* the queues of Outbound, the flush state and the byte stream have to do  *)
(* with one another.                                                       *)
THEOREM InductiveInvariant == Spec => []IInv
  BY InvInit, InvStep, PTL DEF Spec

(* The properties the runs check are conjuncts of IInv.                    *)
LEMMA InvariantImplies ==
  IInv => /\ TypeOK /\ IdsUnique /\ OneControl /\ StreamFramed /\ FlushAccounted
          /\ OnePing
  BY DEF IInv, QueueInv

(* The queues of Outbound never exceed their capacity and every field has  *)
(* its type, for all sizes.                                                *)
THEOREM TypeCorrect == Spec => []TypeOK
  BY InductiveInvariant, InvariantImplies, PTL

(* next_packet_id never hands out an id that a retained request or a       *)
(* pending PUBREL uses, as long as ids outnumber the slots.                *)
THEOREM IdsNeverCollide == Spec => []IdsUnique
  BY InductiveInvariant, InvariantImplies, PTL

(* pending_control never holds more than one entry, whatever the broker    *)
(* sends and wherever calls are dropped.                                   *)
THEOREM ControlNeverQueues == Spec => []OneControl
  BY InductiveInvariant, InvariantImplies, PTL

(* The byte stream is a sequence of whole packets, for every interleaving  *)
(* of partial writes, dropped calls, new requests and reconnects.          *)
THEOREM FramingPreserved == Spec => []StreamFramed
  BY InductiveInvariant, InvariantImplies, PTL

(* FlushState::Clean means that nothing written is unflushed.              *)
THEOREM FlushNeverLost == Spec => []FlushAccounted
  BY InductiveInvariant, InvariantImplies, PTL

(* At most one PINGREQ is outstanding.                                     *)
THEOREM PingNotRepeated == Spec => []OnePing
  BY InductiveInvariant, InvariantImplies, PTL

-----------------------------------------------------------------------------
(* What becomes of the retained packets, for ReplayMarksDup and            *)
(* NoOvertaking.                                                           *)

(* arm_replay leaves the DUP bit set on every PUBLISH.                     *)
LEMMA ReplayIsMarked ==
  ASSUME NEW t \in Seq(RetainedEntries), NEW i \in DOMAIN t
  PROVE  /\ i \in DOMAIN Rearm(MarkPublishDup(t))
         /\ Rearm(MarkPublishDup(t))[i].id = t[i].id
         /\ t[i].kind \in PublishKinds => Rearm(MarkPublishDup(t))[i].dup
<1>1. /\ MarkPublishDup(t) \in Seq(RetainedEntries) /\ DOMAIN MarkPublishDup(t) = DOMAIN t
      /\ MarkPublishDup(t)[i].id = t[i].id
  BY MarkPublishDupProperties
<1>2. t[i] \in RetainedEntries /\ MarkPublishDup(t)[i] \in RetainedEntries
  BY <1>1
<1>3. MarkPublishDup(t)[i].dup = (t[i].dup \/ t[i].kind \in PublishKinds)
  BY <1>2 DEF MarkPublishDup, RetainedEntries
<1>4. Rearm(MarkPublishDup(t))[i] = [MarkPublishDup(t)[i] EXCEPT !.state = Write(0)]
  BY <1>1 DEF Rearm
<1>5. i \in DOMAIN Rearm(MarkPublishDup(t))
  BY <1>1 DEF Rearm
<1> HIDE DEF Rearm, MarkPublishDup
<1> QED BY <1>1, <1>2, <1>3, <1>4, <1>5 DEF RetainedEntries

(* An entry of the next state is new, or it is an old one that goes out     *)
(* from its first byte only if it had not started or has its DUP bit.       *)
Traced ==
  \A j \in DOMAIN retained' :
    \/ \A k \in DOMAIN retained : retained[k].id # retained'[j].id
    \/ \E k \in DOMAIN retained :
         /\ retained[k].id = retained'[j].id
         /\ \/ retained'[j].state # Write(0)
            \/ retained[k].state = Write(0)
            \/ retained[k].kind \in PublishKinds => retained'[j].dup

(* What a step may do to the retained packets.                             *)
Accounted == Traced /\ OldestFirst

(* Packets that stay where they are keep their order.                      *)
LEMMA InPlaceOrdered ==
  ASSUME IInv, DOMAIN retained' = DOMAIN retained,
         \A m \in DOMAIN retained : retained'[m].id = retained[m].id
  PROVE  OldestFirst
<1> SUFFICES ASSUME NEW i \in DOMAIN retained, NEW k \in DOMAIN retained,
                    NEW l \in DOMAIN retained,
                    k < l, retained[i].id = retained'[l].id
             PROVE  \E j \in DOMAIN retained : j < i /\ retained[j].id = retained'[k].id
  BY DEF OldestFirst
<1>1. i = l
  BY DEF IInv, QueueInv, IdsUnique, UniqueIds
<1> QED BY <1>1

(* So do those that move up when the packet at r leaves.                   *)
LEMMA RemovalOrdered ==
  ASSUME IInv, NEW r \in DOMAIN retained,
         DOMAIN retained' = 1 .. Len(retained) - 1,
         \A m \in 1 .. Len(retained) - 1 :
           retained'[m].id = IF m < r THEN retained[m].id ELSE retained[m + 1].id
  PROVE  OldestFirst
<1> DEFINE old(m) == IF m < r THEN m ELSE m + 1
<1>1. Len(retained) \in Nat /\ DOMAIN retained = 1 .. Len(retained)
  BY LenProperties DEF IInv, TypeOK
<1> SUFFICES ASSUME NEW i \in DOMAIN retained, NEW k \in DOMAIN retained',
                    NEW l \in DOMAIN retained',
                    k < l, retained[i].id = retained'[l].id
             PROVE  \E j \in DOMAIN retained : j < i /\ retained[j].id = retained'[k].id
  BY DEF OldestFirst
<1>2. /\ old(k) \in DOMAIN retained /\ retained'[k].id = retained[old(k)].id
      /\ old(l) \in DOMAIN retained /\ retained'[l].id = retained[old(l)].id
      /\ old(k) < old(l)
  BY <1>1
<1> HIDE DEF old
<1>3. i = old(l)
  BY <1>2 DEF IInv, QueueInv, IdsUnique, UniqueIds
<1> QED BY <1>2, <1>3

(* Entries that stay as they are, or go.                                   *)
LEMMA SameEntriesTraced ==
  ASSUME \A j \in DOMAIN retained' : \E k \in DOMAIN retained : retained'[j] = retained[k]
  PROVE  Traced
  BY DEF Traced

(* Nothing happens to them.                                                *)
LEMMA UnchangedAccounted == IInv /\ UNCHANGED retained => Accounted
  BY InPlaceOrdered, SameEntriesTraced DEF Accounted

(* Entries that are armed for replay.                                      *)
LEMMA ReplayTraced ==
  ASSUME IInv, NEW t \in Seq(RetainedEntries),
         \A j \in DOMAIN t : \E k \in DOMAIN retained : t[j] = retained[k],
         retained' = Rearm(MarkPublishDup(t))
  PROVE  Traced
<1>1. DOMAIN retained' = DOMAIN t
  BY ZenonT(30) DEF Rearm, MarkPublishDup
<1> QED BY <1>1, ReplayIsMarked DEF Traced

(* arm_replay resets an entry in place, and marks it if it is a PUBLISH. *)
LEMMA ArmReplayAccounted == IInv /\ ArmReplay => Accounted
<1> SUFFICES ASSUME IInv, ArmReplay PROVE Accounted
  OBVIOUS
<1>1. retained \in Seq(RetainedEntries) /\ retained' = Rearm(MarkPublishDup(retained))
  BY DEF IInv, TypeOK, ArmReplay
<1>2. DOMAIN retained' = DOMAIN retained
  BY ZenonT(30), <1>1 DEF Rearm, MarkPublishDup
<1>3. OldestFirst
  BY <1>1, <1>2, ReplayIsMarked, InPlaceOrdered
<1> QED BY <1>1, <1>3, ReplayTraced DEF Accounted

(* A write moves an entry away from its first byte.                        *)
LEMMA WriteAccounted ==
  ASSUME IInv, NEW q \in Queues, NEW i \in DOMAIN out[q], NEW n \in Nat,
         WriteStep(q, i, n)
  PROVE  Accounted
<1> DEFINE written == out[q][i].state.written + n
           len == PacketLen(q, out[q][i])
<1>1. retained' = IF q = "retained"
                  THEN [retained EXCEPT ![i] = SetWritten(retained[i], written, len)]
                  ELSE retained
  BY WriteStepEffect DEF IInv, QueueInv
<1>2. CASE q # "retained"
  BY <1>1, <1>2, UnchangedAccounted
<1>3. CASE q = "retained"
  <2>1. i \in DOMAIN retained /\ retained \in Seq(RetainedEntries) /\ out[q][i] = retained[i]
    BY ZenonT(30), <1>3 DEF IInv, TypeOK, out
  <2>2. retained[i] \in RetainedEntries /\ retained[i].state.tag = "Write"
    BY <1>3, <2>1 DEF WriteStep, NextStep, Writable
  <2>3. written # 0
    <3>1. retained[i].state.written \in Nat
      BY <2>2 DEF RetainedEntries, SendStates, Flush, Sent
    <3>2. n \in 1 .. len - out[q][i].state.written
      BY ZenonT(30) DEF WriteStep
    <3> HIDE DEF len
    <3>3. n >= 1
      BY <3>2
    <3> QED BY <2>1, <3>1, <3>3
  <2> HIDE DEF written, len
  <2>4. /\ SetWritten(retained[i], written, len).id = retained[i].id
        /\ SetWritten(retained[i], written, len).state # Write(0)
    BY <2>2, <2>3 DEF SetWritten, RetainedEntries, Write, Flush
  <2>5. /\ DOMAIN retained' = DOMAIN retained
        /\ \A j \in DOMAIN retained :
             retained'[j] = IF j = i THEN SetWritten(retained[i], written, len) ELSE retained[j]
    BY <1>1, <1>3, <2>1
  <2>6. Traced
    BY ZenonT(30), <2>4, <2>5 DEF Traced
  <2> QED BY <2>4, <2>5, <2>6, InPlaceOrdered DEF Accounted
<1> QED BY <1>2, <1>3

(* A flush only turns Flush into Sent.                                     *)
LEMMA FlushStepAccounted == IInv /\ FlushComplete => Accounted
<1> SUFFICES ASSUME IInv, FlushComplete PROVE Accounted
  OBVIOUS
<1>1. retained \in Seq(RetainedEntries)
  BY DEF IInv, TypeOK
<1>2. /\ DOMAIN retained' = DOMAIN retained
      /\ \A i \in DOMAIN retained :
           retained'[i] = IF retained[i].state = Flush THEN [retained[i] EXCEPT !.state = Sent]
                                                       ELSE retained[i]
  BY ZenonT(30), <1>1, EntryTypes, MarkSentProperties DEF FlushComplete
<1>3. \A i \in DOMAIN retained : [retained[i] EXCEPT !.state = Sent].id = retained[i].id
                                 /\ [retained[i] EXCEPT !.state = Sent].state # Write(0)
  BY <1>1 DEF RetainedEntries, Sent, Write
<1>4. Traced
  BY ZenonT(30), <1>2, <1>3 DEF Traced
<1> QED BY <1>2, <1>3, <1>4, InPlaceOrdered DEF Accounted

(* A new request has an id no retained packet has, and is the last one.    *)
LEMMA RetainAccounted ==
  ASSUME IInv, SetFacts, NEW kind \in OpKinds, NEW len \in Nat, NEW msg \in Msgs,
         Len(retained) < MAX_RETAINED, Retain(kind, len, msg)
  PROVE  Accounted
<1>1. /\ DOMAIN retained' = 1 .. Len(retained) + 1
      /\ \A i \in DOMAIN retained : retained'[i] = retained[i]
      /\ retained'[Len(retained) + 1] = NewRetained(kind, AllocatedId, len, msg)
  BY ZenonT(30), RetainType DEF IInv
<1>2. \A k \in DOMAIN retained : retained[k].id # AllocatedId
  <2>1. AllocatedId \in FreeIds
    BY DEF SetFacts
  <2>2. ~HasId(retained, AllocatedId)
    BY <2>1 DEF FreeIds
  <2> QED BY <2>2 DEF HasId
<1>3. retained'[Len(retained) + 1].id = AllocatedId
  BY <1>1 DEF NewRetained
<1>4. \A j \in DOMAIN retained' : j = Len(retained) + 1 \/ j \in DOMAIN retained
  <2>1. DOMAIN retained = 1 .. Len(retained) /\ Len(retained) \in Nat
    BY DEF IInv, TypeOK
  <2> QED BY <1>1, <2>1
<1>5. Traced
  BY ZenonT(30), <1>1, <1>2, <1>3, <1>4 DEF Traced
<1>6. OldestFirst
  <2> SUFFICES ASSUME NEW i \in DOMAIN retained, NEW k \in DOMAIN retained',
                      NEW l \in DOMAIN retained',
                      k < l, retained[i].id = retained'[l].id
               PROVE  \E j \in DOMAIN retained : j < i /\ retained[j].id = retained'[k].id
    BY DEF OldestFirst
  <2>1. l \in DOMAIN retained /\ retained'[l] = retained[l]
    BY <1>1, <1>2, <1>3, <1>4
  <2>2. k \in DOMAIN retained /\ retained'[k] = retained[k]
    <3>1. DOMAIN retained = 1 .. Len(retained) /\ Len(retained) \in Nat
      BY LenProperties DEF IInv, TypeOK
    <3> QED BY <1>1, <2>1, <3>1
  <2>3. i = l
    BY <2>1 DEF IInv, QueueInv, IdsUnique, UniqueIds
  <2> QED BY <2>2, <2>3
<1> QED BY <1>5, <1>6 DEF Accounted

(* Every step accounts for the retained packets.                           *)
LEMMA RequestAccounted == IInv /\ SetFacts /\ SomeRequest => Accounted
<1> SUFFICES ASSUME IInv, SetFacts, SomeRequest PROVE Accounted
  OBVIOUS
<1>1. PICK len \in Lens, msg \in Msgs :
        \/ \E qos \in 1 .. 2 : KindOf(qos) \in RequestKinds /\ Publish(qos, len, msg)
        \/ \E kind \in RequestKinds \ PublishKinds : Request(kind, len, msg)
        \/ PUBLISH_QOS0 /\ PublishQos0(len)
  BY DEF SomeRequest
<1>2. len \in Nat
  BY SessionAssumption
<1>3. CASE UNCHANGED retained
  BY <1>3, UnchangedAccounted
<1>4. ASSUME NEW kind \in OpKinds, Len(retained) < MAX_RETAINED, Retain(kind, len, msg)
      PROVE  Accounted
  BY <1>2, <1>4, RetainAccounted
<1>5. ASSUME NEW qos \in 1 .. 2, KindOf(qos) \in RequestKinds, Publish(qos, len, msg)
      PROVE  Accounted
  <2>1. \A level : KindOf(level) \in OpKinds
    BY DEF KindOf, OpKinds, PublishKinds
  <2> QED BY <1>3, <1>4, <1>5, <2>1 DEF Publish, CanPublish
<1>6. ASSUME NEW kind \in RequestKinds \ PublishKinds, Request(kind, len, msg)
      PROVE  Accounted
  BY <1>3, <1>4, <1>6, SessionAssumption DEF Request
<1>7. CASE PublishQos0(len)
  BY <1>3, <1>7 DEF PublishQos0, queueVars
<1> QED BY <1>1, <1>5, <1>6, <1>7

(* An acknowledgement removes an entry, and may also end the connection.   *)
LEMMA ReceiveAccounted ==
  ASSUME IInv, NEW p \in InPackets, Receive(p)
  PROVE  Accounted
<1> USE DEF queueVars
<1>1. CASE UNCHANGED retained
  BY <1>1, UnchangedAccounted
<1>2. CASE ArmReplay
  BY <1>2, ArmReplayAccounted
<1>3. ASSUME NEW i \in DOMAIN retained,
             \/ retained' = RemoveAt(retained, i)
             \/ retained' = Rearm(MarkPublishDup(RemoveAt(retained, i)))
      PROVE  Accounted
  <2> DEFINE rest == RemoveAt(retained, i)
  <2>1. /\ retained \in Seq(RetainedEntries) /\ rest \in Seq(RetainedEntries)
        /\ \A j \in DOMAIN rest : \E k \in DOMAIN retained : rest[j] = retained[k]
    BY RemoveRequest DEF IInv, QueueInv, TypeOK
  <2>2. /\ DOMAIN rest = 1 .. Len(retained) - 1
        /\ \A m \in 1 .. Len(retained) - 1 :
             rest[m] = IF m < i THEN retained[m] ELSE retained[m + 1]
    BY <2>1, RemoveAtProperties
  <2> HIDE DEF rest
  <2>3. DOMAIN retained' = DOMAIN rest /\ \A m \in DOMAIN rest : retained'[m].id = rest[m].id
    <3>1. CASE retained' = rest
      BY <3>1
    <3>2. CASE retained' = Rearm(MarkPublishDup(rest))
      <4>1. DOMAIN retained' = DOMAIN rest
        BY ZenonT(30), <3>2 DEF Rearm, MarkPublishDup
      <4> QED BY <2>1, <3>2, <4>1, ReplayIsMarked
    <3> QED BY <1>3, <3>1, <3>2 DEF rest
  <2>4. OldestFirst
    BY <2>2, <2>3, RemovalOrdered
  <2>5. Traced
    BY <1>3, <2>1, SameEntriesTraced, ReplayTraced DEF rest
  <2> QED BY <2>4, <2>5 DEF Accounted
<1>4. CASE HandleAck(p)
  BY <1>1, <1>3, <1>4 DEF HandleAck
<1>5. CASE HandlePubRec(p)
  BY <1>1, <1>3, <1>5 DEF HandlePubRec
<1>6. CASE HandlePubComp(p) \/ HandlePingResp(p)
  BY <1>1, <1>6 DEF HandlePubComp, HandlePingResp
<1>7. CASE HandlePubRel(p) \/ HandlePublish(p) \/ HandleFatal(p)
  BY <1>1, <1>2, <1>7
     DEF HandlePubRel, HandlePublish, HandleFatal, Acknowledge, HandleDisconnect,
         SessionDisconnect
<1> QED BY <1>4, <1>5, <1>6, <1>7 DEF Receive

(* Every step: queues are replaced, armed, written or left alone.          *)
LEMMA StepAccounted == IInv /\ SetFacts /\ [Next]_vars => Accounted
<1> SUFFICES ASSUME IInv, SetFacts, [Next]_vars PROVE Accounted
  OBVIOUS
<1> USE DEF queueVars
<1>1. CASE UNCHANGED retained
  BY <1>1, UnchangedAccounted
<1>2. CASE ArmReplay
  BY <1>2, ArmReplayAccounted
<1>3. CASE ReceiveConnAck
  <2>1. UNCHANGED retained \/ retained' = <<>>
    BY <1>3 DEF ReceiveConnAck, ConnAckInvalid, ConnAck, ResetData
  <2> QED BY <1>1, <2>1 DEF Accounted, Traced, OldestFirst
<1>4. CASE SomeWriteStep
  <2>1. PICK q \in Queues : \E i \in DOMAIN out[q] :
          \E n \in 1 .. PacketLen(q, out[q][i]) : WriteStep(q, i, n)
    BY <1>4 DEF SomeWriteStep
  <2> QED BY <2>1, WriteAccounted
<1>5. \/ ConnectAborts \/ ConnectSent \/ ConnectRefused \/ Disconnect
      \/ TransportFailure \/ PingTimeout
      => ArmReplay
  BY DEF ConnectAborts, ConnectSent, ConnectRefused, Disconnect, TransportFailure,
         PingTimeout, HandleDisconnect, SessionDisconnect
<1>6. \/ FlushBegin \/ QueuePing \/ PingDue \/ PingExpires \/ UNCHANGED vars
      => UNCHANGED retained
  BY ZenonT(30) DEF FlushBegin, QueuePing, PingDue, PingExpires, vars
<1>7. CASE FlushComplete
  BY <1>7, FlushStepAccounted
<1>8. CASE SomeReceive
  BY <1>8, ReceiveAccounted DEF SomeReceive
<1>9. CASE SomeRequest
  BY <1>9, RequestAccounted
<1> QED BY <1>1, <1>2, <1>3, <1>4, <1>5, <1>6, <1>7, <1>8, <1>9 DEF Next

(* arm_replay marks every PUBLISH it sends again, for every way a          *)
(* connection can end: a packet that may have reached the broker never     *)
(* goes out again without its DUP bit.                                     *)
THEOREM ReplaysAreMarked == Spec => ReplayMarksDup
<1> DEFINE Marked == \A i \in DOMAIN retained, j \in DOMAIN retained' :
             /\ retained[i].id = retained'[j].id /\ generation' = generation
             /\ retained[i].kind \in PublishKinds
             /\ retained[i].state # Write(0) /\ retained'[j].state = Write(0)
             => retained'[j].dup
<1>1. IInv /\ [Next]_vars => Marked
  <2> SUFFICES ASSUME IInv, [Next]_vars,
                      NEW i \in DOMAIN retained, NEW j \in DOMAIN retained',
                      retained[i].id = retained'[j].id,
                      retained[i].kind \in PublishKinds,
                      retained[i].state # Write(0), retained'[j].state = Write(0)
               PROVE  retained'[j].dup
    OBVIOUS
  <2>1. Traced
    BY StepAccounted, FactsHold DEF IInv, Accounted
  <2>2. PICK k \in DOMAIN retained :
          /\ retained[k].id = retained'[j].id
          /\ \/ retained'[j].state # Write(0)
             \/ retained[k].state = Write(0)
             \/ retained[k].kind \in PublishKinds => retained'[j].dup
    BY <2>1 DEF Traced
  <2>3. k = i
    BY <2>2 DEF IInv, QueueInv, IdsUnique, UniqueIds
  <2> QED BY <2>2, <2>3
<1> QED BY <1>1, InductiveInvariant, PTL DEF Spec, ReplayMarksDup

(* Requests are kept in the order of their admission and written from the  *)
(* front, whatever is acknowledged and however often they are replayed: no *)
(* request is on the wire before an older one.  It says nothing of PUBRELs *)
(* and acknowledgements.                                                   *)
THEOREM OrderPreserved == Spec => NoOvertaking
<1>1. IInv /\ IInv' /\ [Next]_vars => OldestFirst /\ WrittenInOrder(retained)'
  <2> SUFFICES ASSUME IInv, IInv', [Next]_vars
               PROVE  OldestFirst /\ WrittenInOrder(retained)'
    OBVIOUS
  <2>1. OldestFirst
    BY StepAccounted, FactsHold DEF IInv, Accounted
  <2>2. WrittenInOrder(retained)'
    BY DEF IInv, QueueInv, WrittenFromFront
  <2> QED BY <2>1, <2>2
<1> QED BY <1>1, InductiveInvariant, PTL DEF Spec, NoOvertaking

-----------------------------------------------------------------------------
(* Room for the next CONNECT. *)

(* The reservation of connect is never eaten up: whatever is retained, and   *)
(* whatever client id the broker assigned, the next CONNECT fits beside the  *)
(* packets that wait for their acknowledgement.                              *)
THEOREM ReconnectNeverBlocked == Spec => []ReconnectFits
<1>1. Init => ReconnectInv
  BY DEF Init, ReconnectInv, ReconnectFits
<1>2. ReconnectInv => ReconnectFits
  BY DEF ReconnectInv
<1>3. IInv /\ IInv' /\ ReconnectInv /\ [Next]_vars => ReconnectInv'
  BY FactsHold, ReconnectStep DEF IInv
<1> QED BY <1>1, <1>2, <1>3, InductiveInvariant, PTL DEF Spec
=============================================================================
