---------------------------- MODULE SessionLemmas -----------------------------
(***************************************************************************)
(* What the operators of Outbound and Session return, for every queue: the *)
(* entries and the types that they keep, and QueueInv when a replay is     *)
(* armed or the queues do not change.                                      *)
(***************************************************************************)
EXTENDS Session, Integers, TLAPS

(* Leaves are small; the time is that of the context they stand in, and a  *)
(* leaf whose encoding takes too long is tried again.                      *)
USE SMTT(30), ZenonT(20), SMTT(31), SMTT(32)

-----------------------------------------------------------------------------
(* Sequences. *)

(* The entries of a queue, by index. *)
LEMMA LenProperties ==
  ASSUME NEW S, NEW seq \in Seq(S)
  PROVE  /\ Len(seq) \in Nat /\ DOMAIN seq = 1 .. Len(seq)
         /\ seq \in [1 .. Len(seq) -> S]
  OBVIOUS

(* An entry of a queue has the type of the queue's entries. *)
LEMMA ElementOfSeq ==
  ASSUME NEW S, NEW seq \in Seq(S), NEW n \in 1 .. Len(seq)
  PROVE  seq[n] \in S
  OBVIOUS

(* The empty queue. *)
LEMMA EmptySeq ==
  ASSUME NEW S
  PROVE  /\ <<>> \in Seq(S) /\ Len(<<>>) = 0 /\ DOMAIN <<>> = {}
         /\ \A seq \in Seq(S) : Len(seq) = 0 => seq = <<>>
  OBVIOUS

(* Vec::push. *)
LEMMA AppendProperties ==
  ASSUME NEW S, NEW seq \in Seq(S), NEW e \in S
  PROVE  /\ Append(seq, e) \in Seq(S) /\ Len(Append(seq, e)) = Len(seq) + 1
         /\ \A i \in 1 .. Len(seq) : Append(seq, e)[i] = seq[i]
         /\ Append(seq, e)[Len(seq) + 1] = e
  OBVIOUS

(* An assignment to one entry. *)
LEMMA ExceptSeq ==
  ASSUME NEW S, NEW seq \in Seq(S), NEW i \in 1 .. Len(seq), NEW e \in S
  PROVE  LET new == [seq EXCEPT ![i] = e]
         IN  /\ new \in Seq(S) /\ Len(new) = Len(seq)
             /\ \A j \in 1 .. Len(seq) : new[j] = IF j = i THEN e ELSE seq[j]
  OBVIOUS

(* Two parts of a queue, one after the other. *)
LEMMA ConcatProperties ==
  ASSUME NEW S, NEW s \in Seq(S), NEW t \in Seq(S)
  PROVE  /\ s \o t \in Seq(S) /\ Len(s \o t) = Len(s) + Len(t)
         /\ \A i \in 1 .. Len(s) + Len(t) :
              (s \o t)[i] = IF i <= Len(s) THEN s[i] ELSE t[i - Len(s)]
  OBVIOUS

(* A part of a queue. *)
LEMMA SubSeqProperties ==
  ASSUME NEW S, NEW s, NEW m \in Int, NEW n \in Int,
         \A i \in m .. n : s[i] \in S
  PROVE  /\ SubSeq(s, m, n) \in Seq(S)
         /\ Len(SubSeq(s, m, n)) = IF m <= n THEN n - m + 1 ELSE 0
         /\ \A i \in 1 .. n - m + 1 : SubSeq(s, m, n)[i] = s[m + i - 1]
  OBVIOUS

-----------------------------------------------------------------------------
(* The queues of Outbound. *)

(* A function on 1..n is a sequence of length n (heapless::Vec content). *)
LEMMA FunctionIsSeq ==
  ASSUME NEW S, NEW n \in Nat, NEW f \in [1 .. n -> S]
  PROVE  f \in Seq(S) /\ Len(f) = n /\ DOMAIN f = 1 .. n
<1>1. f \in Seq(S)
  OBVIOUS
<1>2. DOMAIN f = 1 .. n
  OBVIOUS
<1>3. Len(f) = n
  BY <1>1, <1>2, LenProperties
<1> QED
  BY <1>1, <1>2, <1>3

(* Vec::remove, as ack_packet uses it: later entries move down by one. *)
LEMMA RemoveAtProperties ==
  ASSUME NEW S, NEW q \in Seq(S), NEW i \in DOMAIN q
  PROVE  /\ RemoveAt(q, i) \in Seq(S)
         /\ Len(RemoveAt(q, i)) = Len(q) - 1
         /\ DOMAIN RemoveAt(q, i) = 1 .. Len(q) - 1
         /\ \A j \in 1 .. Len(q) - 1 :
              RemoveAt(q, i)[j] = IF j < i THEN q[j] ELSE q[j + 1]
<1> DEFINE a == SubSeq(q, 1, i - 1)
           b == SubSeq(q, i + 1, Len(q))
<1>1. Len(q) \in Nat /\ i \in 1 .. Len(q) /\ DOMAIN q = 1 .. Len(q)
  BY LenProperties
<1>2. a \in Seq(S) /\ Len(a) = i - 1 /\ \A j \in 1 .. i - 1 : a[j] = q[j]
  BY <1>1, SubSeqProperties, Z3T(30), Z3T(31)
<1>3. b \in Seq(S) /\ Len(b) = Len(q) - i /\ \A j \in 1 .. Len(q) - i : b[j] = q[i + j]
  BY <1>1, SubSeqProperties, Z3T(30), Z3T(31)
<1>4. /\ a \o b \in Seq(S)
      /\ Len(a \o b) = Len(a) + Len(b)
      /\ \A j \in 1 .. Len(a) + Len(b) :
           (a \o b)[j] = IF j <= Len(a) THEN a[j] ELSE b[j - Len(a)]
  <2> HIDE DEF a, b
  <2> QED
    BY ZenonT(30), <1>2, <1>3, ConcatProperties
<1>5. Len(a \o b) = Len(q) - 1
  <2> HIDE DEF a, b
  <2> QED
    BY <1>1, <1>2, <1>3, <1>4
<1>6. \A j \in 1 .. Len(q) - 1 : (a \o b)[j] = IF j < i THEN q[j] ELSE q[j + 1]
  <2> HIDE DEF a, b
  <2> SUFFICES ASSUME NEW j \in 1 .. Len(q) - 1
               PROVE  (a \o b)[j] = IF j < i THEN q[j] ELSE q[j + 1]
    BY ZenonT(30)
  <2>1. CASE j < i
    BY <2>1, <1>1, <1>2, <1>3, <1>4
  <2>2. CASE ~(j < i)
    <3>1. j - Len(a) \in 1 .. Len(q) - i /\ i + (j - Len(a)) = j + 1
      BY <2>2, <1>1, <1>2
    <3>2. j \in 1 .. Len(a) + Len(b) /\ ~(j <= Len(a))
      BY <2>2, <1>1, <1>2, <1>3
    <3>3. (a \o b)[j] = b[j - Len(a)]
      BY <3>2, <1>4
    <3> QED
      BY <2>2, <3>1, <3>3, <1>3
  <2> QED
    BY ZenonT(30), <2>1, <2>2
<1>7. DOMAIN (a \o b) = 1 .. Len(q) - 1
  BY ZenonT(30), <1>4, <1>5, LenProperties
<1> QED
  BY ZenonT(30), <1>4, <1>5, <1>6, <1>7 DEF RemoveAt

(* Vec::swap_remove, as ack_release uses it. *)
LEMMA SwapRemoveProperties ==
  ASSUME NEW S, NEW q \in Seq(S), NEW i \in DOMAIN q
  PROVE  /\ SwapRemove(q, i) \in Seq(S)
         /\ Len(SwapRemove(q, i)) = Len(q) - 1
         /\ DOMAIN SwapRemove(q, i) = 1 .. Len(q) - 1
         /\ \A j \in 1 .. Len(q) - 1 :
              SwapRemove(q, i)[j] = IF j = i THEN q[Len(q)] ELSE q[j]
<1> DEFINE r == [q EXCEPT ![i] = q[Len(q)]]
<1>1. Len(q) \in Nat /\ i \in 1 .. Len(q) /\ DOMAIN q = 1 .. Len(q)
  BY LenProperties
<1>2. q[Len(q)] \in S
  BY <1>1, ElementOfSeq
<1>3. r \in Seq(S) /\ Len(r) = Len(q)
  BY <1>1, <1>2, ExceptSeq
<1>4. \A j \in 1 .. Len(q) : r[j] = IF j = i THEN q[Len(q)] ELSE q[j]
  BY <1>1
<1>5. /\ SubSeq(r, 1, Len(r) - 1) \in Seq(S)
      /\ Len(SubSeq(r, 1, Len(r) - 1)) = Len(q) - 1
      /\ \A j \in 1 .. Len(q) - 1 : SubSeq(r, 1, Len(r) - 1)[j] = r[j]
  BY <1>1, <1>3, SubSeqProperties, Z3T(30), Z3T(31)
<1> QED
  BY <1>1, <1>4, <1>5, LenProperties DEF SwapRemove

(* arm_replay resets the state of every entry, and nothing else but DUP. *)
LEMMA RearmProperties ==
  ASSUME NEW S, NEW q \in Seq(S),
         \A e \in S : [e EXCEPT !.state = Write(0)] \in S
  PROVE  /\ Rearm(q) \in Seq(S)
         /\ Len(Rearm(q)) = Len(q)
         /\ DOMAIN Rearm(q) = DOMAIN q
         /\ \A i \in DOMAIN q : Rearm(q)[i] = [q[i] EXCEPT !.state = Write(0)]
<1>1. Len(q) \in Nat /\ DOMAIN q = 1 .. Len(q)
  BY LenProperties
<1>2. \A i \in 1 .. Len(q) : q[i] \in S
  BY ElementOfSeq
<1>3. Rearm(q) \in [1 .. Len(q) -> S]
  BY <1>1, <1>2 DEF Rearm
<1>4. \A i \in DOMAIN q : Rearm(q)[i] = [q[i] EXCEPT !.state = Write(0)]
  BY DEF Rearm
<1> QED
  BY <1>1, <1>3, <1>4, FunctionIsSeq

(* mark_publish_dup changes only DUP bits. *)
LEMMA MarkPublishDupProperties ==
  ASSUME NEW q \in Seq(RetainedEntries)
  PROVE  /\ MarkPublishDup(q) \in Seq(RetainedEntries)
         /\ Len(MarkPublishDup(q)) = Len(q)
         /\ DOMAIN MarkPublishDup(q) = DOMAIN q
         /\ \A i \in DOMAIN q : MarkPublishDup(q)[i].id = q[i].id
<1>1. Len(q) \in Nat /\ DOMAIN q = 1 .. Len(q)
  BY LenProperties
<1>2. \A i \in 1 .. Len(q) : q[i] \in RetainedEntries
  BY ElementOfSeq
<1>3. MarkPublishDup(q) \in [1 .. Len(q) -> RetainedEntries]
  BY ZenonT(30), <1>1, <1>2 DEF MarkPublishDup, RetainedEntries
<1>4. \A i \in DOMAIN q : MarkPublishDup(q)[i].id = q[i].id
  BY <1>1, <1>2 DEF MarkPublishDup, RetainedEntries
<1> QED
  BY <1>1, <1>3, <1>4, FunctionIsSeq

(* complete_flush turns Flush into Sent in the queues that keep entries. *)
LEMMA MarkSentProperties ==
  ASSUME NEW S, NEW q \in Seq(S),
         \A e \in S : [e EXCEPT !.state = Sent] \in S
  PROVE  /\ MarkSent(q) \in Seq(S)
         /\ Len(MarkSent(q)) = Len(q)
         /\ DOMAIN MarkSent(q) = DOMAIN q
         /\ \A i \in DOMAIN q :
              MarkSent(q)[i] = IF q[i].state = Flush THEN [q[i] EXCEPT !.state = Sent]
                                                     ELSE q[i]
<1>1. Len(q) \in Nat /\ DOMAIN q = 1 .. Len(q)
  BY LenProperties
<1>2. \A i \in 1 .. Len(q) : q[i] \in S
  BY ElementOfSeq
<1>3. MarkSent(q) \in [1 .. Len(q) -> S]
  BY <1>1, <1>2 DEF MarkSent
<1>4. \A i \in DOMAIN q :
        MarkSent(q)[i] = IF q[i].state = Flush THEN [q[i] EXCEPT !.state = Sent]
                                               ELSE q[i]
  BY DEF MarkSent
<1> QED
  BY <1>1, <1>3, <1>4, FunctionIsSeq

-----------------------------------------------------------------------------
(* What the steps need to know of finite sets; it follows from TypeOK. *)

(* next_packet_id finds a free id; complete_flush on a control queue of at *)
(* most one entry drops the entry exactly when it is in Flush.             *)
SetFacts ==
  /\ AllocatedId \in FreeIds
  /\ \A q \in Seq(ControlEntries) :
       Len(q) <= 1 =>
         /\ (\E i \in DOMAIN q : q[i].state = Flush) => DropFlushed(q) = <<>>
         /\ (\A i \in DOMAIN q : q[i].state # Flush) => DropFlushed(q) = q

-----------------------------------------------------------------------------
(* Entries keep their type under every operation of Outbound. *)

(* Changing the SendState of a queue entry keeps its type.                 *)
LEMMA EntryTypes ==
  /\ \A e \in ControlEntries, st \in SendStates : [e EXCEPT !.state = st] \in ControlEntries
  /\ \A e \in ReleaseEntries, st \in SendStates : [e EXCEPT !.state = st] \in ReleaseEntries
  /\ \A e \in RetainedEntries, st \in SendStates : [e EXCEPT !.state = st] \in RetainedEntries
  /\ Flush \in SendStates /\ Sent \in SendStates
  /\ \A n \in Nat : Write(n) \in SendStates
<1>1. Flush \in SendStates /\ Sent \in SendStates /\ \A n \in Nat : Write(n) \in SendStates
  BY DEF SendStates, Write
<1>2. \A e \in ControlEntries, st \in SendStates : [e EXCEPT !.state = st] \in ControlEntries
  BY DEF ControlEntries
<1>3. \A e \in ReleaseEntries, st \in SendStates : [e EXCEPT !.state = st] \in ReleaseEntries
  BY DEF ReleaseEntries
<1>4. \A e \in RetainedEntries, st \in SendStates : [e EXCEPT !.state = st] \in RetainedEntries
  BY DEF RetainedEntries
<1> QED
  BY <1>1, <1>2, <1>3, <1>4

(* arm_replay keeps the type, the length and the ids of the three queues   *)
(* and leaves every entry to be written from its first byte.               *)
LEMMA ArmReplayTypes ==
  ASSUME NEW c \in Seq(ControlEntries), NEW r \in Seq(ReleaseEntries),
         NEW t \in Seq(RetainedEntries)
  PROVE  /\ Rearm(c) \in Seq(ControlEntries) /\ Len(Rearm(c)) = Len(c)
         /\ DOMAIN Rearm(c) = DOMAIN c /\ AllArmed(Rearm(c))
         /\ Rearm(r) \in Seq(ReleaseEntries) /\ Len(Rearm(r)) = Len(r)
         /\ DOMAIN Rearm(r) = DOMAIN r /\ AllArmed(Rearm(r))
         /\ \A i \in DOMAIN r : Rearm(r)[i].id = r[i].id
         /\ Rearm(MarkPublishDup(t)) \in Seq(RetainedEntries)
         /\ Len(Rearm(MarkPublishDup(t))) = Len(t)
         /\ DOMAIN Rearm(MarkPublishDup(t)) = DOMAIN t
         /\ AllArmed(Rearm(MarkPublishDup(t)))
         /\ \A i \in DOMAIN t : Rearm(MarkPublishDup(t))[i].id = t[i].id
<1>1. /\ \A e \in ControlEntries : [e EXCEPT !.state = Write(0)] \in ControlEntries
      /\ \A e \in ReleaseEntries : [e EXCEPT !.state = Write(0)] \in ReleaseEntries
      /\ \A e \in RetainedEntries : [e EXCEPT !.state = Write(0)] \in RetainedEntries
  BY EntryTypes
<1>2. /\ Rearm(c) \in Seq(ControlEntries) /\ Len(Rearm(c)) = Len(c)
      /\ DOMAIN Rearm(c) = DOMAIN c
      /\ \A i \in DOMAIN c : Rearm(c)[i] = [c[i] EXCEPT !.state = Write(0)]
  BY <1>1, RearmProperties
<1>3. /\ Rearm(r) \in Seq(ReleaseEntries) /\ Len(Rearm(r)) = Len(r)
      /\ DOMAIN Rearm(r) = DOMAIN r
      /\ \A i \in DOMAIN r : Rearm(r)[i] = [r[i] EXCEPT !.state = Write(0)]
  BY ZenonT(30), <1>1, RearmProperties
<1>4. /\ MarkPublishDup(t) \in Seq(RetainedEntries)
      /\ Len(MarkPublishDup(t)) = Len(t) /\ DOMAIN MarkPublishDup(t) = DOMAIN t
      /\ \A i \in DOMAIN t : MarkPublishDup(t)[i].id = t[i].id
  BY MarkPublishDupProperties
<1> DEFINE d == MarkPublishDup(t)
<1>5. /\ Rearm(d) \in Seq(RetainedEntries) /\ Len(Rearm(d)) = Len(d)
      /\ DOMAIN Rearm(d) = DOMAIN d
      /\ \A i \in DOMAIN d : Rearm(d)[i] = [d[i] EXCEPT !.state = Write(0)]
  <2> HIDE DEF d
  <2> QED
    BY ZenonT(30), <1>1, <1>4, RearmProperties DEF d
<1>6. /\ \A i \in DOMAIN c : c[i] \in ControlEntries
      /\ \A i \in DOMAIN r : r[i] \in ReleaseEntries
      /\ \A i \in DOMAIN d : d[i] \in RetainedEntries
  BY <1>4, ElementOfSeq, LenProperties
<1>7. /\ AllArmed(Rearm(c)) /\ AllArmed(Rearm(r)) /\ \A i \in DOMAIN r : Rearm(r)[i].id = r[i].id
  BY <1>2, <1>3, <1>6 DEF AllArmed, ControlEntries, ReleaseEntries
<1>8. AllArmed(Rearm(d)) /\ \A i \in DOMAIN t : Rearm(d)[i].id = t[i].id
  <2> HIDE DEF d
  <2> QED
    BY ZenonT(30), <1>4, <1>5, <1>6 DEF AllArmed, RetainedEntries, d
<1> QED
  BY <1>2, <1>3, <1>4, <1>5, <1>7, <1>8

(* With unique ids, looking a packet up by its id finds that packet. *)
LEMMA SetIdWrittenIsExcept ==
  ASSUME NEW S, NEW q \in Seq(S), NEW i \in DOMAIN q, NEW written, NEW len,
         \A j, k \in DOMAIN q : q[j].id = q[k].id => j = k
  PROVE  SetIdWritten(q, q[i].id, written, len)
           = [q EXCEPT ![i] = SetWritten(q[i], written, len)]
<1>1. Len(q) \in Nat /\ DOMAIN q = 1 .. Len(q) /\ q \in [1 .. Len(q) -> S]
  BY LenProperties
<1>2. \A j \in DOMAIN q : FirstWithId(q, j, q[i].id) <=> j = i
  BY <1>1 DEF FirstWithId
<1> HIDE DEF SetWritten
<1> QED
  BY ZenonT(30), <1>1, <1>2 DEF SetIdWritten

-----------------------------------------------------------------------------
(* Type correctness *)

(* A new Session has its type.                                             *)
LEMMA TypeInit == Init => TypeOK
<1> SUFFICES ASSUME Init PROVE TypeOK
  OBVIOUS
<1>1. /\ control \in Seq(ControlEntries)
      /\ release \in Seq(ReleaseEntries) /\ Len(release) <= MAX_PENDING_RELEASE
      /\ retained \in Seq(RetainedEntries) /\ Len(retained) <= MAX_RETAINED
  BY EmptySeq, SizesAssumption DEF Init
<1>2. packetId \in PacketIds /\ serverIds \in SUBSET PacketIds /\ sendQuota \in Nat
      /\ maxSendQuota \in Nat /\ generation \in Nat
  BY SizesAssumption, IdsAssumption DEF Init, PacketIds
<1>3. maxPacketSize \in Nat /\ keepalive \in BOOLEAN
  BY SizesAssumption, SessionAssumption DEF Init, NO_LIMIT
<1>4. open \in [queue : Queues \cup {"none"}, index : Nat, id : Nat, written : Nat]
  BY DEF Init, NoPacket
<1>5. sessionPresent \in BOOLEAN
  BY ZenonT(30) DEF Init
<1>6. /\ connectWorkspace \in Nat /\ clientIdLen \in Nat /\ maxQos \in 0 .. 2
      /\ nextPing \in {"none", "armed", "due"}
      /\ pingTimeout \in {"none", "armed", "expired"}
      /\ conn \in {"none", "handshake", "live", "dead"}
      /\ flushState \in {"Clean", "Dirty", "Flushing"}
  BY DEF Init
<1> QED
  BY <1>1, <1>2, <1>3, <1>4, <1>5, <1>6 DEF TypeOK

(* Every operation leaves the queues well typed and within capacity. *)
QueueTypes ==
  /\ control \in Seq(ControlEntries)
  /\ release \in Seq(ReleaseEntries) /\ Len(release) <= MAX_PENDING_RELEASE
  /\ retained \in Seq(RetainedEntries) /\ Len(retained) <= MAX_RETAINED

(* arm_replay keeps the queues well typed and within their capacity.       *)
LEMMA ArmReplayKeepsTypes ==
  ASSUME QueueTypes, ArmReplay
  PROVE  QueueTypes'
  BY ArmReplayTypes DEF QueueTypes, ArmReplay

(* queue_control keeps the type of pending_control.                        *)
LEMMA QueueControlType ==
  ASSUME control \in Seq(ControlEntries),
         NEW action \in {"PubAck", "PubRec", "PubComp", "PingReq"},
         NEW id \in Nat, NEW ok \in BOOLEAN,
         QueueControl(action, id, ok)
  PROVE  control' \in Seq(ControlEntries)
<1>1. NewControl(action, id, ok) \in ControlEntries
  BY EntryTypes DEF NewControl, ControlEntries
<1> QED
  BY <1>1, AppendProperties DEF QueueControl

(* next_packet_id returns a packet id and leaves one to try next.          *)
LEMMA TakeIdType ==
  ASSUME TypeOK, SetFacts, TakeId
  PROVE  packetId' \in PacketIds /\ AllocatedId \in PacketIds
  BY IdsAssumption DEF SetFacts, TakeId, NextId, FreeIds, PacketIds

(* retain_packet into a free slot keeps `retained` typed and within its    *)
(* capacity.                                                               *)
LEMMA RetainType ==
  ASSUME TypeOK, SetFacts, NEW kind \in OpKinds, NEW len \in Nat, NEW msg \in Msgs,
         Len(retained) < MAX_RETAINED, Retain(kind, len, msg)
  PROVE  /\ retained' \in Seq(RetainedEntries) /\ Len(retained') <= MAX_RETAINED
         /\ Len(retained') = Len(retained) + 1
         /\ DOMAIN retained' = 1 .. Len(retained) + 1
         /\ \A i \in DOMAIN retained : retained'[i] = retained[i]
         /\ retained'[Len(retained) + 1] = NewRetained(kind, AllocatedId, len, msg)
<1>1. NewRetained(kind, AllocatedId, len, msg) \in RetainedEntries
  BY EntryTypes DEF SetFacts, NewRetained, RetainedEntries, FreeIds
<1>2. retained \in Seq(RetainedEntries) /\ Len(retained) \in Nat
      /\ DOMAIN retained = 1 .. Len(retained)
  BY LenProperties DEF TypeOK
<1> QED
  BY <1>1, <1>2, AppendProperties, SizesAssumption DEF Retain

(* ack_packet keeps `retained` typed and within its capacity.              *)
LEMMA RemoveRequestType ==
  ASSUME TypeOK, NEW i \in DOMAIN retained
  PROVE  /\ RemoveAt(retained, i) \in Seq(RetainedEntries)
         /\ Len(RemoveAt(retained, i)) <= MAX_RETAINED
<1>1. Len(retained) \in Nat /\ Len(retained) <= MAX_RETAINED
  BY LenProperties DEF TypeOK
<1> QED
  BY <1>1, RemoveAtProperties, SizesAssumption DEF TypeOK

(* Acknowledging an inbound PUBLISH or PUBREL keeps the types, also when   *)
(* the acknowledgement is above the size limit and ends the connection.    *)
LEMMA AcknowledgeType ==
  ASSUME TypeOK, NEW action \in {"PubAck", "PubRec", "PubComp"},
         NEW id \in PacketIds, NEW ok \in BOOLEAN,
         Acknowledge(action, id, ok)
  PROVE  /\ QueueTypes' /\ nextPing' \in {"none", "armed", "due"}
         /\ pingTimeout' \in {"none", "armed", "expired"}
         /\ conn' \in {"none", "handshake", "live", "dead"}
<1>1. QueueTypes /\ id \in Nat
  BY IdsAssumption DEF QueueTypes, TypeOK, PacketIds
<1>2. CASE Fits(ACK_LEN)
  BY <1>1, <1>2, QueueControlType DEF Acknowledge, QueueTypes, TypeOK, timerVars
<1>3. CASE ~Fits(ACK_LEN)
  BY <1>1, <1>3, ArmReplayKeepsTypes
     DEF Acknowledge, HandleDisconnect, SessionDisconnect, ResetTransport
<1> QED
  BY <1>2, <1>3

(* A write changes the state of the entry it belongs to and nothing else   *)
(* in the queues.                                                          *)
LEMMA WriteStepEffect ==
  ASSUME TypeOK, IdsUnique, NEW q \in Queues, NEW i \in DOMAIN out[q], NEW n \in Nat,
         WriteStep(q, i, n),
         NEW written, written = out[q][i].state.written + n,
         NEW len, len = PacketLen(q, out[q][i])
  PROVE  /\ control' = IF q = "control" THEN [control EXCEPT ![i] = SetWritten(control[i], written, len)]
                        ELSE control
         /\ release' = IF q = "release" THEN [release EXCEPT ![i] = SetWritten(release[i], written, len)]
                        ELSE release
         /\ retained' = IF q = "retained" THEN [retained EXCEPT ![i] = SetWritten(retained[i], written, len)]
                         ELSE retained
<1> HIDE DEF SetWritten, SetIdWritten
<1>1. control' = IF q = "control" THEN [control EXCEPT ![i] = SetWritten(control[i], written, len)]
                 ELSE control
  <2>1. CASE q = "control"
    <3>1. out[q][i] = control[i]
      BY <2>1 DEF out
    <3> QED
      BY <2>1, <3>1 DEF WriteStep
  <2>2. CASE q # "control"
    BY <2>2 DEF WriteStep
  <2> QED
    BY <2>1, <2>2
<1>2. CASE q = "release"
  <2>1. release' = SetIdWritten(release, release[i].id, written, len)
    BY <1>2 DEF WriteStep, out
  <2>2. release \in Seq(ReleaseEntries) /\ i \in DOMAIN release
        /\ \A j, k \in DOMAIN release : release[j].id = release[k].id => j = k
    BY ZenonT(30), <1>2 DEF TypeOK, IdsUnique, UniqueIds, out
  <2>3. release' = [release EXCEPT ![i] = SetWritten(release[i], written, len)]
    BY <2>1, <2>2, SetIdWrittenIsExcept
  <2>4. retained' = retained
    BY <1>2 DEF WriteStep
  <2> QED
    BY <1>1, <1>2, <2>3, <2>4
<1>3. CASE q = "retained"
  <2>1. retained' = SetIdWritten(retained, retained[i].id, written, len)
    BY <1>3 DEF WriteStep, out
  <2>2. retained \in Seq(RetainedEntries) /\ i \in DOMAIN retained
        /\ \A j, k \in DOMAIN retained : retained[j].id = retained[k].id => j = k
    BY ZenonT(30), <1>3 DEF TypeOK, IdsUnique, UniqueIds, out
  <2>3. retained' = [retained EXCEPT ![i] = SetWritten(retained[i], written, len)]
    BY <2>1, <2>2, SetIdWrittenIsExcept
  <2>4. release' = release
    BY ZenonT(30), <1>3 DEF WriteStep
  <2> QED
    BY <1>1, <1>3, <2>3, <2>4
<1>4. CASE q = "control"
  BY ZenonT(30), <1>1, <1>4 DEF WriteStep
<1>5. q = "control" \/ q = "release" \/ q = "retained"
  BY DEF Queues
<1> QED
  BY ZenonT(30), <1>2, <1>3, <1>4, <1>5

-----------------------------------------------------------------------------
(* The queues *)

(* What the input path sees: everything is sent and acknowledgements have  *)
(* left the queue.                                                         *)
LEMMA QuietState ==
  ASSUME IInv, conn = "live", Quiet
  PROVE  /\ control = <<>> /\ open = NoPacket
         /\ \A i \in DOMAIN release : release[i].state = Sent
         /\ \A i \in DOMAIN retained : retained[i].state = Sent
<1>1. /\ control \in Seq(ControlEntries) /\ release \in Seq(ReleaseEntries)
      /\ retained \in Seq(RetainedEntries)
      /\ \A j \in DOMAIN control : control[j] \in ControlEntries
      /\ \A j \in DOMAIN release : release[j] \in ReleaseEntries
      /\ \A j \in DOMAIN retained : retained[j] \in RetainedEntries
  BY ElementOfSeq, LenProperties DEF TypeOK, IInv
<1>2. /\ \A j \in DOMAIN control : control[j].state \in SendStates
      /\ \A j \in DOMAIN release : release[j].state \in SendStates
      /\ \A j \in DOMAIN retained : retained[j].state \in SendStates
  BY <1>1 DEF ControlEntries, ReleaseEntries, RetainedEntries
<1>3. \A st \in SendStates : st.tag # "Write" => st = Flush \/ st = Sent
  BY DEF SendStates
<1>4. /\ \A j \in DOMAIN control : control[j].state.tag # "Write"
      /\ \A j \in DOMAIN release : release[j].state.tag # "Write"
      /\ \A j \in DOMAIN retained : retained[j].state.tag # "Write"
  BY DEF Quiet, NoStep, Writable, Queues, out
<1>5. ~Unflushed(control) /\ ~Unflushed(release) /\ ~Unflushed(retained)
  BY DEF IInv, QueueInv, FlushAccounted, Quiet
<1>6. DOMAIN control = {}
  BY <1>2, <1>3, <1>4, <1>5 DEF Unflushed, IInv, QueueInv, ControlUnsent
<1>7. control = <<>>
  BY <1>1, <1>6, LenProperties, EmptySeq
<1>8. open = NoPacket
  <2> SUFFICES ASSUME open # NoPacket PROVE FALSE
    OBVIOUS
  <2>1. /\ open.queue \in Queues /\ open.index \in DOMAIN out[open.queue]
        /\ out[open.queue][open.index].state = Write(open.written)
    BY DEF IInv, QueueInv, StreamFramed
  <2> QED
    BY <2>1 DEF Quiet, NoStep, Writable, Write
<1> QED
  BY <1>2, <1>3, <1>4, <1>5, <1>7, <1>8 DEF Unflushed

(* After a disconnect or a reset nothing is in progress. *)
LEMMA ArmedQueues ==
  ASSUME AllArmed(control)', AllArmed(release)', AllArmed(retained)',
         OneControl', IdsUnique', pingTimeout' = "none",
         conn' = "live" => open' = NoPacket,
         conn' = "handshake" => open' = NoPacket /\ flushState' = "Clean"
  PROVE  QueueInv'
<1>1. /\ \A i \in DOMAIN control' : control'[i].state = Write(0)
      /\ \A i \in DOMAIN release' : release'[i].state = Write(0)
      /\ \A i \in DOMAIN retained' : retained'[i].state = Write(0)
  BY DEF AllArmed
<1>2. Write(0) # Flush /\ Write(0) # Sent /\ Write(0).written = 0
  BY DEF Write, Flush, Sent
<1>3. ControlUnsent' /\ FlushAccounted' /\ WrittenFromFront' /\ OnePing'
  BY <1>1, <1>2 DEF ControlUnsent, FlushAccounted, Unflushed, WrittenFromFront, WrittenInOrder, OnePing
<1>4. StreamFramed'
  <2>1. \A q \in Queues : \A i \in DOMAIN out'[q] : ~InProgress(out'[q][i])
    BY <1>1, <1>2 DEF Queues, out, InProgress
  <2> QED
    BY <2>1 DEF StreamFramed
<1>5. HandshakeArmed'
  BY DEF HandshakeArmed
<1> QED
  BY <1>3, <1>4, <1>5 DEF QueueInv

(* arm_replay on a connection that is over establishes QueueInv, whatever  *)
(* had been written.                                                       *)
LEMMA ArmReplayQueues ==
  ASSUME NEW c \in Seq(ControlEntries), NEW r \in Seq(ReleaseEntries),
         NEW t \in Seq(RetainedEntries), Len(c) <= 1, UniqueIds(t, r),
         control' = Rearm(c), release' = Rearm(r),
         retained' = Rearm(MarkPublishDup(t)), pingTimeout' = "none",
         conn' # "live",
         conn' = "handshake" => open' = NoPacket /\ flushState' = "Clean"
  PROVE  QueueInv'
<1>1. AllArmed(control)' /\ AllArmed(release)' /\ AllArmed(retained)' /\ OneControl'
  BY ArmReplayTypes DEF OneControl, AllArmed
<1>2. IdsUnique'
  <2>1. DOMAIN release' = DOMAIN r /\ \A i \in DOMAIN r : release'[i].id = r[i].id
    BY ArmReplayTypes
  <2>2. DOMAIN retained' = DOMAIN t /\ \A i \in DOMAIN t : retained'[i].id = t[i].id
    BY ArmReplayTypes
  <2> QED
    BY <2>1, <2>2 DEF IdsUnique, UniqueIds
<1> QED
  BY <1>1, <1>2, ArmedQueues

(* Everything is sent, except perhaps for one new entry at the end. *)
Calm(queue) ==
  \A i \in DOMAIN queue :
    queue[i].state = Sent \/ (i = Len(queue) /\ queue[i].state = Write(0))

(* On a live connection with no packet partly on the wire, queues whose    *)
(* entries are sent or not yet begun, in this order, satisfy QueueInv.     *)
LEMMA CalmQueues ==
  ASSUME TypeOK', conn' = "live", open' = NoPacket,
         Calm(control)', Calm(release)', Calm(retained)',
         IdsUnique', OneControl', ControlUnsent', OnePing'
  PROVE  QueueInv'
<1>1. Write(0) # Flush /\ Write(0).tag = "Write" /\ Sent.tag # "Write" /\ Sent # Flush
      /\ Write(0).written = 0
  BY DEF Write, Flush, Sent
<1>2. FlushAccounted'
  BY <1>1 DEF FlushAccounted, Unflushed, Calm
<1>3. WrittenFromFront'
  <2>1. ASSUME NEW queue, NEW S, queue \in Seq(S), Calm(queue)
        PROVE  WrittenInOrder(queue)
    BY <2>1, <1>1, LenProperties DEF Calm, WrittenInOrder
  <2>2. /\ Calm(control') /\ Calm(release') /\ Calm(retained')
        /\ control' \in Seq(ControlEntries) /\ release' \in Seq(ReleaseEntries)
        /\ retained' \in Seq(RetainedEntries)
    BY DEF Calm, TypeOK
  <2>3. WrittenInOrder(control') /\ WrittenInOrder(release') /\ WrittenInOrder(retained')
    BY <2>1, <2>2
  <2> QED
    BY <2>3 DEF WrittenFromFront, WrittenInOrder
<1>4. StreamFramed'
  <2>1. \A q \in Queues : \A i \in DOMAIN out'[q] : ~InProgress(out'[q][i])
    <3>1. ASSUME NEW queue, Calm(queue)
          PROVE  \A i \in DOMAIN queue : ~InProgress(queue[i])
      BY <1>1, <3>1 DEF Calm, InProgress
    <3>2. Calm(control') /\ Calm(release') /\ Calm(retained')
      BY DEF Calm
    <3>3. /\ out'["control"] = control' /\ out'["release"] = release'
          /\ out'["retained"] = retained'
      BY DEF out
    <3>4. /\ \A i \in DOMAIN control' : ~InProgress(control'[i])
          /\ \A i \in DOMAIN release' : ~InProgress(release'[i])
          /\ \A i \in DOMAIN retained' : ~InProgress(retained'[i])
      BY <3>1, <3>2
    <3> HIDE DEF InProgress
    <3> QED BY <3>3, <3>4 DEF Queues
  <2> QED
    BY <2>1 DEF StreamFramed
<1>5. HandshakeArmed'
  BY DEF HandshakeArmed
<1> QED
  BY <1>2, <1>3, <1>4, <1>5 DEF QueueInv

(* A step that touches neither the queues nor the stream keeps QueueInv.   *)
LEMMA SameQueues ==
  ASSUME IInv, UNCHANGED <<control, release, retained, open, conn>>,
         flushState' = flushState \/ (flushState' = "Flushing" /\ conn = "live"),
         pingTimeout = "none" => pingTimeout' = "none"
  PROVE  QueueInv'
<1>1. UNCHANGED out
  BY DEF out
<1>2. /\ IdsUnique' /\ OneControl' /\ ControlUnsent' /\ StreamFramed'
  BY <1>1 DEF IInv, QueueInv, IdsUnique, UniqueIds, OneControl, ControlUnsent, StreamFramed
<1>3. FlushAccounted' /\ WrittenFromFront' /\ OnePing' /\ HandshakeArmed'
  BY DEF IInv, QueueInv, FlushAccounted, Unflushed, WrittenFromFront, WrittenInOrder, OnePing,
         HandshakeArmed, AllArmed
<1> QED
  BY <1>2, <1>3 DEF QueueInv

(* What ack_packet leaves is part of what was there, without the id of the *)
(* acknowledged request.                                                   *)
LEMMA RemoveRequest ==
  ASSUME TypeOK, IdsUnique, NEW i \in DOMAIN retained,
         NEW rest, rest = RemoveAt(retained, i)
  PROVE  /\ rest \in Seq(RetainedEntries)
         /\ \A j \in DOMAIN rest : \E k \in DOMAIN retained : rest[j] = retained[k]
         /\ \A j \in DOMAIN rest : rest[j].id # retained[i].id
         /\ UniqueIds(rest, release)
<1> DEFINE old(j) == IF j < i THEN j ELSE j + 1
<1>1. /\ retained \in Seq(RetainedEntries) /\ Len(retained) \in Nat
      /\ DOMAIN retained = 1 .. Len(retained)
  BY LenProperties DEF TypeOK
<1>2. /\ rest \in Seq(RetainedEntries) /\ DOMAIN rest = 1 .. Len(retained) - 1
      /\ \A j \in 1 .. Len(retained) - 1 :
           rest[j] = IF j < i THEN retained[j] ELSE retained[j + 1]
  BY ZenonT(30), <1>1, RemoveAtProperties
<1>3. \A j \in DOMAIN rest :
        /\ old(j) \in DOMAIN retained /\ rest[j] = retained[old(j)] /\ old(j) # i
  BY <1>1, <1>2
<1>4. \A j, k \in DOMAIN rest : old(j) = old(k) => j = k
  BY <1>1, <1>2
<1> HIDE DEF old
<1>5. UniqueIds(rest, release)
  BY <1>3, <1>4 DEF IdsUnique, UniqueIds
<1> QED
  BY <1>2, <1>3, <1>5 DEF IdsUnique, UniqueIds
=============================================================================
