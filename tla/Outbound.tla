------------------------------ MODULE Outbound ------------------------------
(***************************************************************************)
(* The in-flight bookkeeping of minimq (mqtt_client/outbound.rs): the      *)
(* queue of acknowledgements and PINGREQs (pending_control), the PUBRELs   *)
(* waiting for PUBCOMP (pending_release) and the encoded requests waiting  *)
(* for their acknowledgement (retained), as operators on sequences.        *)
(*                                                                         *)
(* A packet is abstracted to what the client tells apart: its kind, its    *)
(* packet id, the number of bytes it takes, its DUP bit and an opaque      *)
(* message.  How far it has been written to the transport is kept.         *)
(***************************************************************************)
EXTENDS Naturals, Sequences, FiniteSets

CONSTANTS
  MAX_ID,               \* packet ids are 1..MAX_ID (65535 in the code)
  MAX_RETAINED,         \* slots of `retained`
  MAX_PENDING_CONTROL,  \* slots of `pending_control`
  MAX_PENDING_RELEASE,  \* slots of `pending_release`
  ACK_LEN,              \* bytes of a PUBACK, PUBREC, PUBREL or PUBCOMP
  PING_LEN,             \* bytes of a PINGREQ
  Msgs                  \* what an application request carries

ASSUME SizesAssumption ==
  /\ MAX_RETAINED \in Nat \ {0}
  /\ MAX_PENDING_CONTROL \in Nat \ {0}
  /\ MAX_PENDING_RELEASE \in Nat \ {0}
  /\ ACK_LEN \in Nat \ {0}
  /\ PING_LEN \in Nat \ {0}

(* The search of next_packet_id ends because ids outnumber the slots. *)
ASSUME IdsAssumption ==
  /\ MAX_ID \in Nat
  /\ MAX_ID > MAX_RETAINED + MAX_PENDING_RELEASE

PacketIds == 1 .. MAX_ID

PublishKinds == {"PublishAtLeastOnce", "PublishExactlyOnce"}
OpKinds == PublishKinds \cup {"Subscribe", "Unsubscribe"}

-----------------------------------------------------------------------------
(* SendState: Write{written}, Flush or Sent. *)

Write(written) == [tag |-> "Write", written |-> written]
Flush == [tag |-> "Flush", written |-> 0]
Sent == [tag |-> "Sent", written |-> 0]

SendStates == [tag : {"Write"}, written : Nat] \cup {Flush, Sent}

(* Mutant: a packet that is completely written is not recognised as such. *)
SetWrittenOffByOne(entry, written, len) ==
  [entry EXCEPT !.state = IF written > len THEN Flush ELSE Write(written)]

SetWritten(entry, written, len) ==
  [entry EXCEPT !.state = IF written >= len THEN Flush ELSE Write(written)]

InProgress(entry) == entry.state.tag = "Write" /\ entry.state.written # 0

-----------------------------------------------------------------------------
(* Entries of the three queues.  A PINGREQ has no id: 0 stands for none.   *)

ControlEntries ==
  [action : {"PubAck", "PubRec", "PubComp", "PingReq"}, id : Nat,
   ok : BOOLEAN, state : SendStates]
ReleaseEntries == [id : PacketIds, state : SendStates]
RetainedEntries ==
  [kind : OpKinds, id : PacketIds, len : Nat, msg : Msgs, dup : BOOLEAN,
   state : SendStates]

NewControl(action, id, ok) ==
  [action |-> action, id |-> id, ok |-> ok, state |-> Write(0)]
NewRelease(id) == [id |-> id, state |-> Write(0)]
NewRetained(kind, id, len, msg) ==
  [kind |-> kind, id |-> id, len |-> len, msg |-> msg, dup |-> FALSE,
   state |-> Write(0)]

HasId(queue, id) == \E i \in DOMAIN queue : queue[i].id = id

RetainedBytes(retained) ==
  LET first[n \in 0 .. Len(retained)] ==
        IF n = 0 THEN 0 ELSE first[n - 1] + retained[n].len
  IN  first[Len(retained)]

(* Vec::iter().position(..): i is the first entry with this id, or with   *)
(* this kind and id.                                                       *)
FirstWithId(queue, i, id) ==
  /\ queue[i].id = id
  /\ \A j \in 1 .. i - 1 : queue[j].id # id

FirstMatch(retained, i, kind, id) ==
  /\ retained[i].kind = kind /\ retained[i].id = id
  /\ \A j \in 1 .. i - 1 : ~(retained[j].kind = kind /\ retained[j].id = id)

(* set_release_written and set_retained_written look the packet up by id. *)
SetIdWritten(queue, id, written, len) ==
  [i \in DOMAIN queue |->
    IF FirstWithId(queue, i, id) THEN SetWritten(queue[i], written, len)
                                 ELSE queue[i]]

(* heapless::Vec::remove. *)
RemoveAt(queue, i) == SubSeq(queue, 1, i - 1) \o SubSeq(queue, i + 1, Len(queue))

(* heapless::Vec::swap_remove: the last entry takes the removed one's place. *)
SwapRemove(queue, i) ==
  SubSeq([queue EXCEPT ![i] = queue[Len(queue)]], 1, Len(queue) - 1)

-----------------------------------------------------------------------------
(* complete_flush: written acknowledgements are forgotten, written PUBRELs *)
(* and requests stay until they are acknowledged.                          *)

DropFlushed(queue) ==
  LET kept == {i \in DOMAIN queue : queue[i].state # Flush}
  IN  [k \in 1 .. Cardinality(kept) |->
        queue[CHOOSE i \in kept : Cardinality({j \in kept : j <= i}) = k]]

(* Mutant: only the first packet of a burst is marked. *)
MarkSentFirst(queue) ==
  [i \in DOMAIN queue |->
    IF queue[i].state = Flush /\ i = 1 THEN [queue[i] EXCEPT !.state = Sent]
                                       ELSE queue[i]]

MarkSent(queue) ==
  [i \in DOMAIN queue |->
    IF queue[i].state = Flush THEN [queue[i] EXCEPT !.state = Sent]
                              ELSE queue[i]]

(* arm_replay: every entry is written again from its first byte, and every *)
(* retained PUBLISH has its DUP bit set.                                   *)

(* Mutant: a packet cut off by the disconnect resumes where it was. *)
RearmKeepsOffset(queue) ==
  [i \in DOMAIN queue |->
    IF InProgress(queue[i]) THEN queue[i] ELSE [queue[i] EXCEPT !.state = Write(0)]]

Rearm(queue) == [i \in DOMAIN queue |-> [queue[i] EXCEPT !.state = Write(0)]]

(* Mutant: QoS 2 is forgotten. *)
MarkPublishDupQos1(retained) ==
  [i \in DOMAIN retained |->
    [retained[i] EXCEPT !.dup = @ \/ retained[i].kind = "PublishAtLeastOnce"]]

MarkPublishDup(retained) ==
  [i \in DOMAIN retained |->
    [retained[i] EXCEPT !.dup = @ \/ retained[i].kind \in PublishKinds]]

-----------------------------------------------------------------------------
(* next_step: which entry the next transport write belongs to.  A packet   *)
(* that is partly on the wire comes before every other; then control,      *)
(* release and retained packets, each in queue order.                      *)

Queues == {"control", "release", "retained"}

QueueRank(q) == CASE q = "control" -> 0 [] q = "release" -> 1
                  [] q = "retained" -> 2

(* `out` is a record of the three queues; entry i of queue q is a step. *)
Writable(out, q, i) == out[q][i].state.tag = "Write"

Rank(out, q, i) == QueueRank(q) + IF InProgress(out[q][i]) THEN 0 ELSE 3

(* Mutant: the newest packet of a queue goes first. *)
NextStepNewest(out, q, i) ==
  /\ Writable(out, q, i)
  /\ \A r \in Queues : \A j \in DOMAIN out[r] :
       Writable(out, r, j) =>
         \/ Rank(out, q, i) < Rank(out, r, j)
         \/ Rank(out, q, i) = Rank(out, r, j) /\ i >= j

NextStep(out, q, i) ==
  /\ Writable(out, q, i)
  /\ \A r \in Queues : \A j \in DOMAIN out[r] :
       Writable(out, r, j) =>
         \/ Rank(out, q, i) < Rank(out, r, j)
         \/ Rank(out, q, i) = Rank(out, r, j) /\ i <= j

(* next_step is None. *)
NoStep(out) == \A q \in Queues : \A i \in DOMAIN out[q] : ~Writable(out, q, i)

PacketLen(queue, entry) ==
  IF queue = "retained" THEN entry.len
  ELSE IF queue = "control" /\ entry.action = "PingReq" THEN PING_LEN
  ELSE ACK_LEN
=============================================================================
