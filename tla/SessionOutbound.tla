--------------------------- MODULE SessionOutbound ----------------------------
(***************************************************************************)
(* The outbound half of a session keeps IInv: one transport write,         *)
(* complete_flush, and the handshake that replays what was kept.           *)
(*                                                                         *)
(* Within a queue the order of the packets makes the one that next_step    *)
(* picks the one that is partly written; unique ids make the lookups by id *)
(* hit that packet.                                                        *)
(***************************************************************************)
EXTENDS SessionLemmas

(* Leaves are small; the time is that of the context they stand in, and a  *)
(* leaf whose encoding takes too long is tried again.                      *)
USE SMTT(30), ZenonT(20), SMTT(31), SMTT(32)

-----------------------------------------------------------------------------
(* One transport write. *)

(* One transport write keeps the types.                                    *)
LEMMA WriteStepKeepsTypes ==
  ASSUME TypeOK, IdsUnique, NEW q \in Queues, NEW i \in DOMAIN out[q], NEW n \in Nat,
         WriteStep(q, i, n)
  PROVE  TypeOK'
<1> DEFINE entry == out[q][i]
           len == PacketLen(q, entry)
           written == entry.state.written + n
<1>1. /\ control \in Seq(ControlEntries) /\ release \in Seq(ReleaseEntries)
      /\ retained \in Seq(RetainedEntries)
      /\ \A j \in DOMAIN control : control[j] \in ControlEntries
      /\ \A j \in DOMAIN release : release[j] \in ReleaseEntries
      /\ \A j \in DOMAIN retained : retained[j] \in RetainedEntries
  BY ElementOfSeq, LenProperties DEF TypeOK
<1>2. entry.id \in Nat /\ entry.state \in SendStates /\ i \in Nat
  <2>1. CASE q = "control"
    BY <1>1, <2>1, LenProperties DEF out, ControlEntries
  <2>2. CASE q = "release"
    BY <1>1, <2>2, LenProperties DEF out, ReleaseEntries, PacketIds
  <2>3. CASE q = "retained"
    BY <1>1, <2>3, LenProperties DEF out, RetainedEntries, PacketIds
  <2> QED
    BY <2>1, <2>2, <2>3 DEF Queues
<1>3. entry.state.written \in Nat
  BY <1>2 DEF SendStates, Flush, Sent
<1>4. written \in Nat
  BY <1>3
<1>5. /\ control' = IF q = "control" THEN [control EXCEPT ![i] = SetWritten(control[i], written, len)]
                    ELSE control
      /\ release' = IF q = "release" THEN [release EXCEPT ![i] = SetWritten(release[i], written, len)]
                    ELSE release
      /\ retained' = IF q = "retained" THEN [retained EXCEPT ![i] = SetWritten(retained[i], written, len)]
                     ELSE retained
  BY WriteStepEffect
<1>9. open' \in [queue : Queues \cup {"none"}, index : Nat, id : Nat, written : Nat]
  <2>1. \/ open' = NoPacket
        \/ open' = [queue |-> q, index |-> i, id |-> entry.id, written |-> written]
    BY DEF WriteStep
  <2> HIDE DEF entry, written
  <2> QED
    BY <1>2, <1>4, <2>1 DEF NoPacket
<1> HIDE DEF entry, written, len
<1>6. /\ \A e \in ControlEntries : SetWritten(e, written, len) \in ControlEntries
      /\ \A e \in ReleaseEntries : SetWritten(e, written, len) \in ReleaseEntries
      /\ \A e \in RetainedEntries : SetWritten(e, written, len) \in RetainedEntries
  BY <1>4, EntryTypes DEF SetWritten
<1>7. /\ q = "control" => i \in 1 .. Len(control)
      /\ q = "release" => i \in 1 .. Len(release)
      /\ q = "retained" => i \in 1 .. Len(retained)
  BY <1>1, LenProperties DEF out
<1>8. QueueTypes'
  <2>1. control' \in Seq(ControlEntries)
    BY <1>1, <1>5, <1>6, <1>7, ExceptSeq DEF out
  <2>2. release' \in Seq(ReleaseEntries) /\ Len(release') = Len(release)
    BY <1>1, <1>5, <1>6, <1>7, ExceptSeq DEF out
  <2>3. retained' \in Seq(RetainedEntries) /\ Len(retained') = Len(retained)
    BY <1>1, <1>5, <1>6, <1>7, ExceptSeq DEF out
  <2> QED
    BY <2>1, <2>2, <2>3 DEF QueueTypes, TypeOK
<1>10. pingTimeout' \in {"none", "armed", "expired"}
  BY ZenonT(30) DEF WriteStep, TypeOK
<1>11. /\ conn' = conn /\ flushState' = "Dirty" /\ nextPing' = nextPing
       /\ sendQuota' = sendQuota
       /\ UNCHANGED <<idVars, connectVars, limitVars>>
  BY DEF WriteStep
<1> QED
  BY <1>8, <1>9, <1>10, <1>11 DEF TypeOK, QueueTypes, idVars, connectVars, limitVars

(* The stream: a write continues the packet that is in progress, if any. *)
LEMMA WriteStepQueues ==
  ASSUME IInv, TypeOK', NEW q \in Queues, NEW i \in DOMAIN out[q], NEW n \in Nat,
         WriteStep(q, i, n)
  PROVE  QueueInv'
<1> DEFINE entry == out[q][i]
           len == PacketLen(q, entry)
           written == entry.state.written + n
           new == IF written >= len THEN Flush ELSE Write(written)
<1> HIDE DEF entry, len, written, new
<1>1. /\ control \in Seq(ControlEntries) /\ release \in Seq(ReleaseEntries)
      /\ retained \in Seq(RetainedEntries)
      /\ \A j \in DOMAIN control : control[j] \in ControlEntries
      /\ \A j \in DOMAIN release : release[j] \in ReleaseEntries
      /\ \A j \in DOMAIN retained : retained[j] \in RetainedEntries
  BY ElementOfSeq, LenProperties DEF TypeOK, IInv
<1>2. \A r \in Queues : \A j \in DOMAIN out[r] : j \in Nat /\ out[r][j].state \in SendStates
  BY <1>1, LenProperties DEF Queues, out, ControlEntries, ReleaseEntries, RetainedEntries
<1>3. /\ entry.state.tag = "Write" /\ entry.state.written \in Nat
      /\ n \in 1 .. len - entry.state.written /\ conn = "live"
      /\ NextStep(out, q, i)
  <2>1. entry.state.written \in Nat
    BY <1>2 DEF SendStates, Flush, Sent, entry
  <2> QED
    BY ZenonT(30), <2>1 DEF WriteStep, NextStep, Writable, entry, len
<1>4. len \in Nat
  <2>1. q = "retained" => out[q][i].len \in Nat
    BY <1>1 DEF out, RetainedEntries
  <2> QED
    BY ZenonT(30), <2>1, SizesAssumption DEF PacketLen, entry, len
<1>5. written \in 1 .. len
  BY <1>3, <1>4 DEF written
<1>6. /\ control' = IF q = "control" THEN [control EXCEPT ![i] = SetWritten(control[i], written, len)]
                    ELSE control
      /\ release' = IF q = "release" THEN [release EXCEPT ![i] = SetWritten(release[i], written, len)]
                    ELSE release
      /\ retained' = IF q = "retained" THEN [retained EXCEPT ![i] = SetWritten(retained[i], written, len)]
                     ELSE retained
  BY WriteStepEffect DEF IInv, QueueInv, entry, written, len
<1>7. /\ conn' = "live" /\ flushState' = "Dirty"
      /\ open' = IF written = len THEN NoPacket
                 ELSE [queue |-> q, index |-> i, id |-> entry.id, written |-> written]
      /\ pingTimeout' = IF q = "control" /\ entry.action = "PingReq" /\ written = len
                        THEN "armed" ELSE pingTimeout
  BY ZenonT(30), <1>3 DEF WriteStep, entry, written, len
<1>8. /\ new = Flush \/ new = Write(written)
      /\ written = len => new = Flush
      /\ written # len => new = Write(written)
  BY <1>4, <1>5 DEF new
<1>9. /\ DOMAIN control' = DOMAIN control /\ DOMAIN release' = DOMAIN release
      /\ DOMAIN retained' = DOMAIN retained
      /\ \A j \in DOMAIN control :
           /\ control'[j].action = control[j].action /\ control'[j].id = control[j].id
           /\ control'[j].state = IF q = "control" /\ j = i THEN new ELSE control[j].state
      /\ \A j \in DOMAIN release :
           /\ release'[j].id = release[j].id
           /\ release'[j].state = IF q = "release" /\ j = i THEN new ELSE release[j].state
      /\ \A j \in DOMAIN retained :
           /\ retained'[j].id = retained[j].id
           /\ retained'[j].state = IF q = "retained" /\ j = i THEN new ELSE retained[j].state
  <2>1. /\ DOMAIN control' = DOMAIN control
        /\ \A j \in DOMAIN control :
             /\ control'[j].action = control[j].action /\ control'[j].id = control[j].id
             /\ control'[j].state = IF q = "control" /\ j = i THEN new ELSE control[j].state
    BY <1>1, <1>6 DEF SetWritten, ControlEntries, new
  <2>2. /\ DOMAIN release' = DOMAIN release
        /\ \A j \in DOMAIN release :
             /\ release'[j].id = release[j].id
             /\ release'[j].state = IF q = "release" /\ j = i THEN new ELSE release[j].state
    BY <1>1, <1>6 DEF SetWritten, ReleaseEntries, new
  <2>3. /\ DOMAIN retained' = DOMAIN retained
        /\ \A j \in DOMAIN retained :
             /\ retained'[j].id = retained[j].id
             /\ retained'[j].state = IF q = "retained" /\ j = i THEN new ELSE retained[j].state
    BY <1>1, <1>6 DEF SetWritten, RetainedEntries, new
  <2> QED
    BY <2>1, <2>2, <2>3
<1>10. \A r \in Queues :
         /\ DOMAIN out'[r] = DOMAIN out[r]
         /\ \A j \in DOMAIN out[r] :
              /\ out'[r][j].id = out[r][j].id
              /\ out'[r][j].state = IF r = q /\ j = i THEN new ELSE out[r][j].state
  BY <1>9 DEF Queues, out
<1>11. \A r \in Queues : \A j \in DOMAIN out[r] : InProgress(out[r][j]) => r = q /\ j = i
  <2> SUFFICES ASSUME NEW r \in Queues, NEW j \in DOMAIN out[r], InProgress(out[r][j])
               PROVE  r = q /\ j = i
    OBVIOUS
  <2>1. \A s \in Queues : QueueRank(s) \in 0 .. 2
    BY DEF Queues, QueueRank
  <2>2. Rank(out, q, i) <= Rank(out, r, j)
    BY <1>3, <2>1 DEF NextStep, Rank, Writable, InProgress
  <2>3. InProgress(entry)
    BY <2>1, <2>2 DEF Rank, entry
  <2> QED
    BY ZenonT(30), <1>3, <2>3 DEF IInv, QueueInv, StreamFramed, entry
<1>12. IdsUnique' /\ OneControl'
  <2>1. IdsUnique'
    BY <1>9 DEF IInv, QueueInv, IdsUnique, UniqueIds
  <2>2. Len(control') <= Len(control) /\ Len(control') \in Nat /\ Len(control) \in Nat
    <3>1. control' \in Seq(ControlEntries)
      BY DEF TypeOK
    <3>2. DOMAIN control' = 1 .. Len(control') /\ Len(control') \in Nat
          /\ DOMAIN control = 1 .. Len(control) /\ Len(control) \in Nat
      BY <1>1, <3>1, LenProperties
    <3>3. DOMAIN control' = DOMAIN control
      BY ZenonT(30), <1>9
    <3>4. \A a, b \in Nat : 1 .. a = 1 .. b => a <= b
      <4>1. \A a, b \in Nat : a > b => a \in 1 .. a /\ a \notin 1 .. b
        OBVIOUS
      <4> QED
        BY <4>1
    <3> QED
      BY <3>2, <3>3, <3>4
  <2> QED
    BY <2>1, <2>2 DEF IInv, QueueInv, OneControl
<1>13. ControlUnsent' /\ FlushAccounted' /\ HandshakeArmed'
  <2>1. new # Sent
    BY <1>8 DEF Flush, Sent, Write
  <2> QED
    BY <1>7, <1>9, <2>1
       DEF IInv, QueueInv, ControlUnsent, FlushAccounted, HandshakeArmed
<1>14. StreamFramed'
  <2>1. ASSUME NEW r \in Queues, NEW j \in DOMAIN out[r], InProgress(out'[r][j])
        PROVE  open'.queue = r /\ open'.index = j
    <3>1. r = q /\ j = i
      BY <1>10, <1>11, <2>1 DEF InProgress
    <3>2. new.tag = "Write"
      BY <1>10, <2>1, <3>1 DEF InProgress
    <3>3. written # len
      BY <1>8, <3>2 DEF Flush
    <3> QED
      BY <1>7, <3>1, <3>3
  <2>2. ASSUME open' # NoPacket
        PROVE  /\ open'.queue \in Queues /\ open'.index \in DOMAIN out'[open'.queue]
               /\ out'[open'.queue][open'.index].id = open'.id
               /\ out'[open'.queue][open'.index].state = Write(open'.written)
               /\ open'.written # 0
    <3>1. /\ open'.queue = q /\ open'.index = i /\ open'.id = entry.id
          /\ open'.written = written /\ new = Write(written)
      BY <1>7, <1>8, <2>2
    <3> QED
      BY <1>5, <1>10, <3>1 DEF entry
  <2> QED
    BY <1>10, <2>1, <2>2 DEF StreamFramed
<1>15. WrittenFromFront'
  <2>1. ASSUME NEW r \in Queues, NEW a \in DOMAIN out[r], NEW b \in DOMAIN out[r],
               a < b, out'[r][a].state.tag = "Write"
        PROVE  out'[r][b].state = Write(0)
    <3>1. out[r][a].state.tag = "Write"
      BY <1>3, <1>10, <2>1 DEF entry
    <3>2. out[r][b].state = Write(0)
      BY <2>1, <3>1 DEF IInv, QueueInv, WrittenFromFront, WrittenInOrder, Queues, out
    <3>3. ASSUME r = q, b = i
          PROVE  FALSE
      <4>1. ~InProgress(entry)
        BY <3>2, <3>3 DEF InProgress, Write, entry
      <4>2. \A s \in Queues : QueueRank(s) \in 0 .. 2
        BY DEF Queues, QueueRank
      <4>3. Rank(out, q, a) <= Rank(out, q, i)
        BY <4>1, <4>2 DEF Rank, entry
      <4>4. /\ Rank(out, q, i) < Rank(out, q, a) \/ i <= a
            /\ Rank(out, q, i) \in Nat /\ Rank(out, q, a) \in Nat
        BY <1>3, <2>1, <3>1, <3>3, <4>2 DEF NextStep, Writable, Rank
      <4> QED
        BY <1>2, <2>1, <3>3, <4>3, <4>4
    <3> QED
      BY <1>10, <3>2, <3>3
  <2> QED
    BY <1>9, <2>1 DEF WrittenFromFront, WrittenInOrder, Queues, out
<1>16. OnePing'
  <2> SUFFICES ASSUME pingTimeout' # "none", NEW j \in DOMAIN control,
                      control[j].action = "PingReq", control'[j].state.tag = "Write"
               PROVE  FALSE
    BY <1>9 DEF OnePing
  <2>1. CASE q = "control"
    <3>1. j = i
      BY <1>1, <2>1, LenProperties DEF IInv, QueueInv, OneControl, out
    <3>2. written # len
      BY <1>8, <1>9, <2>1, <3>1 DEF Flush
    <3> QED
      BY <1>3, <1>7, <2>1, <3>1, <3>2 DEF IInv, QueueInv, OnePing, out, entry
  <2>2. CASE q # "control"
    BY ZenonT(30), <1>7, <1>9, <2>2 DEF IInv, QueueInv, OnePing
  <2> QED
    BY <2>1, <2>2
<1> QED
  BY <1>12, <1>13, <1>14, <1>15, <1>16 DEF QueueInv

-----------------------------------------------------------------------------
(* complete_flush. *)

(* complete_flush keeps the types.                                         *)
LEMMA FlushCompleteKeepsTypes ==
  ASSUME TypeOK, OneControl, SetFacts, FlushComplete
  PROVE  TypeOK'
<1>1. control' \in Seq(ControlEntries)
  BY ZenonT(30), EmptySeq DEF SetFacts, FlushComplete, TypeOK, OneControl
<1>2. /\ \A e \in ReleaseEntries : [e EXCEPT !.state = Sent] \in ReleaseEntries
      /\ \A e \in RetainedEntries : [e EXCEPT !.state = Sent] \in RetainedEntries
  BY EntryTypes
<1>3. release' \in Seq(ReleaseEntries) /\ Len(release') = Len(release)
  BY ZenonT(30), <1>2, MarkSentProperties DEF FlushComplete, TypeOK
<1>4. retained' \in Seq(RetainedEntries) /\ Len(retained') = Len(retained)
  BY ZenonT(30), <1>2, MarkSentProperties DEF FlushComplete, TypeOK
<1> QED
  BY <1>1, <1>3, <1>4
     DEF FlushComplete, NoteOutboundActivity, TypeOK, idVars, connectVars, limitVars

(* complete_flush keeps QueueInv: it turns every Flush into Sent, or       *)
(* forgets it, in all three queues.                                        *)
LEMMA FlushCompleteQueues ==
  ASSUME IInv, SetFacts, FlushComplete
  PROVE  QueueInv'
<1>1. /\ control \in Seq(ControlEntries) /\ release \in Seq(ReleaseEntries)
      /\ retained \in Seq(RetainedEntries) /\ Len(control) <= 1
  BY DEF TypeOK, IInv, QueueInv, OneControl
<1>2. \/ control' = <<>>
      \/ control' = control /\ \A i \in DOMAIN control : control[i].state # Flush
  BY <1>1 DEF SetFacts, FlushComplete
<1>3. /\ DOMAIN release' = DOMAIN release
      /\ \A i \in DOMAIN release :
           release'[i] = IF release[i].state = Flush THEN [release[i] EXCEPT !.state = Sent]
                                                     ELSE release[i]
  BY ZenonT(30), <1>1, EntryTypes, MarkSentProperties DEF FlushComplete
<1>4. /\ DOMAIN retained' = DOMAIN retained
      /\ \A i \in DOMAIN retained :
           retained'[i] = IF retained[i].state = Flush THEN [retained[i] EXCEPT !.state = Sent]
                                                       ELSE retained[i]
  BY ZenonT(30), <1>1, EntryTypes, MarkSentProperties DEF FlushComplete
<1>5. /\ \A i \in DOMAIN release : release[i] \in ReleaseEntries
      /\ \A i \in DOMAIN retained : retained[i] \in RetainedEntries
  BY <1>1, ElementOfSeq, LenProperties
<1>6. /\ \A i \in DOMAIN release :
           /\ release'[i].id = release[i].id
           /\ release'[i].state = IF release[i].state = Flush THEN Sent ELSE release[i].state
      /\ \A i \in DOMAIN retained :
           /\ retained'[i].id = retained[i].id
           /\ retained'[i].state = IF retained[i].state = Flush THEN Sent ELSE retained[i].state
  BY <1>3, <1>4, <1>5 DEF ReleaseEntries, RetainedEntries
<1>7. /\ conn = "live" /\ conn' = "live" /\ flushState' = "Clean" /\ open' = open
      /\ pingTimeout' = pingTimeout
  BY DEF FlushComplete
<1>8. Sent # Flush /\ Sent.tag # "Write" /\ Flush.tag # "Write"
      /\ \A w \in Nat : Write(w) # Flush
  BY DEF Sent, Flush, Write
<1>9. DOMAIN <<>> = {} /\ Len(<<>>) = 0
  BY EmptySeq
<1>10. IdsUnique' /\ OneControl' /\ ControlUnsent'
  <2>1. IdsUnique'
    BY <1>3, <1>4, <1>6 DEF IInv, QueueInv, IdsUnique, UniqueIds
  <2> QED
    BY <1>1, <1>2, <1>9, <2>1 DEF IInv, QueueInv, OneControl, ControlUnsent
<1>11. FlushAccounted' /\ HandshakeArmed' /\ OnePing'
  BY <1>2, <1>3, <1>4, <1>6, <1>7, <1>8, <1>9
     DEF IInv, QueueInv, FlushAccounted, Unflushed, HandshakeArmed, OnePing
<1>12. WrittenFromFront'
  <2>1. WrittenInOrder(control)'
    BY <1>2, <1>9 DEF IInv, QueueInv, WrittenFromFront, WrittenInOrder
  <2>2. WrittenInOrder(release)'
    BY <1>3, <1>6, <1>8 DEF IInv, QueueInv, WrittenFromFront, WrittenInOrder, Write, Flush
  <2>3. WrittenInOrder(retained)'
    BY <1>4, <1>6, <1>8 DEF IInv, QueueInv, WrittenFromFront, WrittenInOrder, Write, Flush
  <2> QED
    BY <2>1, <2>2, <2>3 DEF WrittenFromFront
<1>13. StreamFramed'
  <2>1. ASSUME NEW r \in Queues, NEW j \in DOMAIN out[r], out[r][j].state # Flush
        PROVE  /\ j \in DOMAIN out'[r] /\ out'[r][j].id = out[r][j].id
               /\ out'[r][j].state = out[r][j].state
    <3>1. CASE r = "control"
      <4>1. \A k \in DOMAIN control : control[k].state # Flush
        BY <1>1, <2>1, <3>1, LenProperties DEF out
      <4>2. control' = control
        BY <1>1, <4>1 DEF SetFacts, FlushComplete
      <4> QED
        BY <2>1, <3>1, <4>2 DEF out
    <3>2. CASE r = "release"
      BY <1>3, <1>6, <2>1, <3>2 DEF out
    <3>3. CASE r = "retained"
      BY <1>4, <1>6, <2>1, <3>3 DEF out
    <3> QED
      BY <3>1, <3>2, <3>3 DEF Queues
  <2>2. ASSUME NEW r \in Queues, NEW j \in DOMAIN out'[r], InProgress(out'[r][j])
        PROVE  j \in DOMAIN out[r] /\ InProgress(out[r][j])
    BY <1>2, <1>3, <1>4, <1>6, <1>8, <1>9, <2>2 DEF Queues, out, InProgress
  <2>3. open # NoPacket =>
          /\ open.queue \in Queues /\ open.index \in DOMAIN out[open.queue]
          /\ out[open.queue][open.index].id = open.id
          /\ out[open.queue][open.index].state = Write(open.written) /\ open.written # 0
    BY <1>7 DEF IInv, QueueInv, StreamFramed
  <2>4. Write(open.written) # Flush
    BY DEF Write, Flush
  <2>5. \A r \in Queues : \A j \in DOMAIN out[r] :
          InProgress(out[r][j]) => open.queue = r /\ open.index = j
    BY <1>7 DEF IInv, QueueInv, StreamFramed
  <2>6. open # NoPacket =>
          /\ open.queue \in Queues /\ open.index \in DOMAIN out'[open.queue]
          /\ out'[open.queue][open.index].id = open.id
          /\ out'[open.queue][open.index].state = Write(open.written) /\ open.written # 0
    BY <2>1, <2>3, <2>4
  <2>7. \A r \in Queues : \A j \in DOMAIN out'[r] :
          InProgress(out'[r][j]) => open.queue = r /\ open.index = j
    BY <2>2, <2>5
  <2> QED
    BY ZenonT(30), <1>7, <2>6, <2>7 DEF StreamFramed
<1> QED
  BY <1>10, <1>11, <1>12, <1>13 DEF QueueInv

-----------------------------------------------------------------------------
(* CONNACK. *)

(* SessionData::reset, or its absence on a resumed session, keeps the      *)
(* types.                                                                  *)
LEMMA ResetDataKeepsTypes ==
  ASSUME TypeOK, NEW resumed \in BOOLEAN, ResetData(resumed)
  PROVE  /\ QueueTypes' /\ packetId' \in PacketIds /\ generation' \in Nat
         /\ serverIds' \in SUBSET PacketIds
<1>1. CASE resumed
  BY <1>1 DEF ResetData, TypeOK, QueueTypes, queueVars
<1>2. CASE ~resumed
  <2>1. QueueTypes'
    BY <1>2, EmptySeq, SizesAssumption DEF ResetData, QueueTypes
  <2>2. packetId' \in PacketIds /\ serverIds' \in SUBSET PacketIds
    BY <1>2, SizesAssumption, IdsAssumption DEF ResetData, PacketIds
  <2>3. generation' \in Nat
    BY <1>2, SessionAssumption DEF ResetData, TypeOK
  <2> QED
    BY <2>1, <2>2, <2>3
<1> QED
  BY <1>1, <1>2

(* Both outcomes of a CONNACK keep the types.                              *)
LEMMA ConnAckKeepsTypes ==
  ASSUME TypeOK, ReceiveConnAck
  PROVE  TypeOK'
<1>1. PICK resumed \in BOOLEAN :
        \/ ConnAckInvalid(resumed)
        \/ \E receiveMax \in ReceiveMaxima, limit \in PacketLimits \cup {NO_LIMIT},
              qos \in MaxQoSs, keep \in KeepAlives, assigned \in AssignedLens :
             ConnAck(resumed, receiveMax, limit, qos, keep, assigned)
  BY DEF ReceiveConnAck
<1>2. CASE ConnAckInvalid(resumed)
  <2>1. /\ QueueTypes' /\ packetId' \in PacketIds /\ generation' \in Nat
        /\ serverIds' \in SUBSET PacketIds
    BY <1>2, ResetDataKeepsTypes DEF ConnAckInvalid
  <2>2. sessionPresent' \in BOOLEAN
    BY <1>2 DEF ConnAckInvalid
  <2> QED
    BY <1>2, <2>1, <2>2
       DEF ConnAckInvalid, ResetTransport, TypeOK, QueueTypes, connectVars, limitVars
<1>3. ASSUME NEW receiveMax \in ReceiveMaxima, NEW limit \in PacketLimits \cup {NO_LIMIT},
             NEW qos \in MaxQoSs, NEW keep \in KeepAlives, NEW assigned \in AssignedLens,
             ConnAck(resumed, receiveMax, limit, qos, keep, assigned)
      PROVE  TypeOK'
  <2>1. /\ QueueTypes' /\ packetId' \in PacketIds /\ generation' \in Nat
        /\ serverIds' \in SUBSET PacketIds
    BY <1>3, ResetDataKeepsTypes DEF ConnAck
  <2>2. sessionPresent' \in BOOLEAN
    BY <1>3 DEF ConnAck
  <2>3. CommitLimits(receiveMax, limit, qos, keep)
    BY <1>3 DEF ConnAck
  <2>4. /\ sendQuota' \in Nat /\ maxSendQuota' \in Nat /\ maxPacketSize' \in Nat
        /\ maxQos' \in 0 .. 2 /\ keepalive' \in BOOLEAN
    BY <2>3, SizesAssumption, SessionAssumption DEF CommitLimits, LOCAL_QUOTA, NO_LIMIT
  <2>5. connectWorkspace' \in Nat /\ clientIdLen' \in Nat
    BY <1>3, SessionAssumption DEF ConnAck, TypeOK
  <2>6. /\ nextPing' \in {"none", "armed", "due"} /\ pingTimeout' = "none"
        /\ conn' \in {"none", "handshake", "live", "dead"}
        /\ flushState' = flushState /\ open' = open
    BY <1>3 DEF ConnAck
  <2> QED
    BY <2>1, <2>2, <2>4, <2>5, <2>6 DEF TypeOK, QueueTypes
<1> QED
  BY <1>1, <1>2, <1>3

(* A CONNACK keeps QueueInv: the queues are armed since CONNECT was sent.  *)
LEMMA ConnAckQueues ==
  ASSUME IInv, NEW resumed \in BOOLEAN, conn = "handshake", ResetData(resumed),
         pingTimeout' = "none", conn' \in {"none", "live"}, UNCHANGED <<flushState, open>>
  PROVE  QueueInv'
<1>1. AllArmed(control) /\ AllArmed(release) /\ AllArmed(retained) /\ open = NoPacket
  BY DEF IInv, QueueInv, HandshakeArmed
<1>2. CASE resumed
  BY <1>1, <1>2, ArmedQueues
     DEF ResetData, IInv, QueueInv, AllArmed, OneControl, IdsUnique, queueVars
<1>3. CASE ~resumed
  <2>1. DOMAIN <<>> = {} /\ Len(<<>>) = 0
    BY EmptySeq
  <2>2. control' = <<>> /\ release' = <<>> /\ retained' = <<>>
    BY <1>3 DEF ResetData
  <2>3. AllArmed(control)' /\ AllArmed(release)' /\ AllArmed(retained)' /\ OneControl' /\ IdsUnique'
    BY <2>1, <2>2 DEF AllArmed, OneControl, IdsUnique, UniqueIds
  <2> QED
    BY <1>1, <2>3, ArmedQueues
<1> QED
  BY <1>2, <1>3
=============================================================================
