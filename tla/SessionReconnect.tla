--------------------------- MODULE SessionReconnect ---------------------------
(***************************************************************************)
(* The TX buffer always has room for the next CONNECT.                     *)
(*                                                                         *)
(* The buffer holds the retained packets and, at a reconnect, the CONNECT  *)
(* beside them. What the packets take is a sum over the queue, so the      *)
(* first part says how each operation on the queue changes that sum; the   *)
(* second that what connect has reserved stays free.                       *)
(***************************************************************************)
EXTENDS SessionLemmas, WellFoundedInduction

(* Leaves are small; the time is that of the context they stand in, and a  *)
(* leaf whose encoding takes too long is tried again.                      *)
USE SMTT(30), ZenonT(20), SMTT(31), SMTT(32)

-----------------------------------------------------------------------------
(* Sums over the queue. *)

(* A nonempty set of naturals has a smallest element.                      *)
LEMMA SmallestInSet ==
  ASSUME NEW T \in SUBSET Nat, T # {}
  PROVE  \E x \in T : \A y \in T : x <= y
<1>1. PICK x \in T : \A y \in T : ~(<<y, x>> \in OpToRel(<, Nat))
  BY ZenonT(30), NatLessThanWellFounded, WFMin
<1>2. OpToRel(<, Nat) = {p \in Nat \X Nat : p[1] < p[2]}
  BY ZenonT(30) DEF OpToRel
<1>3. \A y \in T : ~(y < x)
  BY ZenonT(30), <1>1, <1>2
<1>4. \A y \in T : x <= y
  BY <1>3
<1> QED
  BY <1>4

(* The bytes of the first n packets, for every n. *)
FirstBytes(q) ==
  CHOOSE first : first = [n \in 0 .. Len(q) |-> IF n = 0 THEN 0 ELSE first[n - 1] + q[n].len]

(* The sum of retained_bytes is defined, from the front of the queue on. *)
LEMMA FirstBytesExists ==
  ASSUME NEW q \in Seq(RetainedEntries)
  PROVE  /\ FirstBytes(q) \in [0 .. Len(q) -> Nat]
         /\ FirstBytes(q)[0] = 0
         /\ \A n \in 1 .. Len(q) : FirstBytes(q)[n] = FirstBytes(q)[n - 1] + q[n].len
<1> DEFINE m == Len(q)
           Sums(f, k) == /\ f \in [0 .. k -> Nat] /\ f[0] = 0
                         /\ \A n \in 1 .. k : f[n] = f[n - 1] + q[n].len
           bad == {k \in 0 .. m : ~ \E f \in [0 .. k -> Nat] : Sums(f, k)}
<1>1. m \in Nat /\ \A n \in 1 .. m : q[n].len \in Nat
  <2>1. m \in Nat /\ \A n \in 1 .. m : q[n] \in RetainedEntries
    BY ElementOfSeq, LenProperties, ZenonT(30)
  <2> QED BY <2>1 DEF RetainedEntries
<1> HIDE DEF m
<1>2. bad = {}
  <2> SUFFICES ASSUME bad # {} PROVE FALSE
    OBVIOUS
  <2>1. bad \in SUBSET Nat
    BY <1>1
  <2>2. PICK k \in bad : \A j \in bad : k <= j
    BY <2>1, SmallestInSet, ZenonT(30)
  <2>3. k # 0
    <3> SUFFICES ASSUME k = 0 PROVE FALSE
      OBVIOUS
    <3> DEFINE zero == [n \in 0 .. 0 |-> 0]
    <3>1. zero \in [0 .. 0 -> Nat] /\ Sums(zero, 0)
      OBVIOUS
    <3> QED BY ZenonT(30), <3>1
  <2>4. k \in 1 .. m /\ k - 1 \in 0 .. m /\ ~(k <= k - 1)
    BY <1>1, <2>3
  <2>5. k - 1 \notin bad
    BY ZenonT(30), <2>2, <2>4
  <2>6. PICK f \in [0 .. k - 1 -> Nat] : Sums(f, k - 1)
    BY ZenonT(30), <2>4, <2>5
  <2> DEFINE g == [n \in 0 .. k |-> IF n = k THEN f[k - 1] + q[k].len ELSE f[n]]
  <2>7. g \in [0 .. k -> Nat]
    BY <1>1, <2>4, <2>6
  <2>8. g[0] = 0
    BY <2>4, <2>6
  <2>9. ASSUME NEW n \in 1 .. k PROVE g[n] = g[n - 1] + q[n].len
    BY <1>1, <2>4, <2>6
  <2>10. Sums(g, k)
    BY ZenonT(30), <2>7, <2>8, <2>9
  <2> HIDE DEF g, Sums
  <2> QED BY <2>2, <2>7, <2>10
<1>3. PICK f \in [0 .. m -> Nat] : Sums(f, m)
  <2>1. m \in 0 .. m
    BY <1>1
  <2>2. m \notin bad
    BY <1>2, ZenonT(30)
  <2> HIDE DEF Sums
  <2> QED BY <2>1, <2>2, ZenonT(30)
<1>4. f = [n \in 0 .. m |-> IF n = 0 THEN 0 ELSE f[n - 1] + q[n].len]
  BY <1>1, <1>3
<1> DEFINE F == FirstBytes(q)
<1>5. F = [n \in 0 .. m |-> IF n = 0 THEN 0 ELSE F[n - 1] + q[n].len]
  BY <1>4, ZenonT(30) DEF FirstBytes, m
<1> HIDE DEF F
<1>6. F[0] = 0 /\ \A n \in 1 .. m : F[n] = F[n - 1] + q[n].len
  BY <1>1, <1>5
<1> DEFINE odd == {n \in 0 .. m : F[n] \notin Nat}
<1>7. odd = {}
  <2> SUFFICES ASSUME odd # {} PROVE FALSE
    OBVIOUS
  <2>1. odd \in SUBSET Nat
    BY <1>1
  <2>2. PICK k \in odd : \A j \in odd : k <= j
    BY <2>1, SmallestInSet, ZenonT(30)
  <2>3. k # 0
    BY <1>6, <2>2
  <2>4. k \in 1 .. m /\ k - 1 \in 0 .. m /\ ~(k <= k - 1)
    BY <1>1, <2>3
  <2>5. F[k - 1] \in Nat
    BY <2>2, <2>4
  <2>6. F[k] = F[k - 1] + q[k].len /\ q[k].len \in Nat
    BY ZenonT(30), <1>1, <1>6, <2>4
  <2>7. F[k] \in Nat
    BY <2>5, <2>6
  <2> QED BY <2>2, <2>7
<1>8. F \in [0 .. m -> Nat]
  BY ZenonT(30), <1>5, <1>7
<1> QED BY <1>6, <1>8 DEF F, m

(* RetainedBytes is the last of the partial sums. *)
LEMMA BytesAreLast ==
  ASSUME NEW q \in Seq(RetainedEntries)
  PROVE  RetainedBytes(q) = FirstBytes(q)[Len(q)] /\ RetainedBytes(q) \in Nat
<1>1. RetainedBytes(q) = FirstBytes(q)[Len(q)]
  BY ZenonT(30) DEF RetainedBytes, FirstBytes
<1>2. Len(q) \in 0 .. Len(q)
  BY LenProperties
<1> QED BY <1>1, <1>2, FirstBytesExists

(* Packets of the same lengths take the same number of bytes. *)
LEMMA FirstBytesSame ==
  ASSUME NEW q \in Seq(RetainedEntries), NEW r \in Seq(RetainedEntries),
         NEW k \in Nat, k <= Len(q), k <= Len(r), \A n \in 1 .. k : r[n].len = q[n].len
  PROVE  FirstBytes(r)[k] = FirstBytes(q)[k]
<1> DEFINE F == FirstBytes(q)
           G == FirstBytes(r)
           differ == {n \in 0 .. k : G[n] # F[n]}
<1>1. Len(q) \in Nat /\ Len(r) \in Nat
  BY LenProperties
<1>2. /\ F[0] = 0 /\ G[0] = 0
      /\ \A n \in 1 .. Len(q) : F[n] = F[n - 1] + q[n].len
      /\ \A n \in 1 .. Len(r) : G[n] = G[n - 1] + r[n].len
  BY ZenonT(30), FirstBytesExists
<1> HIDE DEF F, G
<1>3. differ = {}
  <2> SUFFICES ASSUME differ # {} PROVE FALSE
    OBVIOUS
  <2>1. differ \in SUBSET Nat
    OBVIOUS
  <2>2. PICK i \in differ : \A j \in differ : i <= j
    BY ZenonT(30), <2>1, SmallestInSet
  <2>3. i # 0
    BY <1>2, <2>2
  <2>4. /\ i \in 1 .. k /\ i \in 1 .. Len(q) /\ i \in 1 .. Len(r)
        /\ i - 1 \in 0 .. k /\ ~(i <= i - 1)
    BY <1>1, <2>3
  <2>5. G[i - 1] = F[i - 1]
    BY <2>2, <2>4
  <2>6. G[i] = F[i]
    BY <1>2, <2>4, <2>5
  <2> QED BY <2>2, <2>6
<1>4. k \in 0 .. k
  OBVIOUS
<1> QED BY <1>3, <1>4 DEF F, G

(* A queue of packets with the same lengths takes the same space. *)
LEMMA BytesSame ==
  ASSUME NEW q \in Seq(RetainedEntries), NEW r \in Seq(RetainedEntries),
         Len(r) = Len(q), \A n \in DOMAIN q : r[n].len = q[n].len
  PROVE  RetainedBytes(r) = RetainedBytes(q)
<1>1. Len(q) \in Nat /\ Len(q) <= Len(q) /\ DOMAIN q = 1 .. Len(q)
  BY LenProperties
<1>2. FirstBytes(r)[Len(q)] = FirstBytes(q)[Len(q)]
  BY <1>1, FirstBytesSame
<1> QED BY <1>2, BytesAreLast

(* A new packet lies behind the others. *)
LEMMA BytesAppend ==
  ASSUME NEW q \in Seq(RetainedEntries), NEW e \in RetainedEntries
  PROVE  RetainedBytes(Append(q, e)) = RetainedBytes(q) + e.len
<1> DEFINE r == Append(q, e)
<1>1. /\ r \in Seq(RetainedEntries) /\ Len(r) = Len(q) + 1 /\ Len(q) \in Nat
      /\ r[Len(q) + 1] = e /\ \A n \in 1 .. Len(q) : r[n] = q[n]
  BY AppendProperties, LenProperties
<1> HIDE DEF r
<1>2. FirstBytes(r)[Len(q)] = FirstBytes(q)[Len(q)]
  <2>1. Len(q) <= Len(q) /\ Len(q) <= Len(r) /\ \A n \in 1 .. Len(q) : r[n].len = q[n].len
    BY <1>1
  <2> QED BY <1>1, <2>1, FirstBytesSame, ZenonT(30)
<1>3. Len(r) \in 1 .. Len(r) /\ Len(r) - 1 = Len(q)
  BY <1>1
<1>4. FirstBytes(r)[Len(r)] = FirstBytes(r)[Len(q)] + e.len
  <2>1. FirstBytes(r)[Len(r)] = FirstBytes(r)[Len(r) - 1] + r[Len(r)].len
    BY ZenonT(30), <1>1, <1>3, FirstBytesExists
  <2> QED BY <1>1, <1>3, <2>1
<1>5. RetainedBytes(r) = FirstBytes(r)[Len(r)] /\ RetainedBytes(q) = FirstBytes(q)[Len(q)]
  BY <1>1, BytesAreLast
<1> QED BY <1>2, <1>4, <1>5 DEF r

(* The position before k, behind the gap. *)
LEMMA OneBefore ==
  ASSUME NEW n \in Nat, NEW i \in 1 .. n, NEW k \in i - 1 .. n - 1, k # i - 1
  PROVE  /\ k - 1 \in i - 1 .. n - 1 /\ ~(k <= k - 1) /\ k \in 1 .. n - 1
         /\ k + 1 \in 1 .. n /\ ~(k < i) /\ k - 1 + 1 = k
OBVIOUS

(* Two sums that differ by b still do when both grow by a. *)
LEMMA SumShift ==
  ASSUME NEW a \in Nat, NEW b \in Nat, NEW g \in Nat, NEW f \in Nat, g + b = f
  PROVE  (g + a) + b = f + a
OBVIOUS

(* pop_retained: the packets behind the removed one move up by its length. *)
LEMMA BytesRemove ==
  ASSUME NEW q \in Seq(RetainedEntries), NEW i \in DOMAIN q
  PROVE  RetainedBytes(RemoveAt(q, i)) + q[i].len = RetainedBytes(q)
<1> DEFINE r == RemoveAt(q, i)
           F == FirstBytes(q)
           G == FirstBytes(r)
           last == Len(q) - 1
           differ == {n \in i - 1 .. last : G[n] + q[i].len # F[n + 1]}
<1>1. /\ Len(q) \in Nat /\ i \in 1 .. Len(q) /\ last \in Nat
      /\ r \in Seq(RetainedEntries) /\ Len(r) = last
  BY LenProperties, RemoveAtProperties
<1>2. \A n \in 1 .. last : r[n] = IF n < i THEN q[n] ELSE q[n + 1]
  BY RemoveAtProperties
<1>3. \A n \in 1 .. Len(q) : q[n].len \in Nat
  <2>1. \A n \in 1 .. Len(q) : q[n] \in RetainedEntries
    BY ElementOfSeq, ZenonT(30)
  <2> QED BY <2>1 DEF RetainedEntries
<1> HIDE DEF r
<1>4. /\ F \in [0 .. Len(q) -> Nat] /\ G \in [0 .. last -> Nat]
      /\ \A n \in 1 .. Len(q) : F[n] = F[n - 1] + q[n].len
      /\ \A n \in 1 .. last : G[n] = G[n - 1] + r[n].len
  BY ZenonT(30), <1>1, FirstBytesExists
<1>5. G[i - 1] = F[i - 1]
  <2>1. /\ i - 1 \in Nat /\ i - 1 <= Len(q) /\ i - 1 <= Len(r)
        /\ \A n \in 1 .. i - 1 : r[n].len = q[n].len
    BY <1>1, <1>2
  <2> QED BY <1>1, <2>1, FirstBytesSame, ZenonT(30)
<1> HIDE DEF F, G
<1>6. differ = {}
  <2> SUFFICES ASSUME differ # {} PROVE FALSE
    OBVIOUS
  <2>1. differ \in SUBSET Nat
    BY <1>1
  <2>2. PICK k \in differ : \A j \in differ : k <= j
    BY ZenonT(30), <2>1, SmallestInSet
  <2>3. k \in i - 1 .. last /\ G[k] + q[i].len # F[k + 1]
    BY <2>2
  <2>4. k # i - 1
    BY <1>1, <1>4, <1>5, <2>3
  <2>5. k - 1 \in i - 1 .. last /\ ~(k <= k - 1) /\ k \in 1 .. last /\ k + 1 \in 1 .. Len(q)
        /\ ~(k < i) /\ k - 1 + 1 = k
    BY <1>1, <2>3, <2>4, OneBefore
  <2>6. G[k - 1] + q[i].len = F[k]
    BY <2>2, <2>5
  <2>7. /\ G[k] = G[k - 1] + q[k + 1].len /\ F[k + 1] = F[k] + q[k + 1].len
        /\ G[k - 1] \in Nat /\ F[k] \in Nat /\ q[k + 1].len \in Nat /\ q[i].len \in Nat
    <3>1. k + 1 - 1 = k /\ k - 1 \in 0 .. last /\ k \in 0 .. Len(q)
      BY <1>1, <2>5
    <3>2. F[k + 1] = F[k] + q[k + 1].len
      <4>1. PICK n \in 1 .. Len(q) : n = k + 1 /\ n - 1 = k
        BY <2>5
      <4>2. F[n] = F[n - 1] + q[n].len
        BY <1>4
      <4> QED BY ZenonT(30), <4>1, <4>2
    <3>6. G[k] = G[k - 1] + r[k].len
      <4> HIDE DEF differ, last
      <4> QED BY <1>4, <2>5
    <3>3. r[k] = q[k + 1]
      BY <1>2, <2>5
    <3>4. q[k + 1].len \in Nat /\ q[i].len \in Nat
      BY ZenonT(30), <1>1, <1>3, <2>5
    <3>5. G[k - 1] \in Nat /\ F[k] \in Nat
      BY ZenonT(30), <1>4, <3>1
    <3> QED BY ZenonT(30), <3>1, <3>2, <3>3, <3>4, <3>5, <3>6
  <2>8. (G[k - 1] + q[k + 1].len) + q[i].len = F[k] + q[k + 1].len
    <3> HIDE DEF differ, last
    <3> QED BY <2>6, <2>7, SumShift
  <2> QED BY ZenonT(30), <2>3, <2>7, <2>8
<1>7. last \in i - 1 .. last /\ last + 1 = Len(q)
  BY <1>1
<1>8. G[last] + q[i].len = F[Len(q)]
  BY ZenonT(30), <1>6, <1>7
<1>9. RetainedBytes(r) = G[last] /\ RetainedBytes(q) = F[Len(q)]
  BY <1>1, BytesAreLast DEF F, G
<1> QED BY <1>8, <1>9 DEF r

(* An empty queue takes no space. *)
LEMMA BytesNone == RetainedBytes(<<>>) = 0
<1>1. <<>> \in Seq(RetainedEntries) /\ Len(<<>>) = 0
  OBVIOUS
<1>2. RetainedBytes(<<>>) = FirstBytes(<<>>)[Len(<<>>)] /\ FirstBytes(<<>>)[0] = 0
  BY <1>1, BytesAreLast, FirstBytesExists, ZenonT(30)
<1> QED BY <1>1, <1>2

-----------------------------------------------------------------------------
(* The reservation of connect. *)

(* A connection once made keeps the space of a CONNECT free for good; before *)
(* the first one nothing is retained.                                        *)
ReconnectInv ==
  /\ \/ connectWorkspace = ConnectLen
     \/ /\ connectWorkspace = 0 /\ clientIdLen = 0
        /\ retained = <<>> /\ conn = "none"
  /\ ReconnectFits

(* No packet is added and none grows. *)
NoMoreBytes ==
  /\ RetainedBytes(retained') <= RetainedBytes(retained)
  /\ retained = <<>> => retained' = <<>>

(* arm_replay changes no length. *)
LEMMA ReplayBytes ==
  ASSUME NEW t \in Seq(RetainedEntries)
  PROVE  /\ RetainedBytes(Rearm(MarkPublishDup(t))) = RetainedBytes(t)
         /\ t = <<>> => Rearm(MarkPublishDup(t)) = <<>>
<1> DEFINE d == MarkPublishDup(t)
           r == Rearm(d)
<1>1. /\ r \in Seq(RetainedEntries) /\ Len(r) = Len(t) /\ DOMAIN r = DOMAIN t
      /\ d \in Seq(RetainedEntries) /\ DOMAIN d = DOMAIN t
  <2>1. d \in Seq(RetainedEntries) /\ Len(d) = Len(t) /\ DOMAIN d = DOMAIN t
    BY MarkPublishDupProperties, ZenonT(30)
  <2>2. \A e \in RetainedEntries : [e EXCEPT !.state = Write(0)] \in RetainedEntries
    BY EntryTypes
  <2> HIDE DEF d
  <2> QED BY <2>1, <2>2, RearmProperties, ZenonT(30)
<1>2. \A i \in DOMAIN t : t[i] \in RetainedEntries /\ d[i] \in RetainedEntries
  BY ZenonT(30), <1>1, ElementOfSeq, LenProperties
<1>3. \A i \in DOMAIN t : d[i].len = t[i].len
  BY <1>2 DEF MarkPublishDup, RetainedEntries
<1>4. \A i \in DOMAIN t : r[i].len = d[i].len
  <2> HIDE DEF d
  <2> QED BY <1>1, <1>2 DEF Rearm, RetainedEntries
<1> HIDE DEF d, r
<1>5. RetainedBytes(r) = RetainedBytes(t)
  BY <1>1, <1>3, <1>4, BytesSame
<1>6. t = <<>> => r = <<>>
  BY <1>1, EmptySeq
<1> QED BY <1>5, <1>6 DEF d, r

(* An acknowledgement gives space back, also when a replay follows it. *)
LEMMA RemoveBytes ==
  ASSUME TypeOK, NEW i \in DOMAIN retained,
         \/ retained' = RemoveAt(retained, i)
         \/ retained' = Rearm(MarkPublishDup(RemoveAt(retained, i)))
  PROVE  NoMoreBytes
<1> DEFINE t == RemoveAt(retained, i)
<1>1. retained \in Seq(RetainedEntries) /\ t \in Seq(RetainedEntries) /\ retained # <<>>
  BY RemoveAtProperties DEF TypeOK
<1>2. retained[i].len \in Nat
  <2>1. retained[i] \in RetainedEntries
    BY <1>1, ElementOfSeq, LenProperties
  <2> QED BY <2>1 DEF RetainedEntries
<1>3. RetainedBytes(t) + retained[i].len = RetainedBytes(retained)
  BY <1>1, BytesRemove
<1>4. RetainedBytes(retained') = RetainedBytes(t)
  <2> HIDE DEF t
  <2> QED BY <1>1, ReplayBytes DEF t
<1>5. RetainedBytes(t) \in Nat
  <2> HIDE DEF t
  <2> QED BY <1>1, BytesAreLast
<1> HIDE DEF t
<1> QED BY <1>1, <1>2, <1>3, <1>4, <1>5 DEF NoMoreBytes

(* A step that leaves the queue alone. *)
LEMMA SameBytes ==
  ASSUME TypeOK, retained' = retained
  PROVE  NoMoreBytes
BY BytesAreLast DEF TypeOK, NoMoreBytes

(* handle_disconnect arms the queue. *)
LEMMA ArmReplayBytes ==
  ASSUME TypeOK, ArmReplay
  PROVE  NoMoreBytes
BY BytesAreLast, ReplayBytes DEF TypeOK, ArmReplay, NoMoreBytes

(* A transport write notes its progress in the entry. *)
LEMMA WriteBytes ==
  ASSUME IInv, NEW q \in Queues, NEW i \in DOMAIN out[q], NEW n \in Nat,
         WriteStep(q, i, n), TypeOK'
  PROVE  NoMoreBytes
<1> DEFINE written == out[q][i].state.written + n
           len == PacketLen(q, out[q][i])
<1>1. retained' = IF q = "retained"
                  THEN [retained EXCEPT ![i] = SetWritten(retained[i], written, len)]
                  ELSE retained
  BY WriteStepEffect DEF IInv, QueueInv
<1>2. CASE q # "retained"
  BY <1>1, <1>2, SameBytes DEF IInv
<1>3. CASE q = "retained"
  <2>1. /\ i \in DOMAIN retained /\ retained \in Seq(RetainedEntries)
        /\ retained' \in Seq(RetainedEntries)
    BY <1>3 DEF IInv, TypeOK, out
  <2>2. retained[i] \in RetainedEntries
    BY <2>1, ElementOfSeq, LenProperties
  <2> HIDE DEF written, len
  <2>3. SetWritten(retained[i], written, len).len = retained[i].len
    BY <2>2 DEF SetWritten, RetainedEntries
  <2>4. /\ DOMAIN retained' = DOMAIN retained
        /\ \A j \in DOMAIN retained : retained'[j].len = retained[j].len
    BY <1>1, <1>3, <2>1, <2>3
  <2>5. Len(retained') = Len(retained)
    BY <2>1, <2>4, LenProperties
  <2>6. RetainedBytes(retained') = RetainedBytes(retained)
    BY <2>1, <2>4, <2>5, BytesSame
  <2> QED BY <2>1, <2>6, BytesAreLast DEF NoMoreBytes
<1> QED BY <1>2, <1>3

(* complete_flush marks entries as sent. *)
LEMMA FlushBytes ==
  ASSUME TypeOK, FlushComplete
  PROVE  NoMoreBytes
<1>1. retained \in Seq(RetainedEntries)
  BY DEF TypeOK
<1>2. /\ DOMAIN retained' = DOMAIN retained /\ Len(retained') = Len(retained)
      /\ retained' \in Seq(RetainedEntries)
      /\ \A i \in DOMAIN retained :
           retained'[i] = IF retained[i].state = Flush THEN [retained[i] EXCEPT !.state = Sent]
                                                       ELSE retained[i]
  BY ZenonT(30), <1>1, EntryTypes, MarkSentProperties DEF FlushComplete
<1>3. \A i \in DOMAIN retained : retained[i] \in RetainedEntries
  BY <1>1, ElementOfSeq, LenProperties
<1>4. \A i \in DOMAIN retained : retained'[i].len = retained[i].len
  BY <1>2, <1>3 DEF RetainedEntries
<1>5. RetainedBytes(retained') = RetainedBytes(retained)
  BY <1>1, <1>2, <1>4, BytesSame
<1>6. retained = <<>> => retained' = <<>>
  BY <1>2, EmptySeq
<1> QED BY <1>1, <1>5, <1>6, BytesAreLast DEF NoMoreBytes

(* A step that adds no byte and leaves the reservation alone. *)
LEMMA ReconnectStays ==
  ASSUME TypeOK, TypeOK', ReconnectInv, NoMoreBytes, UNCHANGED connectVars,
         conn = "none" => conn' = "none"
  PROVE  ReconnectInv'
<1>1. /\ BUF_LEN \in Nat /\ ConnectLen \in Nat /\ ConnectLen' = ConnectLen
      /\ RetainedBytes(retained) \in Nat /\ RetainedBytes(retained') \in Nat
  BY SessionAssumption, BytesAreLast DEF TypeOK, ConnectLen, connectVars
<1> QED BY <1>1 DEF ReconnectInv, ReconnectFits, ConnectFits, NoMoreBytes, connectVars

(* A request is retained only in what the reservation leaves. *)
LEMMA ReconnectRequest ==
  ASSUME TypeOK, TypeOK', SetFacts, ReconnectInv, conn = "live",
         NEW kind \in OpKinds, NEW len \in Nat, NEW msg \in Msgs,
         Len(retained) < MAX_RETAINED, Retain(kind, len, msg),
         RetainedBytes(retained) + len <= RetainedCapacity,
         UNCHANGED <<connectVars, conn>>
  PROVE  ReconnectInv'
<1> DEFINE e == NewRetained(kind, AllocatedId, len, msg)
<1>1. AllocatedId \in PacketIds
  BY DEF SetFacts, FreeIds
<1>2. e \in RetainedEntries /\ e.len = len
  BY <1>1, EntryTypes DEF NewRetained, RetainedEntries
<1> HIDE DEF e
<1>3. RetainedBytes(retained') = RetainedBytes(retained) + len
  BY <1>2, BytesAppend DEF Retain, TypeOK, e
<1>4. /\ BUF_LEN \in Nat /\ ConnectLen \in Nat /\ ConnectLen' = ConnectLen
      /\ RetainedBytes(retained) \in Nat
  BY SessionAssumption, BytesAreLast DEF TypeOK, ConnectLen, connectVars
<1>5. connectWorkspace = ConnectLen
  BY DEF ReconnectInv
<1> QED BY <1>3, <1>4, <1>5
        DEF ReconnectInv, ReconnectFits, ConnectFits, RetainedCapacity, connectVars

(* CONNACK: an assigned client id is accepted only if the longer CONNECT     *)
(* fits beside what stays retained.                                          *)
LEMMA ReconnectConnAck ==
  ASSUME TypeOK, TypeOK', ReconnectInv, ReceiveConnAck
  PROVE  ReconnectInv'
<1>1. conn = "handshake" /\ (retained' = retained \/ retained' = <<>>)
  BY DEF ReceiveConnAck, ConnAckInvalid, ConnAck, ResetData, queueVars
<1>2. /\ BUF_LEN \in Nat /\ CONNECT_LEN \in Nat /\ clientIdLen \in Nat
      /\ RetainedBytes(retained) \in Nat /\ RetainedBytes(<<>>) = 0
  BY SessionAssumption, BytesAreLast, BytesNone DEF TypeOK
<1>3. connectWorkspace = ConnectLen
  BY <1>1 DEF ReconnectInv
<1>4. ASSUME NEW resumed \in BOOLEAN, ConnAckInvalid(resumed)
      PROVE  ReconnectInv'
  BY <1>1, <1>2, <1>3, <1>4
     DEF ConnAckInvalid, connectVars, ReconnectInv, ReconnectFits, ConnectFits, ConnectLen
<1>5. ASSUME NEW resumed \in BOOLEAN, NEW receiveMax, NEW limit, NEW qos, NEW keep,
             NEW assigned \in AssignedLens,
             ConnAck(resumed, receiveMax, limit, qos, keep, assigned)
      PROVE  ReconnectInv'
  <2> DEFINE used == IF resumed THEN RetainedBytes(retained) ELSE 0
             accepted == assigned = 0 \/ used + (connectWorkspace + assigned) <= BUF_LEN
  <2>1. assigned \in Nat
    BY SessionAssumption
  <2>2. /\ connectWorkspace' = IF accepted THEN connectWorkspace + assigned ELSE connectWorkspace
        /\ clientIdLen' = IF accepted THEN clientIdLen + assigned ELSE clientIdLen
        /\ retained' = IF resumed THEN retained ELSE <<>>
    BY <1>5 DEF ConnAck, ResetData, queueVars
  <2>3. connectWorkspace' = ConnectLen'
    BY <1>2, <1>3, <2>1, <2>2 DEF ConnectLen
  <2>4. ReconnectFits'
    BY <1>2, <1>3, <2>1, <2>2 DEF ReconnectInv, ReconnectFits, ConnectFits, ConnectLen
  <2> QED BY <2>3, <2>4 DEF ReconnectInv
<1> QED BY <1>4, <1>5 DEF ReceiveConnAck

(* Every step keeps the room of the next CONNECT. *)
LEMMA ReconnectStep ==
  ASSUME IInv, TypeOK', SetFacts, ReconnectInv, [Next]_vars
  PROVE  ReconnectInv'
<1>1. TypeOK /\ TypeOK'
  BY DEF IInv
<1>2. ASSUME UNCHANGED <<retained, connectVars>>, conn = "none" => conn' = "none"
      PROVE  ReconnectInv'
  BY <1>1, <1>2, SameBytes, ReconnectStays
<1>3. ASSUME ArmReplay, UNCHANGED connectVars, conn = "none" => conn' = "none"
      PROVE  ReconnectInv'
  BY <1>1, <1>3, ArmReplayBytes, ReconnectStays
<1>4. CASE ConnectSent
  <2>1. NoMoreBytes /\ ConnectFits /\ connectWorkspace' = ConnectLen /\ ConnectLen' = ConnectLen
    BY <1>1, <1>4, ArmReplayBytes DEF ConnectSent, ConnectLen
  <2>2. /\ BUF_LEN \in Nat /\ ConnectLen \in Nat
        /\ RetainedBytes(retained) \in Nat /\ RetainedBytes(retained') \in Nat
    BY <1>1, SessionAssumption, BytesAreLast DEF TypeOK, ConnectLen
  <2> QED BY <2>1, <2>2 DEF ReconnectInv, ReconnectFits, ConnectFits, NoMoreBytes
<1>5. CASE ReceiveConnAck
  BY <1>1, <1>5, ReconnectConnAck
<1>6. CASE SomeWriteStep
  <2>1. PICK q \in Queues : \E i \in DOMAIN out[q] : \E n \in Nat : WriteStep(q, i, n)
    <3>1. \A k, n : n \in 1 .. k => n \in Nat
      OBVIOUS
    <3> QED BY <1>6, <3>1 DEF SomeWriteStep
  <2>2. UNCHANGED <<connectVars, conn>>
    BY ZenonT(30), <2>1 DEF WriteStep
  <2> QED BY <1>1, <2>1, <2>2, WriteBytes, ReconnectStays
<1>7. CASE FlushComplete
  BY <1>1, <1>7, FlushBytes, ReconnectStays DEF FlushComplete
<1>8. CASE SomeReceive
  <2>1. PICK p \in InPackets : Receive(p)
    BY <1>8 DEF SomeReceive
  <2>2. conn = "live" /\ UNCHANGED connectVars
    BY <2>1 DEF Receive, HandleAck, HandlePubRec, HandlePubComp, HandlePingResp,
                HandlePubRel, HandlePublish, HandleFatal
  <2>3. ASSUME NEW i \in DOMAIN retained,
               \/ retained' = RemoveAt(retained, i)
               \/ retained' = Rearm(MarkPublishDup(RemoveAt(retained, i)))
        PROVE  ReconnectInv'
    BY <1>1, <2>2, <2>3, RemoveBytes, ReconnectStays
  <2>4. UNCHANGED retained \/ ArmReplay => ReconnectInv'
    BY <1>2, <1>3, <2>2
  <2>5. CASE HandleAck(p) \/ HandlePubRec(p)
    BY <2>3, <2>4, <2>5 DEF HandleAck, HandlePubRec, queueVars
  <2>6. CASE HandlePubComp(p) \/ HandlePingResp(p)
    BY <2>4, <2>6 DEF HandlePubComp, HandlePingResp, queueVars
  <2>7. CASE HandlePubRel(p) \/ HandlePublish(p) \/ HandleFatal(p)
    BY <2>4, <2>7
       DEF HandlePubRel, HandlePublish, HandleFatal, Acknowledge, HandleDisconnect,
           SessionDisconnect, queueVars
  <2> QED BY <2>1, <2>5, <2>6, <2>7 DEF Receive
<1>9. CASE SomeRequest
  <2>1. PICK len \in Lens, msg \in Msgs :
          \/ \E qos \in 1 .. 2 : KindOf(qos) \in RequestKinds /\ Publish(qos, len, msg)
          \/ \E kind \in RequestKinds \ PublishKinds : Request(kind, len, msg)
          \/ PUBLISH_QOS0 /\ PublishQos0(len)
    BY <1>9 DEF SomeRequest
  <2>2. /\ len \in Nat /\ ENCODE_PAD \in Nat /\ RetainedBytes(retained) \in Nat
        /\ RetainedCapacity \in Int
    BY <1>1, SessionAssumption, BytesAreLast DEF TypeOK, RetainedCapacity
  <2>3. ASSUME NEW kind \in OpKinds, Len(retained) < MAX_RETAINED, Retain(kind, len, msg),
               RetainedBytes(retained) + len <= RetainedCapacity,
               conn = "live", UNCHANGED <<connectVars, conn>>
        PROVE  ReconnectInv'
    BY <1>1, <2>2, <2>3, ReconnectRequest
  <2>4. ASSUME NEW qos \in 1 .. 2, Publish(qos, len, msg)
        PROVE  ReconnectInv'
    <3>1. \A level : KindOf(level) \in OpKinds
      BY DEF KindOf, OpKinds, PublishKinds
    <3>2. conn = "live" /\ UNCHANGED <<connectVars, conn>>
      BY <2>4 DEF Publish, linkVars
    <3>3. CASE UNCHANGED retained
      BY <1>2, <3>2, <3>3
    <3>4. CASE ~UNCHANGED retained
      <4>1. PICK level : /\ Retain(KindOf(level), len, msg) /\ Len(retained) < MAX_RETAINED
                         /\ RetainedBytes(retained) + ENCODE_PAD + len <= RetainedCapacity
        BY <2>4, <3>4 DEF Publish, CanPublish
      <4>2. RetainedBytes(retained) + len <= RetainedCapacity
        BY <2>2, <4>1
      <4> QED BY <2>3, <3>1, <3>2, <4>1, <4>2
    <3> QED BY <3>3, <3>4
  <2>5. ASSUME NEW kind \in RequestKinds \ PublishKinds, Request(kind, len, msg)
        PROVE  ReconnectInv'
    <3>1. conn = "live" /\ UNCHANGED <<connectVars, conn>>
      BY <2>5 DEF Request, linkVars
    <3>2. CASE UNCHANGED retained
      BY <1>2, <3>1, <3>2
    <3> QED BY <2>3, <2>5, <3>1, <3>2, SessionAssumption DEF Request
  <2>6. CASE PublishQos0(len)
    BY <1>2, <2>6 DEF PublishQos0, queueVars, linkVars
  <2> QED BY <2>1, <2>4, <2>5, <2>6
<1>10. CASE ConnectAborts \/ ConnectRefused \/ Disconnect \/ TransportFailure \/ PingTimeout
  BY <1>3, <1>10
     DEF ConnectAborts, ConnectRefused, Disconnect, TransportFailure, PingTimeout,
         HandleDisconnect, SessionDisconnect
<1>11. CASE FlushBegin \/ QueuePing \/ PingDue \/ PingExpires \/ UNCHANGED vars
  BY ZenonT(30), <1>2, <1>11
     DEF FlushBegin, QueuePing, PingDue, PingExpires, vars, queueVars, linkVars
<1> QED BY <1>4, <1>5, <1>6, <1>7, <1>8, <1>9, <1>10, <1>11 DEF Next

=============================================================================
