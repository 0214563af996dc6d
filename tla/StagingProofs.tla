---------------------------- MODULE StagingProofs ----------------------------
(***************************************************************************)
(* The staging device: what it keeps on storage and what it reports, for    *)
(* every configuration that Service::new accepts, every set of manifests    *)
(* and every set of chunks.                                                 *)
(*                                                                         *)
(* RequestMatchesWork and WritesSequential are not inductive: that a write  *)
(* starts where storage ends depends on what the service remembers between  *)
(* two jobs.  StorageInv adds that, state by state.                         *)
(*                                                                         *)
(* A status is encoded when it is published, but its code was queued        *)
(* earlier, and the connection may be lost and the action queued again in   *)
(* between.  Honest says of everything queued or in flight that it claims   *)
(* no more than the service has reached.                                    *)
(*                                                                          *)
(* The last part is the service as a whole transfer sees it: ServiceInv,    *)
(* the same claim for the statuses about one object, and that no step takes *)
(* the transfer back.  It needs the arithmetic of the chunks (ChunkFits).   *)
(***************************************************************************)
EXTENDS StagingTransfer, TLAPS

(* Leaves are small; the time is that of the context they stand in, and a  *)
(* leaf whose encoding takes too long is tried again.                      *)
USE SMTT(30), ZenonT(20), SMTT(31), SMTT(32)

-----------------------------------------------------------------------------
(* Arithmetic. *)

(* The end of an aligned chunk at an aligned offset is aligned. *)
LEMMA SumAligned ==
  ASSUME NEW a \in Nat, NEW b \in Nat, NEW w \in Nat \ {0},
         a % w = 0, b % w = 0
  PROVE  (a + b) % w = 0
<1> DEFINE k == a \div w + b \div w - ((a + b) \div w)
<1>1. a = w * (a \div w) /\ b = w * (b \div w)
  <2>1. a = w * (a \div w) + (a % w)
    OBVIOUS
  <2>2. b = w * (b \div w) + (b % w)
    OBVIOUS
  <2> QED BY <2>1, <2>2
<1>2. a + b = w * ((a + b) \div w) + ((a + b) % w) /\ (a + b) % w \in 0..(w - 1)
  OBVIOUS
<1>3. a \div w \in Int /\ b \div w \in Int /\ (a + b) \div w \in Int
  OBVIOUS
<1>4. k \in Int
  BY <1>3
<1>5. (a + b) % w = w * k
  BY <1>1, <1>2, <1>3, <1>4
<1> HIDE DEF k
<1>6. ~(k >= 1)
  <2> SUFFICES ASSUME k >= 1 PROVE FALSE
    OBVIOUS
  <2>1. w * k >= w
    BY <1>4
  <2> QED BY <2>1, <1>2, <1>5
<1>7. ~(k <= -1)
  <2> SUFFICES ASSUME k <= -1 PROVE FALSE
    OBVIOUS
  <2>1. w * k <= -w
    BY <1>4
  <2> QED BY <2>1, <1>2, <1>5
<1> QED BY <1>4, <1>5, <1>6, <1>7

-----------------------------------------------------------------------------
(* Storage. *)

IsWrite(job) == job # None /\ job.kind = "Write"
IsPrepare(job) == job # None /\ job.kind = "Prepare"

(* What the service remembers of storage in each state. *)
Remembers ==
  /\ transfer = None <=> state = "Idle"
  /\ state = "Preparing" => transfer.next_offset = 0
  /\ state = "Ready" => /\ transfer.next_offset = stored
                        /\ stored % WRITE_SIZE = 0
                        /\ work = None
  /\ state = "Writing" =>
       /\ transfer.next_offset = stored
       /\ request.next_offset = ChunkEnd(work)
       /\ request.final_chunk <=> request.next_offset = transfer.size
  /\ state = "Complete" => /\ transfer.next_offset = transfer.size
                           /\ work = None

StorageTypes ==
  /\ state \in States
  /\ transfer \in Transfers \cup {None}
  /\ request \in Requests \cup {None}
  /\ work \in Works \cup {None}
  /\ stored \in 0..CAPACITY

(* The inductive invariant of storage: to the two properties it adds that   *)
(* the offset never passes storage or the object's size, and that a job     *)
(* preparing storage, even one whose transfer was aborted, has nothing to   *)
(* erase.                                                                   *)
StorageInv ==
  /\ StorageTypes
  /\ RequestMatchesWork
  /\ WritesSequential
  /\ Remembers
  /\ transfer # None => /\ transfer.next_offset <= stored
                        /\ transfer.next_offset <= transfer.size
  /\ IsPrepare(work) => transfer # None /\ transfer.next_offset = 0

storage == <<state, transfer, request, work, stored>>

(* A new service remembers nothing and has nothing stored. *)
LEMMA StorageInit == Init => StorageInv
  BY ConfigAssumption, InputAssumption
     DEF Init, StorageInv, StorageTypes, States, RequestMatchesWork, WritesSequential,
         Remembers, IsPrepare

(* A step that touches neither the transfer nor storage. *)
LEMMA StorageUnchanged == StorageInv /\ UNCHANGED storage => StorageInv'
  BY DEF StorageInv, StorageTypes, RequestMatchesWork, WritesSequential, Remembers,
         ChunkEnd, IsPrepare, storage

(* Accepting a manifest. *)
LEMMA StorageManifest ==
  ASSUME StorageInv, NEW m \in Manifests, HandleManifest(m)
  PROVE  StorageInv'
<1> USE DEF HandleManifest, Receiving
<1>1. CASE UNCHANGED <<state, transfer, request, work>>
  BY <1>1, StorageUnchanged DEF storage
<1>2. CASE /\ state = "Idle"
           /\ transfer' = [id |-> m.id, size |-> m.size,
                           fnv1a64 |-> m.fnv1a64, next_offset |-> 0]
           /\ state' = "Preparing"
           /\ request' = [kind |-> "Prepare"]
           /\ work' = [kind |-> "Prepare"]
  <2>1. transfer' \in Transfers /\ request' \in Requests /\ work' \in Works
    BY <1>2, InputAssumption DEF Transfers, Requests, Works, Offsets, Ids
  <2>2. transfer' # None /\ request' # None /\ work' # None
    BY <2>1, NoneAssumption
  <2>3. StorageTypes'
    BY <1>2, <2>1 DEF StorageInv, StorageTypes, States
  <2>4. RequestMatchesWork' /\ WritesSequential' /\ Remembers'
    BY <1>2, <2>2 DEF RequestMatchesWork, WritesSequential, Remembers
  <2>5. transfer'.next_offset <= stored' /\ transfer'.next_offset <= transfer'.size
    BY <1>2, ConfigAssumption, InputAssumption DEF StorageInv, StorageTypes
  <2> QED BY <1>2, <2>2, <2>3, <2>4, <2>5 DEF StorageInv, IsPrepare
<1> QED
  BY <1>1, <1>2 DEF handle_manifest, Publish, Consume

(* Any chunk that parses, whoever sent it. *)
WellFormed(c) == c.offset \in 0..U32_MAX /\ c.len \in Nat

(* A chunk in state Ready: it is reported, ends the transfer, or is written. *)
LEMMA StorageChunk ==
  ASSUME StorageInv, NEW c, WellFormed(c), HandleChunk(c)
  PROVE  StorageInv'
<1> USE DEF HandleChunk, Receiving
<1>1. CASE UNCHANGED <<state, transfer, request, work>>
  BY <1>1, StorageUnchanged DEF storage
<1>2. ASSUME transfer # None, state = "Ready", ReadyChunk(c),
             ~UNCHANGED <<state, transfer, request, work>>
      PROVE  StorageInv'
  <2>1. c.offset \in Nat /\ c.len \in Nat /\ transfer \in Transfers
    BY <1>2, InputAssumption DEF WellFormed, StorageInv, StorageTypes
  <2>2. c.offset = stored
    BY <1>2, <2>1, InputAssumption, ConfigAssumption
       DEF ReadyChunk, ChunkBehind, ChunkAhead, Publish, StorageInv, Remembers,
           Transfers, Offsets
  <2>3. CASE /\ state' = "Error"
             /\ UNCHANGED <<transfer, request, work>>
    BY <1>2, <2>3 DEF StorageInv, StorageTypes, States, RequestMatchesWork,
                      WritesSequential, Remembers, IsPrepare
  <2>4. CASE /\ ChunkFailure(c) = None
             /\ state' = "Writing"
             /\ request' = [kind |-> "Write", next_offset |-> ChunkEnd(c),
                            final_chunk |-> ChunkEnd(c) = transfer.size]
             /\ work' = [kind |-> "Write", offset |-> c.offset, len |-> c.len]
             /\ UNCHANGED transfer
    <3>1. /\ c.len \in 1..MAX_CHUNK_SIZE /\ c.len % WRITE_SIZE = 0
          /\ c.offset + c.len <= CAPACITY
      BY <2>1, <2>4, NoneAssumption, ConfigAssumption, InputAssumption
         DEF ChunkFailure, Actions, StatusCodes
    <3>2. ChunkEnd(c) \in Offsets /\ c.offset \in Offsets
      BY <2>1, <3>1, InputAssumption DEF WellFormed, ChunkEnd, Offsets, Transfers
    <3>3. request' \in Requests /\ work' \in Works
      BY <2>4, <3>1, <3>2 DEF Requests, Works
    <3>4. request' # None /\ work' # None
      BY <3>3, NoneAssumption
    <3>5. StorageTypes'
      BY <2>4, <3>3 DEF StorageInv, StorageTypes, States
    <3>6. RequestMatchesWork'
      BY <2>4, <3>4 DEF RequestMatchesWork
    <3>7. WritesSequential'
      BY <1>2, <2>2, <2>4, <3>1 DEF WritesSequential, StorageInv, Remembers
    <3>8. Remembers'
      BY ZenonT(30), <1>2, <2>2, <2>4 DEF StorageInv, Remembers, ChunkEnd
    <3>9. /\ transfer'.next_offset <= stored' /\ transfer'.next_offset <= transfer'.size
          /\ ~IsPrepare(work)'
      BY <1>2, <2>4 DEF StorageInv, IsPrepare
    <3> QED BY <3>5, <3>6, <3>7, <3>8, <3>9 DEF StorageInv
  <2> QED BY <1>2, <2>3, <2>4 DEF ReadyChunk, Publish
<1> QED
  BY ZenonT(30), <1>1, <1>2 DEF handle_chunk, Publish, Consume, StorageInv, StorageTypes, States

(* abort leaves the storage job running. *)
LEMMA StorageAbort == StorageInv /\ abort => StorageInv'
  BY DEF abort, StorageInv, StorageTypes, States, RequestMatchesWork, WritesSequential,
         Remembers, IsPrepare

(* A job ends, with or without a request that still waits for it. *)
LEMMA StorageCompletes ==
  ASSUME StorageInv, NEW success \in BOOLEAN, complete_request(success)
  PROVE  StorageInv'
<1>1. work \in Works /\ work' = None
  BY DEF complete_request, StorageInv, StorageTypes
<1>2. stored \in Nat /\ CAPACITY \in Nat
  BY ConfigAssumption DEF StorageInv, StorageTypes
<1>3. IsWrite(work) => /\ work.offset = stored /\ work.len \in Nat
                       /\ stored + work.len <= CAPACITY
                       /\ (stored + work.len) % WRITE_SIZE = 0
  <2> SUFFICES ASSUME IsWrite(work)
               PROVE  /\ work.offset = stored /\ work.len \in Nat
                      /\ stored + work.len <= CAPACITY
                      /\ (stored + work.len) % WRITE_SIZE = 0
    OBVIOUS
  <2>1. work.len \in Nat
    BY <1>1, ConfigAssumption DEF IsWrite, Works
  <2>2. /\ work.offset = stored /\ stored % WRITE_SIZE = 0
        /\ work.len % WRITE_SIZE = 0 /\ stored + work.len <= CAPACITY
    BY DEF StorageInv, WritesSequential, IsWrite
  <2> QED BY <1>2, <2>1, <2>2, SumAligned, ConfigAssumption
<1>4. work.kind = "Prepare" \/ IsWrite(work)
  BY <1>1, NoneAssumption DEF Works, IsWrite
<1>5. stored' \in 0..CAPACITY /\ (transfer # None => transfer.next_offset <= stored')
  <2>1. CASE stored' = stored
    BY <2>1 DEF StorageInv, StorageTypes
  <2>2. CASE stored' = 0 /\ work.kind = "Prepare"
    BY <1>1, <1>2, <2>2, NoneAssumption DEF StorageInv, IsPrepare
  <2>3. CASE stored' = stored + work.len /\ IsWrite(work)
    <3>1. transfer # None => transfer.next_offset \in Nat
      BY InputAssumption DEF StorageInv, StorageTypes, Transfers, Offsets
    <3> QED BY <1>2, <1>3, <2>3, <3>1 DEF StorageInv
  <2> QED BY <1>3, <1>4, <2>1, <2>2, <2>3 DEF complete_request, StoredAfter
<1>6. CASE request = None
  <2>1. UNCHANGED <<state, transfer, request>> /\ state \notin {"Preparing", "Writing"}
    BY <1>6 DEF complete_request, service, StorageInv, RequestMatchesWork
  <2>2. state # "Ready" /\ state # "Complete"
    BY DEF complete_request, StorageInv, Remembers
  <2> QED BY <1>1, <1>5, <1>6, <2>1, <2>2
          DEF StorageInv, StorageTypes, RequestMatchesWork, WritesSequential, Remembers,
              IsPrepare
<1>7. CASE request # None
  <2>1. /\ transfer \in Transfers /\ request \in Requests
        /\ transfer # None /\ request' = None
        /\ state \in {"Preparing", "Writing"} /\ Completed(success)
    BY <1>7 DEF complete_request, Completed, StorageInv, StorageTypes, RequestMatchesWork,
                Remembers
  <2>2. CASE state' = "Error" /\ UNCHANGED transfer
    BY <1>1, <1>5, <2>1, <2>2
       DEF StorageInv, StorageTypes, States, RequestMatchesWork, WritesSequential,
           Remembers, IsPrepare
  <2>3. CASE success /\ request.kind = "Prepare" /\ state' = "Ready" /\ UNCHANGED transfer
    <3>1. state = "Preparing" /\ work.kind = "Prepare"
      BY <1>7, <2>1, <2>3 DEF StorageInv, RequestMatchesWork
    <3>2. stored' = 0 /\ transfer.next_offset = 0 /\ 0 % WRITE_SIZE = 0
      BY <2>3, <3>1, ConfigAssumption
         DEF complete_request, StoredAfter, StorageInv, Remembers
    <3> QED BY <1>1, <1>5, <2>1, <2>3, <3>2
            DEF StorageInv, StorageTypes, States, RequestMatchesWork, WritesSequential,
                Remembers, IsPrepare
  <2>4. CASE /\ success /\ request.kind = "Write"
             /\ transfer' = [transfer EXCEPT !.next_offset =
                   IF request.final_chunk THEN transfer.size ELSE request.next_offset]
             /\ state' = IF request.final_chunk THEN "Complete" ELSE "Ready"
    <3>1. state = "Writing" /\ work.kind = "Write" /\ IsWrite(work)
      BY <1>1, <1>7, <2>1, <2>4, NoneAssumption DEF StorageInv, RequestMatchesWork, IsWrite
    <3>2. /\ stored' = stored + work.len /\ request.next_offset = ChunkEnd(work)
          /\ request.final_chunk <=> request.next_offset = transfer.size
      BY <1>3, <2>4, <3>1 DEF complete_request, StoredAfter, StorageInv, Remembers
    <3>3. /\ request.next_offset \in Offsets /\ transfer.size \in Offsets
          /\ request.final_chunk \in BOOLEAN
      BY <2>1, <2>4 DEF Requests, Transfers
    <3>4. transfer' \in Transfers /\ transfer' # None
      BY <2>1, <2>4, <3>3, NoneAssumption DEF Transfers
    <3>5. CASE request.final_chunk
      <4>1. transfer'.next_offset = transfer.size /\ transfer'.size = transfer.size
        BY <2>1, <2>4, <3>5 DEF Transfers
      <4>2. transfer.size <= stored'
        BY <1>2, <1>3, <3>1, <3>2, <3>3, <3>5, InputAssumption DEF ChunkEnd, Offsets
      <4>3. transfer.size <= transfer.size
        BY <3>3, InputAssumption DEF Offsets
      <4> QED BY <1>1, <1>5, <2>1, <2>4, <3>4, <3>5, <4>1, <4>2, <4>3
              DEF StorageInv, StorageTypes, States, RequestMatchesWork, WritesSequential,
                  Remembers, IsPrepare
    <3>6. CASE ~request.final_chunk
      <4>1. transfer'.next_offset = stored'
        BY <1>2, <1>3, <2>1, <2>4, <3>1, <3>2, <3>3, <3>6, InputAssumption
           DEF ChunkEnd, Offsets, Transfers
      <4>2. stored' % WRITE_SIZE = 0
        BY <1>3, <3>1, <3>2
      <4>3. transfer'.next_offset <= transfer'.size /\ stored' <= stored'
        BY <1>2, <1>3, <1>5, <2>1, <2>4, <3>1, <3>2, <3>3, <3>6, InputAssumption
           DEF ChunkEnd, Offsets, Transfers
      <4> QED BY <1>1, <1>5, <2>1, <2>4, <3>4, <3>6, <4>1, <4>2, <4>3
              DEF StorageInv, StorageTypes, States, RequestMatchesWork, WritesSequential,
                  Remembers, IsPrepare
    <3> QED BY <3>3, <3>5, <3>6
  <2>5. request.kind \in {"Prepare", "Write"}
    BY <2>1 DEF Requests
  <2> QED BY <2>1, <2>2, <2>3, <2>4, <2>5 DEF Completed
<1> QED BY <1>6, <1>7

(* A reboot forgets the transfer; a job ends with the device. *)
LEMMA StorageReboot == StorageInv /\ Reboot => StorageInv'
  BY DEF Reboot, StorageInv, StorageTypes, States, RequestMatchesWork, WritesSequential,
         Remembers, IsPrepare

(* Every step preserves the invariant of storage. *)
LEMMA StorageStep == StorageInv /\ [Next]_vars => StorageInv'
<1> SUFFICES ASSUME StorageInv, [Next]_vars PROVE StorageInv'
  OBVIOUS
<1>1. CASE UNCHANGED storage
  BY <1>1, StorageUnchanged
<1>2. CASE \E m \in Manifests : HandleManifest(m)
  BY <1>2, StorageManifest
<1>3. CASE \E c \in Chunks : HandleChunk(c)
  BY <1>3, StorageChunk, InputAssumption DEF WellFormed
<1>4. CASE abort
  BY <1>4, StorageAbort
<1>5. CASE \E success \in BOOLEAN : complete_request(success)
  BY <1>5, StorageCompletes
<1>6. CASE Reboot
  BY <1>6, StorageReboot
<1>7. \/ \E event \in {"Connected", "Reconnected"} : Connect(event)
      \/ Disconnect \/ OpCompletes \/ begin_startup
      \/ StepNoStart \/ StepInvalidated \/ StepStart
      \/ HandleIgnored \/ HandleBadManifest \/ UNCHANGED vars
      => UNCHANGED storage
  BY DEF Connect, Disconnect, OpCompletes, begin_startup, StepNoStart, StepInvalidated,
         StepStart, HandleIgnored, HandleBadManifest, BadManifest, Publish, Consume,
         Receiving, service, vars, storage
<1> QED BY <1>1, <1>2, <1>3, <1>4, <1>5, <1>6, <1>7 DEF Next

-----------------------------------------------------------------------------
(* What the device reports. *)

(* No code, queued or in flight, says "Complete" unless the transfer is     *)
(* complete, and no status is ahead of the service's offset.                *)
Honest(m, phase, offset) ==
  /\ m \in Mqtts
  /\ m.pending = "Complete" => phase = "Complete"
  /\ m.startup_publish = "Complete" => phase = "Complete"
  /\ m.inflight # None =>
       /\ m.inflight.action = "Complete" => phase = "Complete"
       /\ m.inflight.status # None =>
            /\ m.inflight.status.code = "Complete" => phase = "Complete"
            /\ m.inflight.status.next_offset <= offset

Offset == IF transfer = None THEN 0 ELSE transfer.next_offset

(* The inductive invariant of the whole device. *)
DeviceInv ==
  /\ StorageInv
  /\ Honest(mqtt, state, Offset)
  /\ conn \in {"down", "Connected", "Reconnected", "up"}

-----------------------------------------------------------------------------
(* The operators on the queue of MQTT actions. *)

(* The service goes on: what was honest stays so. *)
LEMMA StaysHonest ==
  ASSUME NEW m, NEW phase, NEW next, NEW offset \in Nat, NEW after \in Nat,
         Honest(m, phase, offset), phase = "Complete" => next = "Complete",
         offset <= after
  PROVE  Honest(m, next, after)
<1>1. m.inflight # None /\ m.inflight.status # None =>
        m.inflight.status.next_offset \in Nat
  BY InputAssumption DEF Honest, Mqtts, Inflights, Statuses, Offsets
<1> QED BY <1>1 DEF Honest

(* queue adds one code, which must be true. *)
LEMMA QueueHonest ==
  ASSUME NEW m, NEW phase, NEW offset, NEW action \in Actions,
         Honest(m, phase, offset), action = "Complete" => phase = "Complete"
  PROVE  Honest(queue(m, action), phase, offset)
<1>1. CASE SubscribeQueued(m) /\ action # Subscribe
  <2>1. action \in StatusCodes
    BY <1>1 DEF Actions
  <2> QED BY <1>1, <2>1 DEF queue, Honest, Mqtts
<1>2. CASE ~SubscribeQueued(m)
  BY <1>2 DEF queue, Honest, Mqtts
<1> QED BY <1>1, <1>2 DEF queue

(* Measuring a status changes no code. *)
LEMMA MeasuredHonest ==
  ASSUME NEW phase, NEW offset, Honest(mqtt, phase, offset)
  PROVE  Honest(Measured, phase, offset)
  BY DEF Measured, Honest, Mqtts

(* A finished Op takes its code away. *)
LEMMA RetiredHonest ==
  ASSUME NEW m, NEW phase, NEW offset, Honest(m, phase, offset)
  PROVE  Honest(Retired(m), phase, offset)
<1> DEFINE taken == [m EXCEPT !.inflight = None]
           up == [taken EXCEPT !.subscribed = TRUE, !.startup_publish = None]
<1>1. Honest(taken, phase, offset) /\ Honest(up, phase, offset)
  <2>1. Honest(taken, phase, offset)
    BY NoneAssumption DEF Honest, Mqtts, Actions, StatusCodes
  <2> HIDE DEF taken
  <2> QED BY ZenonT(30), <2>1, NoneAssumption DEF Honest, Mqtts, Actions, StatusCodes
<1>2. m.startup_publish # None =>
        /\ m.startup_publish \in Actions
        /\ m.startup_publish = "Complete" => phase = "Complete"
  BY DEF Honest, Mqtts, Actions
<1> HIDE DEF taken, up
<1>3. m.startup_publish # None => Honest(queue(up, m.startup_publish), phase, offset)
  BY <1>1, <1>2, QueueHonest
<1> QED BY <1>1, <1>3 DEF Retired, taken, up

(* A status has its code and the offset of the transfer. *)
LEMMA StatusHonest ==
  ASSUME DeviceInv, NEW code \in StatusCodes
  PROVE  /\ status_with(code) \in Statuses
         /\ status_with(code).code = code
         /\ status_with(code).next_offset = Offset
  BY InputAssumption
     DEF status_with, Statuses, Offset, DeviceInv, StorageInv, StorageTypes, Transfers,
         Offsets

(* current_code says Complete only in Complete. *)
LEMMA CurrentCode ==
  ASSUME DeviceInv
  PROVE  /\ current_code \in StatusCodes
         /\ current_code = "Complete" => state = "Complete"
  BY DEF current_code, StatusCodes, DeviceInv, StorageInv, StorageTypes, States

-----------------------------------------------------------------------------
(* The actions. *)

(* The offset a status reports is a number. *)
LEMMA OffsetType == StorageInv => Offset \in Nat
  BY InputAssumption DEF StorageInv, StorageTypes, Offset, Transfers, Offsets

(* A new service has said nothing. *)
LEMMA DeviceInit == Init => DeviceInv
<1> SUFFICES ASSUME Init PROVE DeviceInv
  OBVIOUS
<1>1. Honest(NewMqtt, state, Offset)
  BY NoneAssumption DEF NewMqtt, Honest, Mqtts, Actions, StatusCodes
<1> QED BY <1>1, StorageInit DEF Init, DeviceInv

(* Actions that leave storage alone only have to keep mqtt honest. *)
LEMMA OnlyMqtt ==
  ASSUME DeviceInv, UNCHANGED storage, Honest(mqtt', state, Offset),
         conn' \in {"down", "Connected", "Reconnected", "up"}
  PROVE  DeviceInv'
  BY StorageUnchanged DEF DeviceInv, storage, Offset, Honest

(* Connects, disconnects and completed Ops invent no code. *)
LEMMA SessionSteps ==
  ASSUME DeviceInv,
         \/ \E event \in {"Connected", "Reconnected"} : Connect(event)
         \/ Disconnect \/ OpCompletes
  PROVE  DeviceInv'
<1>1. mqtt.inflight # None => mqtt.inflight \in Inflights
  BY DEF DeviceInv, Honest, Mqtts
<1>2. \A op \in {"invalid", "complete"} :
        mqtt.inflight # None =>
          /\ [mqtt.inflight EXCEPT !.op = op] \in Inflights
          /\ Honest([mqtt EXCEPT !.inflight.op = op], state, Offset)
  BY <1>1 DEF DeviceInv, Honest, Mqtts, Inflights
<1>3. Honest(mqtt', state, Offset)
  BY <1>2 DEF DeviceInv, Connect, Disconnect, OpCompletes, service
<1> QED BY <1>3, OnlyMqtt DEF Connect, Disconnect, OpCompletes, service, storage, DeviceInv

(* begin_startup queues the current code, or saves it. *)
LEMMA StartupHonest == DeviceInv /\ begin_startup => DeviceInv'
<1> SUFFICES ASSUME DeviceInv, begin_startup PROVE DeviceInv'
  OBVIOUS
<1> DEFINE m == IF conn = "Connected"
                THEN [mqtt EXCEPT !.inflight = None, !.subscribed = FALSE]
                ELSE mqtt
           idle == [m EXCEPT !.startup_publish = None]
           replay == [m EXCEPT !.startup_publish = replay_status]
<1>1. Honest(m, state, Offset)
  BY ZenonT(30), NoneAssumption DEF DeviceInv, Honest, Mqtts
<1>2. replay_status # None =>
        replay_status \in StatusCodes /\ (replay_status = "Complete" => state = "Complete")
  BY CurrentCode DEF replay_status
<1>3. mqtt' = IF ~m.subscribed THEN queue(replay, Subscribe)
              ELSE IF replay_status = None THEN idle
              ELSE queue(idle, replay_status)
  BY DEF begin_startup
<1> HIDE DEF m
<1>4. Honest(idle, state, Offset)
  BY <1>1, NoneAssumption DEF Honest, Mqtts, Actions, StatusCodes
<1>5. Honest(replay, state, Offset)
  BY <1>1, <1>2, NoneAssumption DEF Honest, Mqtts, Actions, StatusCodes
<1> HIDE DEF idle, replay
<1>6. Subscribe \in Actions /\ Subscribe # "Complete" /\ StatusCodes \subseteq Actions
  BY DEF Actions, Subscribe
<1>7. Honest(queue(replay, Subscribe), state, Offset)
  BY <1>5, <1>6, QueueHonest
<1>8. replay_status # None => Honest(queue(idle, replay_status), state, Offset)
  BY <1>2, <1>4, <1>6, QueueHonest
<1>9. Honest(mqtt', state, Offset)
  BY <1>3, <1>4, <1>7, <1>8
<1> QED BY <1>9, OnlyMqtt DEF begin_startup, storage

(* The action in flight is retired, put back, or followed by the next one. *)
LEMMA StepHonest ==
  ASSUME DeviceInv, StepNoStart \/ StepInvalidated \/ StepStart
  PROVE  DeviceInv'
<1>1. Honest(Measured, state, Offset)
  BY MeasuredHonest DEF DeviceInv
<1>2. Honest(Retired(Measured), state, Offset)
  BY <1>1, RetiredHonest
<1>3. CASE StepNoStart
  BY <1>1, <1>2, <1>3, OnlyMqtt DEF StepNoStart, storage, DeviceInv
<1>4. CASE StepInvalidated
  <2>1. /\ mqtt.inflight.action \in Actions
        /\ mqtt.inflight.action = "Complete" => state = "Complete"
    BY <1>4 DEF StepInvalidated, Invalidated, DeviceInv, Honest, Mqtts, Inflights
  <2> DEFINE taken == [Measured EXCEPT !.inflight = None]
  <2>2. Honest(taken, state, Offset)
    BY <1>1, NoneAssumption DEF Honest, Mqtts, Actions, StatusCodes
  <2>3. mqtt' = queue(taken, mqtt.inflight.action)
    BY <1>4 DEF StepInvalidated
  <2> HIDE DEF taken
  <2>4. Honest(mqtt', state, Offset)
    BY <2>1, <2>2, <2>3, QueueHonest
  <2> QED BY <1>4, <2>4, OnlyMqtt DEF StepInvalidated, storage, DeviceInv
<1>5. CASE StepStart
  <2> DEFINE m == Retired(Measured)
             status == IF m.pending = Subscribe THEN None ELSE status_with(m.pending)
             started == [action |-> m.pending, op |-> "pending", status |-> status]
  <2>1. /\ m.pending \in Actions
        /\ m.pending = "Complete" => state = "Complete"
        /\ mqtt' = [m EXCEPT !.pending = None, !.inflight = started]
    BY <1>2, <1>5 DEF StepStart, Honest, Mqtts
  <2>2. status # None => /\ status \in Statuses
                         /\ status.code = m.pending
                         /\ status.next_offset = Offset
    BY <2>1, StatusHonest DEF Actions
  <2> HIDE DEF m, status
  <2>3. started \in Inflights
    BY <2>1, <2>2 DEF Inflights
  <2>4. Offset \in Nat
    BY OffsetType DEF DeviceInv
  <2>5. mqtt' \in Mqtts /\ mqtt'.pending = None /\ mqtt'.inflight = started
        /\ mqtt'.startup_publish = m.startup_publish
    BY ZenonT(30), <1>2, <2>1, <2>3 DEF Honest, Mqtts, m
  <2>6. None # "Complete"
    BY NoneAssumption DEF Actions, StatusCodes
  <2>7. Honest(mqtt', state, Offset)
    BY <1>2, <2>1, <2>2, <2>4, <2>5, <2>6 DEF Honest, m
  <2> QED BY <1>5, <2>7, OnlyMqtt DEF StepStart, storage, DeviceInv
<1> QED BY <1>3, <1>4, <1>5

(* Inbound publishes. *)
LEMMA PublishHonest ==
  ASSUME DeviceInv, NEW code \in StatusCodes, Publish(code),
         code = "Complete" => state = "Complete"
  PROVE  Honest(mqtt', state, Offset)
  BY QueueHonest DEF Publish, Actions, DeviceInv

(* A manifest or chunk queues a code that is true of what it did. *)
LEMMA InboundHonest ==
  ASSUME DeviceInv,
         \/ HandleIgnored \/ HandleBadManifest
         \/ \E m \in Manifests : HandleManifest(m)
         \/ \E c : WellFormed(c) /\ HandleChunk(c)
  PROVE  DeviceInv'
<1> USE DEF Receiving
<1>1. StorageInv'
  BY StorageStep, StorageChunk DEF DeviceInv, Next
<1>2. conn' = "up"
  BY DEF HandleIgnored, HandleBadManifest, HandleManifest, HandleChunk
<1>3. ASSUME NEW code \in StatusCodes, code # "Complete", mqtt' = queue(mqtt, code),
             state # "Complete", Offset' = Offset
      PROVE  DeviceInv'
  <2>1. Honest(mqtt', state, Offset)
    BY <1>3, QueueHonest DEF Actions, DeviceInv
  <2> QED BY <1>1, <1>2, <1>3, <2>1, StaysHonest, OffsetType DEF DeviceInv, Honest
<1>4. ASSUME NEW code \in StatusCodes, Publish(code),
             code = "Complete" => state = "Complete"
      PROVE  DeviceInv'
  <2>1. Honest(mqtt', state, Offset)
    BY <1>4, PublishHonest
  <2>2. state' = state /\ Offset' = Offset
    BY <1>4 DEF Publish, Offset
  <2> QED BY <1>1, <1>2, <2>1, <2>2 DEF DeviceInv, Honest
<1>5. ASSUME mqtt' = mqtt, state # "Complete" \/ state' = state, Offset' = Offset
      PROVE  DeviceInv'
  BY <1>1, <1>2, <1>5, StaysHonest, OffsetType DEF DeviceInv, Honest
<1>6. CASE HandleIgnored
  BY <1>5, <1>6 DEF HandleIgnored, Consume, Offset
<1>7. CASE HandleBadManifest
  BY <1>4, <1>5, <1>7 DEF HandleBadManifest, BadManifest, Consume, StatusCodes, Offset
<1>8. ASSUME NEW m \in Manifests, HandleManifest(m)
      PROVE  DeviceInv'
  <2>1. CASE Consume
    BY <1>5, <2>1 DEF Consume, Offset
  <2>2. CASE Publish(current_code)
    BY <1>4, <2>2, CurrentCode
  <2>3. CASE \E code \in {"Error", "Oversize", "Mtu"} : Publish(code)
    BY <1>4, <2>3 DEF StatusCodes
  <2>4. CASE /\ state = "Idle" /\ mqtt' = queue(mqtt, "Accepted")
             /\ transfer' = [id |-> m.id, size |-> m.size,
                             fnv1a64 |-> m.fnv1a64, next_offset |-> 0]
    <3>1. Offset = 0 /\ Offset' = 0
      BY <2>4 DEF Offset, DeviceInv, StorageInv, Remembers
    <3> QED BY <1>3, <2>4, <3>1 DEF StatusCodes
  <2> QED BY <1>8, <2>1, <2>2, <2>3, <2>4 DEF HandleManifest, handle_manifest
<1>9. ASSUME NEW c, WellFormed(c), HandleChunk(c)
      PROVE  DeviceInv'
  <2>1. CASE Consume
    BY <1>5, <2>1 DEF Consume, Offset
  <2>2. CASE Publish(current_code)
    BY <1>4, <2>2, CurrentCode
  <2>3. CASE \E code \in {"Idle", "Duplicate", "Offset"} : Publish(code)
    BY <1>4, <2>3 DEF StatusCodes
  <2>4. CASE state = "Ready" /\ ReadyChunk(c) /\ UNCHANGED transfer
             /\ mqtt' = queue(mqtt, ChunkFailure(c)) /\ ChunkFailure(c) # None
    <3>1. ChunkFailure(c) \in StatusCodes /\ ChunkFailure(c) # "Complete"
      BY <2>4 DEF ChunkFailure, StatusCodes
    <3> QED BY <1>3, <2>4, <3>1 DEF Offset
  <2>5. CASE state = "Ready" /\ UNCHANGED <<mqtt, transfer>>
    BY <1>5, <2>5 DEF Offset
  <2>6. state \in States
    BY DEF DeviceInv, StorageInv, StorageTypes
  <2> QED BY ZenonT(30), <1>9, <2>1, <2>2, <2>3, <2>4, <2>5, <2>6
          DEF HandleChunk, handle_chunk, ReadyChunk, States
<1> QED BY <1>6, <1>7, <1>8, <1>9

(* abort reports an error, never progress. *)
LEMMA AbortHonest == DeviceInv /\ abort => DeviceInv'
<1> SUFFICES ASSUME DeviceInv, abort PROVE DeviceInv'
  OBVIOUS
<1>1. Honest(mqtt', state, Offset)
  BY QueueHonest DEF abort, Actions, StatusCodes, DeviceInv
<1>2. Offset \in Nat /\ Offset' = Offset /\ state # "Complete"
  BY OffsetType DEF abort, Offset, DeviceInv
<1>3. Honest(mqtt', state', Offset')
  BY <1>1, <1>2, StaysHonest
<1> QED BY <1>3, StorageAbort DEF DeviceInv, Honest, abort

(* A job that ends moves the offset forward only. *)
LEMMA CompletionHonest ==
  ASSUME DeviceInv, NEW success \in BOOLEAN, complete_request(success)
  PROVE  DeviceInv'
<1>1. StorageInv /\ StorageInv'
  BY StorageCompletes DEF DeviceInv
<1>2. Offset \in Nat /\ Offset' \in Nat
  <2>1. Offset \in Nat
    BY <1>1, OffsetType
  <2>2. Offset' \in Nat
    BY <1>1, InputAssumption DEF StorageInv, StorageTypes, Offset, Transfers, Offsets
  <2> QED BY <2>1, <2>2
<1>3. CASE request = None
  <2>1. UNCHANGED <<mqtt, state, transfer>>
    BY <1>3 DEF complete_request, service
  <2> QED BY <1>1, <2>1 DEF complete_request, DeviceInv, Honest, Offset
<1>4. CASE request # None
  <2>1. Completed(success) /\ transfer # None /\ state # "Complete" /\ conn' = conn
    BY <1>4 DEF complete_request, DeviceInv, StorageInv, RequestMatchesWork, Remembers
  <2>2. Offset <= Offset'
    <3>1. CASE UNCHANGED transfer
      BY <1>2, <3>1 DEF Offset
    <3>2. CASE success /\ request.kind # "Prepare"
      <4>1. state = "Writing" /\ work.kind = "Write" /\ work # None
        BY <1>4, <3>2 DEF DeviceInv, StorageInv, RequestMatchesWork
      <4>2. /\ transfer' # None /\ transfer.next_offset = stored
            /\ stored \in Nat /\ transfer.size \in Nat /\ stored <= transfer.size
            /\ work.offset = stored /\ work.len \in Nat
            /\ request.next_offset = ChunkEnd(work)
        BY <1>1, <2>1, <4>1, ConfigAssumption, InputAssumption
           DEF StorageInv, StorageTypes, Remembers, WritesSequential, Works, Transfers,
               Offsets, Completed
      <4>3. transfer'.next_offset \in {transfer.size, ChunkEnd(work)}
        BY <1>1, <2>1, <3>2, <4>2 DEF Completed, StorageInv, StorageTypes, Transfers
      <4>4. transfer.size >= stored /\ ChunkEnd(work) >= stored
        BY <4>2 DEF ChunkEnd
      <4> QED BY <2>1, <4>2, <4>3, <4>4 DEF Offset
    <3> QED BY <2>1, <3>1, <3>2 DEF Completed
  <2>3. PICK code \in Actions : /\ mqtt' = queue(mqtt, code)
                                /\ code = "Complete" => state' = "Complete"
    BY <2>1 DEF Completed, Actions, StatusCodes
  <2>4. Honest(mqtt, state', Offset')
    BY <1>2, <2>1, <2>2, StaysHonest DEF DeviceInv
  <2>5. Honest(mqtt', state', Offset')
    BY <2>3, <2>4, QueueHonest
  <2> QED BY <1>1, <2>1, <2>5 DEF DeviceInv, Honest
<1> QED BY <1>3, <1>4

(* A reboot loses all that was queued. *)
LEMMA RebootHonest == DeviceInv /\ Reboot => DeviceInv'
<1> SUFFICES ASSUME DeviceInv, Reboot PROVE DeviceInv'
  OBVIOUS
<1>1. Honest(NewMqtt, state', Offset')
  BY NoneAssumption DEF NewMqtt, Honest, Mqtts, Actions, StatusCodes
<1> QED BY <1>1, StorageReboot DEF Reboot, DeviceInv, Honest

(* Every step preserves the invariant. *)
LEMMA DevicePreserves == DeviceInv /\ [Next]_vars => DeviceInv'
<1> SUFFICES ASSUME DeviceInv, [Next]_vars PROVE DeviceInv'
  OBVIOUS
<1>1. CASE UNCHANGED vars
  BY <1>1, OnlyMqtt DEF vars, storage, DeviceInv
<1>2. \A c \in Chunks : WellFormed(c)
  BY InputAssumption DEF WellFormed
<1> QED BY <1>1, <1>2, SessionSteps, StartupHonest, StepHonest, InboundHonest,
           AbortHonest, CompletionHonest, RebootHonest
        DEF Next

-----------------------------------------------------------------------------
(* The theorems. *)

(* The invariant holds in every reachable state of the device, for every    *)
(* configuration, every publisher, every abort, storage failure, lost       *)
(* connection and reboot.                                                   *)
THEOREM DeviceInvariant == Spec => []DeviceInv
  BY DeviceInit, DevicePreserves, PTL DEF Spec

(* Every field of the service, its connection and its storage keeps its     *)
(* type; offsets fit a u32 and storage never exceeds its capacity.          *)
THEOREM DeviceTypes == Spec => []TypeOK
<1>1. DeviceInv => TypeOK
  BY DEF DeviceInv, Honest, StorageInv, StorageTypes, TypeOK
<1> QED BY <1>1, DeviceInvariant, PTL

(* complete_request never takes the result of one storage job for that of   *)
(* another.                                                                 *)
THEOREM ResultsMatchRequests == Spec => []RequestMatchesWork
<1>1. DeviceInv => RequestMatchesWork
  BY DEF DeviceInv, StorageInv
<1> QED BY <1>1, DeviceInvariant, PTL

(* Storage is written from the front, without gaps, aligned and within the  *)
(* capacity, whatever chunks handle_chunk is given.                         *)
THEOREM StorageIsSequential == Spec => []WritesSequential
<1>1. DeviceInv => WritesSequential
  BY DEF DeviceInv, StorageInv
<1> QED BY <1>1, DeviceInvariant, PTL

(* Neither the service nor any status in flight claims progress that is     *)
(* not on storage, or completion of an object that is not stored in full.   *)
THEOREM ReportsAreTrue == Spec => []ProgressStored
<1>1. DeviceInv => ProgressStored
  BY DEF DeviceInv, StorageInv, Remembers, Honest, Offset, ProgressStored
<1> QED BY <1>1, DeviceInvariant, PTL

(* Complete and error are final until the device reboots. *)
THEOREM EndsAreFinal == Spec => TerminalIsFinal
<1>1. DeviceInv /\ [Next]_vars =>
        [(state \in {"Complete", "Error"} /\ ~Reboot) =>
            state' = state /\ transfer' = transfer /\ request' = None]_vars
  <2> SUFFICES ASSUME DeviceInv, [Next]_vars, state \in {"Complete", "Error"}, ~Reboot
               PROVE  state' = state /\ transfer' = transfer /\ request' = None
    OBVIOUS
  <2>1. request = None
    BY DEF DeviceInv, StorageInv, RequestMatchesWork
  <2>2. CASE UNCHANGED <<state, transfer, request>>
    BY <2>1, <2>2
  <2>3. ASSUME NEW m \in Manifests, HandleManifest(m)
        PROVE  UNCHANGED <<state, transfer, request>>
    BY <2>3 DEF HandleManifest, handle_manifest, Publish, Consume
  <2>4. ASSUME NEW c \in Chunks, HandleChunk(c)
        PROVE  UNCHANGED <<state, transfer, request>>
    BY ZenonT(30), <2>4 DEF HandleChunk, handle_chunk, Publish, Consume
  <2>5. ASSUME NEW success \in BOOLEAN, complete_request(success)
        PROVE  UNCHANGED <<state, transfer, request>>
    BY <2>1, <2>5 DEF complete_request, service
  <2>6. ~abort
    BY DEF abort
  <2>7. \/ \E event \in {"Connected", "Reconnected"} : Connect(event)
        \/ Disconnect \/ OpCompletes \/ begin_startup
        \/ StepNoStart \/ StepInvalidated \/ StepStart
        \/ HandleIgnored \/ HandleBadManifest \/ UNCHANGED vars
        => UNCHANGED <<state, transfer, request>>
    BY DEF Connect, Disconnect, OpCompletes, begin_startup, StepNoStart, StepInvalidated,
           StepStart, HandleIgnored, HandleBadManifest, BadManifest, Publish, Consume,
           service, vars
  <2> QED BY <2>2, <2>3, <2>4, <2>5, <2>6, <2>7 DEF Next
<1> QED BY <1>1, DeviceInvariant, PTL DEF Spec, TerminalIsFinal

-----------------------------------------------------------------------------
(* Arithmetic of the chunks. *)

(* Products are ordered like their factors. *)
LEMMA ProductOrder ==
  ASSUME NEW w \in Nat \ {0}, NEW x \in Int, NEW y \in Int, w * x < w * y
  PROVE  x < y
<1> SUFFICES ASSUME y <= x PROVE FALSE
  OBVIOUS
<1>1. w * y <= w * x
  OBVIOUS
<1>2. w * x \in Int /\ w * y \in Int
  OBVIOUS
<1> QED BY <1>1, <1>2

(* Division with remainder, of a negative number too. *)
LEMMA Euclid ==
  ASSUME NEW n \in Int, NEW w \in Nat \ {0}
  PROVE  \E q \in Int : n = w * q + (n % w) /\ n % w \in 0..(w - 1)
<1>1. n \div w \in Int /\ n = w * (n \div w) + (n % w) /\ n % w \in 0..(w - 1)
  OBVIOUS
<1> QED BY ZenonT(30), <1>1

(* A multiple of the write size is aligned. *)
LEMMA MultipleAligned ==
  ASSUME NEW w \in Nat \ {0}, NEW q \in Int
  PROVE  (w * q) % w = 0
<1> DEFINE n == w * q
<1>1. n \in Int
  OBVIOUS
<1>2. PICK p \in Int : n = w * p + (n % w) /\ n % w \in 0..(w - 1)
  BY ZenonT(30), <1>1, Euclid
<1>3. w * p <= w * q /\ w * q < w * (p + 1)
  <2>1. w * (p + 1) = w * p + w /\ w * p \in Int
    OBVIOUS
  <2> QED BY <1>2, <2>1
<1>4. q < p + 1
  BY <1>3, ProductOrder
<1>5. ~(q < p)
  <2> SUFFICES ASSUME q < p PROVE FALSE
    OBVIOUS
  <2>1. w * q + w <= w * p
    <3>1. w * (q + 1) <= w * p
      OBVIOUS
    <3>2. w * (q + 1) = w * q + w
      OBVIOUS
    <3> QED BY <3>1, <3>2
  <2>2. w * q \in Int /\ w * p \in Int
    OBVIOUS
  <2> QED BY <1>3, <2>1, <2>2
<1>6. p = q
  BY <1>4, <1>5
<1> QED BY <1>2, <1>6

(* Two aligned numbers less than a block apart are the same. *)
LEMMA AlignedUnique ==
  ASSUME NEW w \in Nat \ {0}, NEW x \in Int, NEW y \in Int, NEW n \in Int,
         x % w = 0, y % w = 0, n <= x, x < n + w, n <= y, y < n + w
  PROVE  x = y
<1>1. PICK p \in Int : x = w * p
  <2>1. PICK q \in Int : x = w * q + (x % w)
    BY ZenonT(30), Euclid
  <2>2. w * q + 0 = w * q
    OBVIOUS
  <2> QED BY ZenonT(30), <2>1, <2>2
<1>2. PICK q \in Int : y = w * q
  <2>1. PICK r \in Int : y = w * r + (y % w)
    BY ZenonT(30), Euclid
  <2>2. w * r + 0 = w * r
    OBVIOUS
  <2> QED BY ZenonT(30), <2>1, <2>2
<1>3. w * p < w * (q + 1) /\ w * q < w * (p + 1)
  <2>1. w * (q + 1) = w * q + w /\ w * (p + 1) = w * p + w
    OBVIOUS
  <2> QED BY <1>1, <1>2, <2>1
<1>4. p < q + 1 /\ q < p + 1
  BY <1>3, ProductOrder
<1>5. p = q
  BY <1>4
<1> QED BY <1>1, <1>2, <1>5

(* The padding of the last chunk reaches the next multiple. *)
LEMMA PaddedAligned ==
  ASSUME NEW w \in Nat \ {0}, NEW n \in Int
  PROVE  /\ (-n) % w \in 0..(w - 1)
         /\ (n + ((-n) % w)) % w = 0
<1>0. -n \in Int
  OBVIOUS
<1>1. PICK q \in Int : -n = w * q + ((-n) % w) /\ (-n) % w \in 0..(w - 1)
  BY <1>0, Euclid, ZenonT(30)
<1>2. n + ((-n) % w) = w * (-q)
  <2>1. w * (-q) = -(w * q) /\ w * q \in Int
    OBVIOUS
  <2> QED BY <1>1, <2>1
<1>3. (w * (-q)) % w = 0
  BY MultipleAligned
<1> QED BY <1>1, <1>2, <1>3

(* A number up to an aligned one stays so when padded. *)
LEMMA PaddedBounded ==
  ASSUME NEW w \in Nat \ {0}, NEW n \in Int, NEW a \in Int, a % w = 0, n <= a
  PROVE  n + ((-n) % w) <= a
<1>1. PICK p \in Int : a = w * p
  <2>1. PICK r \in Int : a = w * r + (a % w)
    BY ZenonT(30), Euclid
  <2>2. w * r + 0 = w * r
    OBVIOUS
  <2> QED BY <2>1, <2>2
<1>0. -n \in Int
  OBVIOUS
<1>2. PICK q \in Int : -n = w * q + ((-n) % w) /\ (-n) % w \in 0..(w - 1)
  BY <1>0, Euclid, ZenonT(30)
<1>3. w * (-q) = -(w * q) /\ w * q \in Int /\ w * (p + 1) = w * p + w /\ w * p \in Int
  OBVIOUS
<1>4. w * (-q) < w * (p + 1)
  BY <1>1, <1>2, <1>3
<1>5. -q < p + 1
  BY <1>4, ProductOrder
<1>6. w * (-q) <= w * p
  BY <1>5
<1> QED BY <1>1, <1>2, <1>3, <1>6

(* The padded end of the last chunk is the padded end of the object. *)
LEMMA PaddedEnd ==
  ASSUME NEW w \in Nat \ {0}, NEW offset \in Nat, NEW size \in Nat,
         offset % w = 0, size - offset \in Nat
  PROVE  offset + ((size - offset) + ((-(size - offset)) % w))
           = size + ((-size) % w)
<1> DEFINE raw == size - offset
           padded == raw + ((-raw) % w)
           x == offset + padded
           y == size + ((-size) % w)
<1>1. raw \in Int /\ size \in Int
  OBVIOUS
<1>2. (-raw) % w \in 0..(w - 1) /\ padded % w = 0
  BY <1>1, PaddedAligned, ZenonT(30)
<1>3. (-size) % w \in 0..(w - 1) /\ y % w = 0
  BY <1>1, PaddedAligned, ZenonT(30)
<1>4. padded \in Nat /\ size <= x /\ x < size + w
  BY <1>2
<1>5. y \in Int /\ size <= y /\ y < size + w
  BY <1>3
<1> HIDE DEF padded
<1>6. x % w = 0 /\ x \in Int
  <2>1. x % w = 0
    BY <1>2, <1>4, SumAligned, ZenonT(30)
  <2> QED BY <1>4, <2>1
<1> HIDE DEF x, y
<1>7. x = y
  BY ZenonT(30), <1>1, <1>3, <1>4, <1>5, <1>6, AlignedUnique
<1> QED BY <1>7 DEF x, y, padded

(* aligned_chunk_size is aligned. *)
LEMMA TruncatedAligned ==
  ASSUME NEW w \in Nat \ {0}, NEW n \in Nat
  PROVE  (n - (n % w)) % w = 0 /\ n - (n % w) \in 0..n
<1>0. n \in Int
  OBVIOUS
<1>1. PICK q \in Int : n = w * q + (n % w) /\ n % w \in 0..(w - 1)
  BY <1>0, Euclid, ZenonT(30)
<1>2. n - (n % w) = w * q
  <2>1. w * q \in Int
    OBVIOUS
  <2> QED BY <1>1, <2>1
<1>3. n - (n % w) >= 0
  <2>1. ~(q < 0)
    <3> SUFFICES ASSUME q < 0 PROVE FALSE
      OBVIOUS
    <3>1. w * (q + 1) <= 0 /\ w * (q + 1) = w * q + w /\ w * q \in Int
      OBVIOUS
    <3> QED BY <1>1, <3>1
  <2>2. w * q >= 0
    BY <2>1
  <2> QED BY <1>2, <2>2
<1>4. (n - (n % w)) % w = 0
  BY <1>2, MultipleAligned, ZenonT(30)
<1> QED BY <1>1, <1>3, <1>4
-----------------------------------------------------------------------------
(* The chunks of the host. *)

CanSend == aligned_chunk_size(CHUNK_SIZE, MAX_CHUNK_SIZE, WRITE_SIZE) # 0

(* The size the host cuts the object into. *)
LEMMA AlignedSize ==
  LET size == aligned_chunk_size(CHUNK_SIZE, MAX_CHUNK_SIZE, WRITE_SIZE)
  IN  size \in 0..MAX_CHUNK_SIZE /\ size % WRITE_SIZE = 0
<1>1. Smaller(CHUNK_SIZE, MAX_CHUNK_SIZE) \in 0..MAX_CHUNK_SIZE
  BY ConfigAssumption, TransferAssumption DEF Smaller
<1> DEFINE n == Smaller(CHUNK_SIZE, MAX_CHUNK_SIZE)
<1>2. n \in Nat
  BY <1>1, ConfigAssumption
<1> HIDE DEF n
<1>3. (n - (n % WRITE_SIZE)) % WRITE_SIZE = 0 /\ n - (n % WRITE_SIZE) \in 0..n
  BY <1>2, TruncatedAligned, ConfigAssumption
<1>4. n - (n % WRITE_SIZE) \in 0..MAX_CHUNK_SIZE
  BY <1>1, <1>3, ConfigAssumption DEF n
<1> QED BY <1>3, <1>4 DEF aligned_chunk_size, n

(* A chunk is never empty, never longer than the device accepts, always     *)
(* aligned, and from an aligned offset it ends before the object does or at *)
(* the padded end of the object.                                            *)
LEMMA ChunkFits ==
  ASSUME NEW offset \in Offsets, offset < Object.size, CanSend
  PROVE  /\ ChunkAt(offset) \in [id : {Object.id}, offset : {offset},
                                 len : 1..MAX_CHUNK_SIZE, padded : {TRUE}]
         /\ ChunkAt(offset).len % WRITE_SIZE = 0
         /\ offset % WRITE_SIZE = 0 =>
              \/ offset + ChunkAt(offset).len < Object.size
              \/ offset + ChunkAt(offset).len
                   = Object.size + ((-Object.size) % WRITE_SIZE)
<1> DEFINE a == aligned_chunk_size(CHUNK_SIZE, MAX_CHUNK_SIZE, WRITE_SIZE)
           raw == Smaller(a, Object.size - offset)
           n == IF offset + raw >= Object.size THEN raw + ((-raw) % WRITE_SIZE)
                ELSE raw
<1>1. /\ offset \in Nat /\ Object.size \in Nat /\ Object.size - offset \in Nat
      /\ WRITE_SIZE \in Nat \ {0} /\ MAX_CHUNK_SIZE \in Nat
  BY InputAssumption, TransferAssumption, ConfigAssumption DEF Offsets
<1>2. a \in 1..MAX_CHUNK_SIZE /\ a % WRITE_SIZE = 0
  <2>1. a \in 0..MAX_CHUNK_SIZE /\ a % WRITE_SIZE = 0
    BY AlignedSize
  <2>2. a # 0
    BY DEF CanSend
  <2> HIDE DEF a
  <2> QED BY <1>1, <2>1, <2>2
<1>3. ChunkUnpadded(offset) \in [id : {Object.id}, offset : {offset}, len : {raw},
                                 padded : {TRUE}]
  BY DEF ChunkUnpadded
<1> HIDE DEF a
<1>4. raw \in 1..a /\ raw <= Object.size - offset
  BY <1>1, <1>2 DEF Smaller
<1>5. offset + raw < Object.size => raw = a
  BY <1>1, <1>2 DEF Smaller
<1> HIDE DEF raw
<1>6. ChunkAt(offset) \in [id : {Object.id}, offset : {offset}, len : {n},
                           padded : {TRUE}]
  <2>1. ChunkUnpadded(offset).len = raw
    BY <1>3
  <2>2. ChunkAt(offset) = [ChunkUnpadded(offset) EXCEPT !.len = n]
    BY <2>1, ZenonT(30) DEF ChunkAt
  <2> HIDE DEF n
  <2> QED BY ZenonT(30), <1>3, <2>2
<1>7. CASE offset + raw >= Object.size
  <2>1. raw = Object.size - offset /\ raw \in Int /\ a \in Int /\ raw <= a
    BY <1>1, <1>2, <1>4, <1>7
  <2>2. /\ (-raw) % WRITE_SIZE \in 0..(WRITE_SIZE - 1)
        /\ (raw + ((-raw) % WRITE_SIZE)) % WRITE_SIZE = 0
    BY ZenonT(30), <1>1, <2>1, PaddedAligned
  <2>3. raw + ((-raw) % WRITE_SIZE) <= a
    BY <1>1, <1>2, <2>1, PaddedBounded
  <2>4. offset % WRITE_SIZE = 0 =>
          offset + n = Object.size + ((-Object.size) % WRITE_SIZE)
    BY ZenonT(30), <1>1, <1>7, <2>1, PaddedEnd
  <2>5. n \in 1..MAX_CHUNK_SIZE /\ n % WRITE_SIZE = 0
    BY <1>1, <1>2, <1>4, <1>7, <2>2, <2>3
  <2> HIDE DEF n
  <2> QED BY ZenonT(30), <1>6, <2>4, <2>5
<1>8. CASE ~(offset + raw >= Object.size)
  <2>1. n = a /\ offset + n < Object.size
    BY <1>1, <1>2, <1>4, <1>5, <1>8
  <2> HIDE DEF n
  <2> QED BY ZenonT(30), <1>2, <1>6, <2>1
<1> QED BY ZenonT(30), <1>7, <1>8

-----------------------------------------------------------------------------
(* The invariant of the service. *)

(* A status the session or the broker holds, against the transfer and the   *)
(* state of the service now: it is about this object, it claims nothing the *)
(* service has not reached, and it asks for no chunk past the end.          *)
GoodStatus(s, t, phase) ==
  /\ s \in Statuses
  /\ s.id # None => /\ t # None
                    /\ Matches(s)
                    /\ s.next_offset <= t.next_offset
  /\ s.code = "Complete" => phase = "Complete"
  /\ s.id # None /\ s.code # "Complete" /\ ~Raises(s) =>
       s.next_offset < Object.size

(* The queue of the service forgets all but the latest code: a status waits *)
(* behind a subscription, never beside one, and nothing older than          *)
(* `complete` is left once the transfer is complete.                        *)
Latest(m, phase) ==
  /\ SubscribeQueued(m) => m.pending \in {None, Subscribe}
  /\ m.startup_publish # None => SubscribeQueued(m)
  /\ phase = "Complete" => /\ m.pending \in {None, Subscribe, "Complete"}
                           /\ m.startup_publish \in {None, "Complete"}

(* The only object the host offers is the one being staged. *)
ObjectOnly(t, phase) ==
  t # None => /\ t.id = Object.id /\ t.size = Object.size
              /\ t.fnv1a64 = Object.fnv1a64
              /\ phase \notin {"Complete", "Error"} => t.next_offset < Object.size

InflightGood(m, t, phase) ==
  m.inflight # None /\ m.inflight.action # Subscribe =>
    GoodStatus(m.inflight.status, t, phase)

ServiceInv ==
  /\ DeviceInv
  /\ ObjectOnly(transfer, state)
  /\ Latest(mqtt, state)
  /\ InflightGood(mqtt, transfer, state)

(* A transfer only moves on. *)
Further(t, phase, u, next) ==
  /\ t # None => u # None /\ t.next_offset <= u.next_offset
  /\ phase = "Complete" => next = "Complete"

Options == Transfers \cup {None}

(* The fields of a transfer are numbers. *)
LEMMA OffsetNat ==
  ASSUME NEW t \in Transfers
  PROVE  t.next_offset \in Nat /\ t.size \in Nat
BY InputAssumption DEF Transfers, Offsets

(* A service that stands still is as far as it was. *)
LEMMA FurtherSelf ==
  ASSUME NEW t \in Options, NEW phase
  PROVE  Further(t, phase, t, phase)
BY OffsetNat DEF Options, Further

(* A good status stays good while the service moves on. *)
LEMMA StatusStays ==
  ASSUME NEW s, NEW t \in Options, NEW u \in Options, NEW phase, NEW next,
         GoodStatus(s, t, phase), Further(t, phase, u, next)
  PROVE  GoodStatus(s, u, next)
<1>1. s.next_offset \in Nat
  BY InputAssumption DEF GoodStatus, Statuses, Offsets
<1> QED BY <1>1, OffsetNat DEF GoodStatus, Further, Options

-----------------------------------------------------------------------------
(* The operators on the queue. *)

(* The last word on a transfer stays the last unless it completes. *)
LEMMA LatestPhase ==
  ASSUME NEW m, NEW phase, NEW next, Latest(m, phase), next # "Complete" \/ next = phase
  PROVE  Latest(m, next)
BY DEF Latest

(* queue keeps the last word if it adds nothing older. *)
LEMMA LatestQueue ==
  ASSUME NEW m \in Mqtts, NEW phase, NEW action \in Actions, Latest(m, phase),
         phase = "Complete" => action \in {Subscribe, "Complete"}
  PROVE  Latest(queue(m, action), phase)
<1>1. CASE SubscribeQueued(m) /\ action # Subscribe
  BY <1>1 DEF queue, Latest, SubscribeQueued, Mqtts
<1>2. CASE ~SubscribeQueued(m)
  BY <1>2 DEF queue, Latest, SubscribeQueued, Mqtts
<1> QED BY <1>1, <1>2 DEF queue

(* `complete` replaces whatever was queued before. *)
LEMMA LatestComplete ==
  ASSUME NEW m \in Mqtts, NEW phase, Latest(m, phase)
  PROVE  Latest(queue(m, "Complete"), "Complete")
<1>1. "Complete" # Subscribe
  BY DEF Subscribe
<1>2. CASE SubscribeQueued(m)
  BY <1>1, <1>2 DEF queue, Latest, SubscribeQueued, Mqtts
<1>3. CASE ~SubscribeQueued(m)
  BY <1>1, <1>3 DEF queue, Latest, SubscribeQueued, Mqtts
<1> QED BY <1>2, <1>3

(* queue leaves the action in flight alone. *)
LEMMA QueueInflight ==
  ASSUME NEW m \in Mqtts, NEW action \in Actions
  PROVE  queue(m, action) \in Mqtts /\ queue(m, action).inflight = m.inflight
BY DEF queue, Mqtts, Actions

(* Retiring the action in flight. *)
LEMMA RetiredGood ==
  ASSUME NEW m \in Mqtts, NEW phase, Latest(m, phase)
  PROVE  /\ Latest(Retired(m), phase)
         /\ Retired(m) \in Mqtts
         /\ Retired(m).inflight = None
<1> DEFINE taken == [m EXCEPT !.inflight = None]
           up == [taken EXCEPT !.subscribed = TRUE, !.startup_publish = None]
<1>1. taken \in Mqtts /\ taken.inflight = None /\ taken.pending = m.pending
      /\ taken.startup_publish = m.startup_publish
  BY DEF Mqtts
<1>2. up \in Mqtts /\ up.inflight = None /\ up.pending = m.pending
      /\ up.startup_publish = None
  <2> HIDE DEF taken
  <2> QED BY ZenonT(30), <1>1 DEF Mqtts
<1>3. Retired(m) = IF m.inflight = None \/ m.inflight.action # Subscribe THEN taken
                   ELSE IF m.startup_publish = None THEN up
                   ELSE queue(up, m.startup_publish)
  BY DEF Retired
<1> HIDE DEF taken, up
<1>4. CASE m.inflight = None \/ m.inflight.action # Subscribe
  BY <1>1, <1>3, <1>4 DEF Latest, SubscribeQueued
<1>5. CASE /\ ~(m.inflight = None \/ m.inflight.action # Subscribe)
           /\ m.startup_publish = None
  BY <1>2, <1>3, <1>5 DEF Latest, SubscribeQueued
<1>6. CASE /\ ~(m.inflight = None \/ m.inflight.action # Subscribe)
           /\ m.startup_publish # None
  <2>1. Latest(up, phase)
    BY <1>2, <1>6 DEF Latest, SubscribeQueued
  <2>2. m.startup_publish \in Actions
        /\ (phase = "Complete" => m.startup_publish = "Complete")
    BY <1>6 DEF Latest, Mqtts, Actions
  <2> QED BY <1>2, <1>3, <1>6, <2>1, <2>2, LatestQueue, QueueInflight
<1> QED BY <1>4, <1>5, <1>6

(* A status encoded now from the latest code. *)
LEMMA StatusGood ==
  ASSUME DeviceInv, ObjectOnly(transfer, state), NEW code \in StatusCodes,
         code = "Complete" <=> state = "Complete"
  PROVE  GoodStatus(status_with(code), transfer, state)
<1>1. status_with(code) \in Statuses
  BY StatusHonest
<1>2. transfer \in Options /\ state \in States
  BY DEF DeviceInv, StorageInv, StorageTypes, Options
<1>3. CASE transfer = None
  BY <1>1, <1>3 DEF GoodStatus, status_with
<1>4. CASE transfer # None
  <2>1. transfer.next_offset <= transfer.next_offset
    BY <1>2, <1>4, OffsetNat DEF Options
  <2>2. state = "Error" => Raises(status_with(code))
    BY DEF Raises, status_with
  <2>3. Matches(status_with(code))
    BY <1>4 DEF Matches, status_with, ObjectOnly
  <2>4. /\ status_with(code).next_offset = transfer.next_offset
        /\ status_with(code).code = code
    BY <1>4 DEF status_with
  <2> QED BY <1>1, <1>4, <2>1, <2>2, <2>3, <2>4 DEF GoodStatus, ObjectOnly
<1> QED BY <1>3, <1>4

-----------------------------------------------------------------------------
(* The steps of the service. *)

ServiceMoves == ServiceInv' /\ Further(transfer, state, transfer', state')

(* The fields of the service have their types. *)
LEMMA TransferOption ==
  DeviceInv => transfer \in Options /\ mqtt \in Mqtts /\ state \in States
BY DEF DeviceInv, StorageInv, StorageTypes, Options, Honest

(* A step that changes only the queue. *)
LEMMA OnlyQueue ==
  ASSUME ServiceInv, DeviceInv', UNCHANGED <<state, transfer>>,
         Latest(mqtt', state), InflightGood(mqtt', transfer, state)
  PROVE  ServiceMoves
<1>1. Further(transfer, state, transfer', state')
  BY FurtherSelf, TransferOption DEF ServiceInv
<1> QED BY <1>1 DEF ServiceMoves, ServiceInv, ObjectOnly, Latest, InflightGood

(* The connection comes and goes; at most the Op in flight changes. *)
LEMMA ConnectionMoves ==
  ASSUME ServiceInv,
         \/ \E event \in {"Connected", "Reconnected"} : Connect(event)
         \/ Disconnect \/ OpCompletes
  PROVE  ServiceMoves
<1>1. DeviceInv' /\ UNCHANGED <<state, transfer>>
  BY SessionSteps DEF ServiceInv, Connect, Disconnect, OpCompletes, service
<1>2. mqtt \in Mqtts
  BY TransferOption DEF ServiceInv
<1>3. ASSUME mqtt.inflight # None, NEW op \in {"complete", "invalid"},
             mqtt' = [mqtt EXCEPT !.inflight.op = op]
      PROVE  Latest(mqtt', state) /\ InflightGood(mqtt', transfer, state)
  <2>1. mqtt.inflight \in Inflights
    BY <1>2, <1>3 DEF Mqtts
  <2>2. mqtt'.inflight = [mqtt.inflight EXCEPT !.op = op]
    BY <1>2, <1>3 DEF Mqtts
  <2>3. /\ mqtt'.inflight.action = mqtt.inflight.action
        /\ mqtt'.inflight.status = mqtt.inflight.status
    BY <2>1, <2>2 DEF Inflights
  <2>4. mqtt'.pending = mqtt.pending /\ mqtt'.startup_publish = mqtt.startup_publish
    BY <1>2, <1>3 DEF Mqtts
  <2>5. SubscribeQueued(mqtt') => SubscribeQueued(mqtt)
    BY <1>3, <2>3, <2>4 DEF SubscribeQueued
  <2>6. SubscribeQueued(mqtt) => SubscribeQueued(mqtt') \/ mqtt'.inflight = None
    BY <2>3, <2>4 DEF SubscribeQueued
  <2>7. mqtt'.inflight # None
    <3>1. mqtt'.inflight \in Inflights
      BY <2>1, <2>2 DEF Inflights
    <3> QED BY <3>1, NoneAssumption
  <2> QED BY <1>3, <2>3, <2>4, <2>5, <2>6, <2>7 DEF ServiceInv, Latest, InflightGood
<1>4. CASE mqtt' = mqtt
  BY <1>1, <1>4, OnlyQueue DEF ServiceInv
<1> QED BY <1>1, <1>3, <1>4, OnlyQueue DEF Connect, Disconnect, OpCompletes, service


(* A reconnect repeats a code that still holds. *)
LEMMA ReplayCode ==
  ASSUME DeviceInv, replay_status # None
  PROVE  /\ replay_status \in StatusCodes
         /\ state = "Complete" => replay_status = "Complete"
BY ZenonT(30), CurrentCode DEF replay_status, current_code

(* begin_startup moves the service on. *)
LEMMA StartupMoves == ServiceInv /\ begin_startup => ServiceMoves
<1> SUFFICES ASSUME ServiceInv, begin_startup PROVE ServiceMoves
  OBVIOUS
<1> DEFINE m == IF conn = "Connected"
                THEN [mqtt EXCEPT !.inflight = None, !.subscribed = FALSE]
                ELSE mqtt
           idle == [m EXCEPT !.startup_publish = None]
           replay == [m EXCEPT !.startup_publish = replay_status]
<1>1. mqtt \in Mqtts /\ DeviceInv /\ Latest(mqtt, state)
  BY TransferOption DEF ServiceInv
<1>2. /\ m \in Mqtts /\ m.pending = mqtt.pending
      /\ m.inflight \in {None, mqtt.inflight}
  BY ZenonT(30), <1>1 DEF Mqtts
<1>3. mqtt' = IF ~m.subscribed THEN queue(replay, Subscribe)
              ELSE IF replay_status = None THEN idle
              ELSE queue(idle, replay_status)
  BY DEF begin_startup
<1>4. SubscribeQueued(m) => m.pending \in {None, Subscribe}
  BY <1>1, <1>2 DEF Latest, SubscribeQueued
<1>5. state = "Complete" => m.pending \in {None, Subscribe, "Complete"}
  BY <1>1, <1>2 DEF Latest
<1> HIDE DEF m
<1>6. /\ idle \in Mqtts /\ idle.pending = m.pending /\ idle.inflight = m.inflight
      /\ idle.startup_publish = None
  BY <1>2 DEF Mqtts
<1>7. /\ replay \in Mqtts /\ replay.pending = m.pending /\ replay.inflight = m.inflight
      /\ replay.startup_publish = replay_status
  BY <1>1, <1>2, ReplayCode DEF Mqtts
<1>8. Latest(idle, state)
  BY <1>4, <1>5, <1>6 DEF Latest, SubscribeQueued
<1>9. state = "Complete" => replay_status \in {None, "Complete"}
  BY <1>1, ReplayCode
<1> HIDE DEF idle, replay
<1>10. Latest(queue(replay, Subscribe), state)
  <2>1. CASE SubscribeQueued(replay)
    BY <1>4, <1>5, <1>7, <1>9, <2>1 DEF queue, Latest, SubscribeQueued
  <2>2. CASE ~SubscribeQueued(replay)
    BY <1>7, <1>9, <2>2 DEF queue, Latest, SubscribeQueued, Mqtts
  <2> QED BY <2>1, <2>2
<1>11. replay_status # None => Latest(queue(idle, replay_status), state)
  BY <1>1, <1>6, <1>8, <1>9, ReplayCode, LatestQueue DEF Actions
<1>12. Latest(mqtt', state)
  BY <1>3, <1>8, <1>10, <1>11
<1>13. mqtt'.inflight \in {None, mqtt.inflight}
  <2>1. Subscribe \in Actions /\ StatusCodes \subseteq Actions
    BY DEF Actions
  <2> QED BY <1>1, <1>2, <1>3, <1>6, <1>7, <2>1, ReplayCode, QueueInflight
<1>14. InflightGood(mqtt', transfer, state)
  BY <1>13 DEF ServiceInv, InflightGood
<1>15. DeviceInv' /\ UNCHANGED <<state, transfer>>
  BY <1>1, StartupHonest DEF begin_startup
<1> QED BY <1>12, <1>14, <1>15, OnlyQueue

(* A step without a packet to start, or one cancelled before it returned. *)
LEMMA StepQuiet ==
  ASSUME ServiceInv, StepNoStart
  PROVE  ServiceMoves
<1>1. mqtt \in Mqtts /\ DeviceInv /\ Latest(mqtt, state)
  BY TransferOption DEF ServiceInv
<1>2. /\ Measured \in Mqtts /\ Measured.pending = mqtt.pending
      /\ Measured.inflight = mqtt.inflight
      /\ Measured.startup_publish = mqtt.startup_publish
  BY <1>1 DEF Measured, Mqtts
<1>3. Latest(Measured, state)
  BY <1>1, <1>2 DEF Latest, SubscribeQueued
<1>4. mqtt' = Measured \/ mqtt' = Retired(Measured)
  BY DEF StepNoStart
<1>5. Latest(mqtt', state) /\ mqtt'.inflight \in {None, mqtt.inflight}
  BY <1>2, <1>3, <1>4, RetiredGood
<1>6. InflightGood(mqtt', transfer, state)
  BY <1>5 DEF ServiceInv, InflightGood
<1>7. DeviceInv' /\ UNCHANGED <<state, transfer>>
  BY <1>1, StepHonest DEF StepNoStart
<1> QED BY <1>5, <1>6, <1>7, OnlyQueue

(* The code a step is about to encode. *)
LEMMA PendingGood ==
  ASSUME ServiceInv
  PROVE  LET m == Retired(Measured) IN
           /\ m \in Mqtts /\ Latest(m, state)
           /\ m.pending \in StatusCodes =>
                GoodStatus(status_with(m.pending), transfer, state)
<1> DEFINE m == Retired(Measured)
<1>1. mqtt \in Mqtts /\ DeviceInv /\ Latest(mqtt, state)
  BY TransferOption DEF ServiceInv
<1>2. Measured \in Mqtts /\ Latest(Measured, state)
  BY <1>1 DEF Measured, Mqtts, Latest, SubscribeQueued
<1>3. m \in Mqtts /\ Latest(m, state)
  BY <1>2, RetiredGood
<1>4. Honest(m, state, Offset)
  BY <1>1, MeasuredHonest, RetiredHonest DEF DeviceInv
<1> HIDE DEF m
<1>5. ASSUME m.pending \in StatusCodes
      PROVE  GoodStatus(status_with(m.pending), transfer, state)
  <2>1. m.pending = "Complete" <=> state = "Complete"
    BY <1>3, <1>4, <1>5, NoneAssumption
       DEF Latest, Honest, StatusCodes, Subscribe, Actions
  <2> QED BY <1>1, <1>5, <2>1, StatusGood DEF ServiceInv
<1> QED BY <1>3, <1>5 DEF m

(* step takes the queued action in flight with the offset of now. *)
LEMMA StepStarts ==
  ASSUME ServiceInv, StepStart
  PROVE  ServiceMoves
<1> DEFINE m == Retired(Measured)
           status == IF m.pending = Subscribe THEN None ELSE status_with(m.pending)
           started == [action |-> m.pending, op |-> "pending", status |-> status]
<1>1. m \in Mqtts /\ Latest(m, state)
  BY PendingGood
<1>2. m.pending \in StatusCodes => GoodStatus(status_with(m.pending), transfer, state)
  BY PendingGood
<1>3. m.pending \in Actions /\ mqtt' = [m EXCEPT !.pending = None, !.inflight = started]
  BY <1>1 DEF StepStart, Mqtts
<1> HIDE DEF m, status
<1>4. /\ mqtt'.pending = None /\ mqtt'.inflight = started
      /\ mqtt'.startup_publish = m.startup_publish
  BY <1>1, <1>3 DEF Mqtts
<1>5. started.action = m.pending /\ started.status = status
  OBVIOUS
<1>6. m.pending # Subscribe => m.pending \in StatusCodes
  BY <1>3 DEF Actions
<1>7. InflightGood(mqtt', transfer, state)
  BY <1>2, <1>4, <1>5, <1>6 DEF InflightGood, status
<1>8. DeviceInv' /\ UNCHANGED <<state, transfer>>
  BY StepHonest DEF StepStart, ServiceInv
<1>9. m.pending # Subscribe => m.startup_publish = None
  BY <1>1, <1>3, NoneAssumption DEF Latest
<1>10. started # None
  <2>1. started \in Inflights
    BY <1>4, <1>8, NoneAssumption, StepHonest, StatusHonest, <1>3, <1>6
       DEF Inflights, status, ServiceInv
  <2> QED BY <2>1, NoneAssumption
<1>11. Latest(mqtt', state)
  BY <1>1, <1>4, <1>5, <1>9, <1>10, NoneAssumption
     DEF Latest, SubscribeQueued, Actions
<1> QED BY <1>7, <1>8, <1>11, OnlyQueue


(* A code queued without touching the transfer. *)
LEMMA PublishMoves ==
  ASSUME ServiceInv, DeviceInv', NEW code \in StatusCodes,
         mqtt' = queue(mqtt, code), transfer' = transfer,
         state' = state \/ (state \notin {"Complete", "Error"} /\ state' # "Complete"
                             /\ ObjectOnly(transfer, state')),
         state = "Complete" => code = "Complete"
  PROVE  ServiceMoves
<1>1. mqtt \in Mqtts /\ transfer \in Options
  BY TransferOption DEF ServiceInv
<1>2. code \in Actions
  BY DEF Actions
<1>3. Latest(queue(mqtt, code), state)
  BY <1>1, <1>2, LatestQueue DEF ServiceInv
<1>4. Latest(mqtt', state')
  BY <1>3, LatestPhase
<1>5. Further(transfer, state, transfer', state')
  BY <1>1, FurtherSelf DEF Further
<1>6. InflightGood(mqtt', transfer', state')
  BY <1>1, <1>2, <1>5, QueueInflight, StatusStays DEF ServiceInv, InflightGood
<1>7. ObjectOnly(transfer', state')
  BY DEF ServiceInv, ObjectOnly
<1> QED BY ZenonT(30), <1>4, <1>5, <1>6, <1>7 DEF ServiceMoves, ServiceInv, Latest, InflightGood,
                                      ObjectOnly

(* A finished Op makes room for the queued action. *)
LEMMA ConsumeMoves ==
  ASSUME ServiceInv, DeviceInv', Consume
  PROVE  ServiceMoves
BY OnlyQueue DEF Consume, ServiceInv

(* The manifest of the object, first or repeated. *)
LEMMA ManifestMoves == ServiceInv /\ HandleManifest(Object) => ServiceMoves
<1> SUFFICES ASSUME ServiceInv, HandleManifest(Object) PROVE ServiceMoves
  OBVIOUS
<1>1. DeviceInv /\ DeviceInv'
  BY InboundHonest, TransferAssumption DEF ServiceInv
<1>2. CASE Consume
  BY <1>1, <1>2, ConsumeMoves
<1>3. CASE Publish(current_code)
  <2>1. state = "Complete" => current_code = "Complete"
    BY DEF current_code
  <2> QED BY <1>1, <1>3, <2>1, CurrentCode, PublishMoves DEF Publish
<1>4. CASE state = "Idle" /\ \E code \in {"Error", "Oversize", "Mtu"} : Publish(code)
  BY <1>1, <1>4, PublishMoves DEF Publish, StatusCodes
<1>5. CASE /\ state = "Idle" /\ mqtt' = queue(mqtt, "Accepted")
           /\ transfer' = [id |-> Object.id, size |-> Object.size,
                           fnv1a64 |-> Object.fnv1a64, next_offset |-> 0]
           /\ state' = "Preparing" /\ Object.size # 0
  <2>1. transfer = None /\ mqtt \in Mqtts
    BY <1>1, <1>5, TransferOption DEF DeviceInv, StorageInv, Remembers
  <2>2. Object.size > 0
    BY <1>5, InputAssumption, TransferAssumption
  <2>3. ObjectOnly(transfer', state')
    BY <1>5, <2>2 DEF ObjectOnly
  <2>4. Further(transfer, state, transfer', state')
    BY <1>5, <2>1 DEF Further
  <2>5. "Accepted" \in Actions
    BY DEF Actions, StatusCodes
  <2>6. Latest(mqtt', state')
    <3>1. Latest(queue(mqtt, "Accepted"), state)
      BY <1>5, <2>1, <2>5, LatestQueue DEF ServiceInv
    <3> QED BY <1>5, <3>1, LatestPhase
  <2>7. transfer' \in Options /\ transfer \in Options
    BY <1>1, TransferOption DEF DeviceInv, StorageInv, StorageTypes, Options
  <2>8. InflightGood(mqtt', transfer', state')
    BY ZenonT(30), <1>5, <2>1, <2>4, <2>5, <2>7, QueueInflight, StatusStays
       DEF ServiceInv, InflightGood
  <2> QED BY <1>1, <2>3, <2>4, <2>6, <2>8
          DEF ServiceMoves, ServiceInv, Latest, InflightGood, ObjectOnly
<1> QED BY <1>2, <1>3, <1>4, <1>5 DEF HandleManifest, handle_manifest

(* A chunk of the host is reported, ends the transfer or is written. *)
LEMMA ChunkMoves ==
  ASSUME ServiceInv, NEW c, WellFormed(c), HandleChunk(c)
  PROVE  ServiceMoves
<1>1. DeviceInv /\ DeviceInv'
  BY InboundHonest DEF ServiceInv
<1>2. CASE Consume
  BY <1>1, <1>2, ConsumeMoves
<1>3. CASE Publish(current_code)
  <2>1. state = "Complete" => current_code = "Complete"
    BY DEF current_code
  <2> QED BY <1>1, <1>3, <2>1, CurrentCode, PublishMoves DEF Publish
<1>4. CASE /\ state # "Complete"
           /\ \E code \in {"Idle", "Duplicate", "Offset"} : Publish(code)
  BY <1>1, <1>4, PublishMoves DEF Publish, StatusCodes
<1>5. CASE /\ state = "Ready" /\ state' = "Error" /\ transfer' = transfer
           /\ mqtt' = queue(mqtt, ChunkFailure(c)) /\ ChunkFailure(c) # None
  <2>1. ChunkFailure(c) \in StatusCodes
    BY <1>5 DEF ChunkFailure, StatusCodes
  <2>2. ObjectOnly(transfer, "Error")
    BY DEF ServiceInv, ObjectOnly
  <2> QED BY <1>1, <1>5, <2>1, <2>2, PublishMoves
<1>6. CASE state = "Ready" /\ state' = "Writing" /\ UNCHANGED <<mqtt, transfer>>
  <2>1. transfer \in Options
    BY <1>1, TransferOption
  <2>2. Further(transfer, state, transfer', state')
    BY <1>6, <2>1, FurtherSelf DEF Further
  <2>3. ObjectOnly(transfer', state') /\ Latest(mqtt', state')
    BY <1>6, LatestPhase DEF ServiceInv, ObjectOnly
  <2>4. InflightGood(mqtt', transfer', state')
    BY <1>6, <2>1, <2>2, StatusStays DEF ServiceInv, InflightGood
  <2> QED BY <1>1, <2>2, <2>3, <2>4
          DEF ServiceMoves, ServiceInv, Latest, InflightGood, ObjectOnly
<1>7. state \in States /\ (transfer = None => state = "Idle")
  BY <1>1, TransferOption DEF DeviceInv, StorageInv, Remembers
<1> QED BY ZenonT(30), <1>2, <1>3, <1>4, <1>5, <1>6, <1>7
        DEF HandleChunk, handle_chunk, ReadyChunk, States

(* abort moves the service on, to Error. *)
LEMMA AbortMoves == ServiceInv /\ abort => ServiceMoves
<1> SUFFICES ASSUME ServiceInv, abort PROVE ServiceMoves
  OBVIOUS
<1>1. DeviceInv'
  BY AbortHonest DEF ServiceInv
<1>2. ObjectOnly(transfer, "Error")
  BY DEF ServiceInv, ObjectOnly
<1>3. "Error" \in StatusCodes
  BY DEF StatusCodes
<1> QED BY <1>1, <1>2, <1>3, PublishMoves DEF abort
=============================================================================
