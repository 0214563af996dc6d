------------------------------- MODULE Staging -------------------------------
(***************************************************************************)
(* The device half of mqtt-staging: the state machine that moves one        *)
(* object into application-owned storage (mqtt-staging/src/lib.rs).          *)
(*                                                                         *)
(* Each action is one call of a public method of Service; `step` is the     *)
(* only async one and changes the service only before and after its await. *)
(* Around the service stand two external parties, modelled from how the     *)
(* code uses them: the minimq session, seen through the Op it hands out,    *)
(* and the storage worker, which may outlive the request that started it.   *)
(* Here the host is chaotic: any manifest and any chunk may arrive at any   *)
(* time.  StagingTransfer replaces it by the real host program.             *)
(***************************************************************************)
EXTENDS Integers, FiniteSets, Sequences

CONSTANTS
    CAPACITY,         \* Config::capacity
    MAX_CHUNK_SIZE,   \* Config::max_chunk_size
    WRITE_SIZE,       \* Config::write_size
    U32_MAX,          \* the largest u32, scaled down
    RX_SIZE,          \* Session::max_rx_packet_size
    RxBytes,          \* required_rx_bytes of a full chunk, for every id
    Manifests,        \* the manifests that parse: records id, size, fnv1a64
    Chunks,           \* the chunks with properties: id, offset, len, padded
    None,             \* Option::None
    EARLY_STEP        \* may the application step before begin_startup?

Subscribe == "Subscribe"

States == {"Idle", "Preparing", "Ready", "Writing", "Complete", "Error"}

StatusCodes ==
    {"Idle", "Accepted", "Duplicate", "Offset", "Oversize", "Mtu",
     "Unaligned", "Storage", "Complete", "Error"}

(* Action: a code stands for Action::Publish of that code. *)
Actions == StatusCodes \cup {Subscribe}

(* Service::new refuses every other configuration. *)
ASSUME ConfigAssumption ==
    /\ CAPACITY \in 0..U32_MAX
    /\ WRITE_SIZE \in Nat \ {0}
    /\ MAX_CHUNK_SIZE \in Nat \ {0}
    /\ MAX_CHUNK_SIZE % WRITE_SIZE = 0

ASSUME InputAssumption ==
    /\ U32_MAX \in Nat /\ RX_SIZE \in Nat /\ EARLY_STEP \in BOOLEAN
    /\ \A m \in Manifests : m.size \in 0..U32_MAX /\ RxBytes[m.id] \in Nat
    /\ \A c \in Chunks : c.offset \in 0..U32_MAX /\ c.len \in Nat

Offsets == 0..U32_MAX
Ids == {m.id : m \in Manifests}

Transfers ==
    [id : Ids, size : Offsets, fnv1a64 : {m.fnv1a64 : m \in Manifests},
     next_offset : Offsets]

Requests ==
    [kind : {"Prepare"}]
      \cup [kind : {"Write"}, next_offset : Offsets, final_chunk : BOOLEAN]

Works ==
    [kind : {"Prepare"}]
      \cup [kind : {"Write"}, offset : Offsets, len : 1..MAX_CHUNK_SIZE]

Statuses ==
    [state : States, code : StatusCodes, id : {None} \cup Ids,
     next_offset : Offsets, size : Offsets]

Inflights ==
    [action : Actions, op : {"pending", "complete", "invalid"},
     status : Statuses \cup {None}]

Mqtts ==
    [inflight : Inflights \cup {None}, pending : Actions \cup {None},
     startup_publish : StatusCodes \cup {None}, subscribed : BOOLEAN,
     max_rx_packet_size : {0, RX_SIZE}]

ASSUME NoneAssumption ==
    None \notin Transfers \cup Requests \cup Works \cup Statuses \cup Inflights
                  \cup Actions

VARIABLES
    mqtt,      \* inflight, pending, startup_publish, subscribed, max_rx
    state,     \* Service::state
    transfer,  \* Service::transfer
    request,   \* Service::request
    conn,      \* the connection: down, a ConnectEvent to handle, or up
    work,      \* the storage job the application is executing
    stored     \* bytes on storage, from offset 0, since the last prepare

service == <<mqtt, state, transfer, request>>
vars == <<mqtt, state, transfer, request, conn, work, stored>>

NewMqtt ==
    [inflight |-> None, pending |-> None, startup_publish |-> None,
     subscribed |-> FALSE, max_rx_packet_size |-> 0]

Init ==
    /\ mqtt = NewMqtt
    /\ state = "Idle"
    /\ transfer = None
    /\ request = None
    /\ conn = "down"
    /\ work = None
    /\ stored = 0

-----------------------------------------------------------------------------
(* Status publications and the single-slot queue of MQTT work. *)

current_code ==
    CASE state = "Idle" -> "Idle"
      [] state \in {"Preparing", "Ready", "Writing"} -> "Accepted"
      [] state = "Complete" -> "Complete"
      [] state = "Error" -> "Error"

(* A status is encoded when it is published, from the state at that time. *)
status_with(code) ==
    [state |-> state, code |-> code,
     id |-> IF transfer = None THEN None ELSE transfer.id,
     next_offset |-> IF transfer = None THEN 0 ELSE transfer.next_offset,
     size |-> IF transfer = None THEN 0 ELSE transfer.size]

replay_status == IF state = "Idle" THEN None ELSE current_code

SubscribeQueued(m) ==
    \/ m.pending = Subscribe
    \/ m.inflight # None /\ m.inflight.action = Subscribe

(* While a subscription is due or in flight a status waits behind it. *)
queue(m, action) ==
    IF SubscribeQueued(m)
    THEN IF action = Subscribe THEN m
         ELSE [m EXCEPT !.startup_publish = action]
    ELSE [m EXCEPT !.pending = action]

-----------------------------------------------------------------------------
(* The connection and the session, external to the service. *)

(* A session that was not resumed invalidates every earlier Op. *)
Connect(event) ==
    /\ conn = "down"
    /\ conn' = event
    /\ mqtt' = IF event = "Connected" /\ mqtt.inflight # None
               THEN [mqtt EXCEPT !.inflight.op = "invalid"]
               ELSE mqtt
    /\ UNCHANGED <<state, transfer, request, work, stored>>

Disconnect ==
    /\ conn = "up"
    /\ conn' = "down"
    /\ UNCHANGED <<service, work, stored>>

(* The SUBACK or PUBACK of the packet in flight arrives. *)
OpCompletes ==
    /\ conn # "down"
    /\ mqtt.inflight # None
    /\ mqtt.inflight.op = "pending"
    /\ mqtt' = [mqtt EXCEPT !.inflight.op = "complete"]
    /\ UNCHANGED <<state, transfer, request, conn, work, stored>>

(* Startup subscribes again but forgets to replay the status. *)
begin_startupSilent ==
    /\ conn \in {"Connected", "Reconnected"}
    /\ conn' = "up"
    /\ mqtt' = IF conn = "Connected"
               THEN queue([mqtt EXCEPT !.inflight = None, !.subscribed = FALSE,
                                       !.startup_publish = None], Subscribe)
               ELSE mqtt
    /\ UNCHANGED <<state, transfer, request, work, stored>>

begin_startup ==
    /\ conn \in {"Connected", "Reconnected"}
    /\ conn' = "up"
    /\ LET m == IF conn = "Connected"
                THEN [mqtt EXCEPT !.inflight = None, !.subscribed = FALSE]
                ELSE mqtt
           idle == [m EXCEPT !.startup_publish = None]
       IN  mqtt' = IF ~m.subscribed
                   THEN queue([m EXCEPT !.startup_publish = replay_status],
                              Subscribe)
                   ELSE IF replay_status = None THEN idle
                   ELSE queue(idle, replay_status)
    /\ UNCHANGED <<state, transfer, request, work, stored>>

-----------------------------------------------------------------------------
(* step: retire the action in flight, then start the pending one. *)

(* What `step` makes of an action whose Op is no longer pending. *)
Retired(m) ==
    LET taken == [m EXCEPT !.inflight = None]
        up    == [taken EXCEPT !.subscribed = TRUE, !.startup_publish = None]
    IN  IF m.inflight = None \/ m.inflight.action # Subscribe THEN taken
        ELSE IF m.startup_publish = None THEN up
        ELSE queue(up, m.startup_publish)

Stepping == conn = "up" \/ (EARLY_STEP /\ conn # "down")

Waiting == mqtt.inflight # None /\ mqtt.inflight.op = "pending"
Invalidated == mqtt.inflight # None /\ mqtt.inflight.op = "invalid"

Measured == [mqtt EXCEPT !.max_rx_packet_size = RX_SIZE]

(* The action in flight is pending, the session has no room for another   *)
(* packet, or nothing is pending.                                          *)
StepNoStart ==
    /\ Stepping
    /\ ~Invalidated
    /\ mqtt' = IF Waiting THEN Measured ELSE Retired(Measured)
    /\ UNCHANGED <<state, transfer, request, conn, work, stored>>

StepInvalidated ==
    /\ Stepping
    /\ Invalidated
    /\ mqtt' = queue([Measured EXCEPT !.inflight = None], mqtt.inflight.action)
    /\ UNCHANGED <<state, transfer, request, conn, work, stored>>

StepStart ==
    /\ Stepping
    /\ ~Waiting
    /\ ~Invalidated
    /\ LET m == Retired(Measured) IN
         /\ m.pending # None
         /\ mqtt' = [m EXCEPT
              !.pending = None,
              !.inflight = [action |-> m.pending, op |-> "pending",
                            status |-> IF m.pending = Subscribe THEN None
                                       ELSE status_with(m.pending)]]
    /\ UNCHANGED <<state, transfer, request, conn, work, stored>>

-----------------------------------------------------------------------------
(* Inbound publishes. *)

SameManifest(m) ==
    /\ transfer # None
    /\ transfer.id = m.id
    /\ transfer.size = m.size
    /\ transfer.fnv1a64 = m.fnv1a64

Publish(code) ==
    /\ mqtt' = queue(mqtt, code)
    /\ UNCHANGED <<state, transfer, request, work>>

Consume == UNCHANGED <<mqtt, state, transfer, request, work>>

BadManifest == IF state = "Idle" THEN Publish("Error") ELSE Consume

handle_manifest(m) ==
    CASE state # "Idle" /\ SameManifest(m)   -> Publish(current_code)
      [] state # "Idle" /\ ~SameManifest(m)  -> Consume
      [] state = "Idle" /\ m.size = 0        -> Publish("Error")
      [] state = "Idle" /\ m.size > CAPACITY -> Publish("Oversize")
      [] state = "Idle" /\ m.size \in 1..CAPACITY
           /\ RxBytes[m.id] > mqtt.max_rx_packet_size -> Publish("Mtu")
      [] OTHER ->
           /\ transfer' = [id |-> m.id, size |-> m.size,
                           fnv1a64 |-> m.fnv1a64, next_offset |-> 0]
           /\ state' = "Preparing"
           /\ mqtt' = queue(mqtt, "Accepted")
           /\ request' = [kind |-> "Prepare"]
           /\ work' = [kind |-> "Prepare"]

(* The codes that end the transfer, as opposed to being only reported. *)
ChunkFailure(c) ==
    CASE c.len = 0 \/ c.len > MAX_CHUNK_SIZE -> "Mtu"
      [] c.len \in 1..MAX_CHUNK_SIZE /\ c.len % WRITE_SIZE # 0 -> "Unaligned"
      [] c.len \in 1..MAX_CHUNK_SIZE /\ c.len % WRITE_SIZE = 0
           /\ \/ c.offset + c.len > U32_MAX
              \/ c.offset + c.len > CAPACITY
              \/ c.offset + c.len > transfer.size
                   /\ (transfer.size - c.offset >= c.len \/ ~c.padded)
           -> "Oversize"
      [] OTHER -> None

(* A chunk already written is taken for the next one. *)
ChunkBehindNever(c) == FALSE

ChunkBehind(c) == c.offset < transfer.next_offset
ChunkAhead(c) == c.offset > transfer.next_offset

(* Every chunk is taken for the final one. *)
ChunkEndWhole(c) == transfer.size

ChunkEnd(c) ==
    IF c.offset + c.len <= transfer.size THEN c.offset + c.len
    ELSE transfer.size

(* Progress is recorded when the chunk is accepted, not when it is stored. *)
ReadyChunkEager(c) ==
    /\ ~ChunkBehind(c) /\ ~ChunkAhead(c) /\ ChunkFailure(c) = None
    /\ state' = "Writing"
    /\ request' = [kind |-> "Write", next_offset |-> ChunkEnd(c),
                   final_chunk |-> ChunkEnd(c) = transfer.size]
    /\ work' = [kind |-> "Write", offset |-> c.offset, len |-> c.len]
    /\ transfer' = [transfer EXCEPT !.next_offset = ChunkEnd(c)]
    /\ UNCHANGED mqtt

ReadyChunk(c) ==
    IF ChunkBehind(c) THEN Publish("Duplicate")
    ELSE IF ChunkAhead(c) THEN Publish("Offset")
    ELSE IF ChunkFailure(c) # None
    THEN /\ state' = "Error"
         /\ mqtt' = queue(mqtt, ChunkFailure(c))
         /\ UNCHANGED <<transfer, request, work>>
    ELSE /\ state' = "Writing"
         /\ request' = [kind |-> "Write", next_offset |-> ChunkEnd(c),
                        final_chunk |-> ChunkEnd(c) = transfer.size]
         /\ work' = [kind |-> "Write", offset |-> c.offset, len |-> c.len]
         /\ UNCHANGED <<mqtt, transfer>>

handle_chunk(c) ==
    CASE transfer = None -> Publish("Idle")
      [] transfer # None /\ c.id # transfer.id -> Consume
      [] transfer # None /\ c.id = transfer.id ->
           CASE state \in {"Preparing", "Writing"} -> Consume
             [] state \in {"Complete", "Error"} -> Publish(current_code)
             [] state = "Idle" -> Publish("Idle")
             [] state = "Ready" -> ReadyChunk(c)

Receiving == conn = "up" /\ UNCHANGED <<conn, stored>>

(* Another topic, a retained publish, or a chunk without properties. *)
HandleIgnored == Receiving /\ Consume
HandleBadManifest == Receiving /\ BadManifest
HandleManifest(m) == Receiving /\ handle_manifest(m)
HandleChunk(c) == Receiving /\ handle_chunk(c)

-----------------------------------------------------------------------------
(* The owner's calls. *)

(* abort leaves the request outstanding. *)
abortKeepsRequest ==
    /\ state \in {"Preparing", "Ready", "Writing"}
    /\ state' = "Error"
    /\ mqtt' = queue(mqtt, "Error")
    /\ UNCHANGED <<transfer, request, conn, work, stored>>

abort ==
    /\ state \in {"Preparing", "Ready", "Writing"}
    /\ state' = "Error"
    /\ request' = None
    /\ mqtt' = queue(mqtt, "Error")
    /\ UNCHANGED <<transfer, conn, work, stored>>

(* What a successful storage job leaves on storage. *)
StoredAfter == IF work.kind = "Prepare" THEN 0 ELSE work.offset + work.len

(* complete_request of an outstanding request. *)
Completed(success) ==
    /\ request' = None
    /\ CASE transfer = None ->
              /\ state' = "Error"
              /\ mqtt' = queue(mqtt, "Error")
              /\ UNCHANGED transfer
         [] transfer # None /\ ~success ->
              /\ state' = "Error"
              /\ mqtt' = queue(mqtt, "Storage")
              /\ UNCHANGED transfer
         [] transfer # None /\ success /\ request.kind = "Prepare" ->
              /\ state' = "Ready"
              /\ mqtt' = queue(mqtt, "Accepted")
              /\ UNCHANGED transfer
         [] OTHER ->
              /\ transfer' = [transfer EXCEPT !.next_offset =
                    IF request.final_chunk THEN transfer.size
                    ELSE request.next_offset]
              /\ state' = IF request.final_chunk THEN "Complete" ELSE "Ready"
              /\ mqtt' = queue(mqtt, IF request.final_chunk THEN "Complete"
                                     ELSE "Accepted")

(* The storage job ends and its owner reports the result; a report without *)
(* an outstanding request changes nothing.                                 *)
complete_request(success) ==
    /\ work # None
    /\ work' = None
    /\ stored' = IF success THEN StoredAfter ELSE stored
    /\ IF request = None THEN UNCHANGED service ELSE Completed(success)
    /\ UNCHANGED conn

(* Power is lost: a new service starts from idle, the storage keeps what    *)
(* it holds.                                                               *)
Reboot ==
    /\ mqtt' = NewMqtt
    /\ state' = "Idle"
    /\ transfer' = None
    /\ request' = None
    /\ conn' = "down"
    /\ work' = None
    /\ UNCHANGED stored

Next ==
    \/ \E event \in {"Connected", "Reconnected"} : Connect(event)
    \/ Disconnect
    \/ OpCompletes
    \/ begin_startup
    \/ StepNoStart
    \/ StepInvalidated
    \/ StepStart
    \/ HandleIgnored
    \/ HandleBadManifest
    \/ \E m \in Manifests : HandleManifest(m)
    \/ \E c \in Chunks : HandleChunk(c)
    \/ abort
    \/ \E success \in BOOLEAN : complete_request(success)
    \/ Reboot

Spec == Init /\ [][Next]_vars

-----------------------------------------------------------------------------
(* Properties. *)

(* Type correctness of the service, its connection and its storage. *)
TypeOK ==
    /\ mqtt \in Mqtts
    /\ state \in States
    /\ transfer \in Transfers \cup {None}
    /\ request \in Requests \cup {None}
    /\ conn \in {"down", "Connected", "Reconnected", "up"}
    /\ work \in Works \cup {None}
    /\ stored \in 0..CAPACITY

(* A storage request is outstanding exactly in the two states that wait    *)
(* for one, and its job is the one the application is executing.  abort,    *)
(* a late completion and a duplicate publish must all preserve this, or     *)
(* the result of one job would be taken for the result of another.          *)
RequestMatchesWork ==
    /\ (request # None) <=> (state \in {"Preparing", "Writing"})
    /\ request # None =>
         /\ work # None
         /\ work.kind = request.kind
         /\ work.kind = (IF state = "Preparing" THEN "Prepare" ELSE "Write")

(* Direct flash writes are sequential: a write job always starts at the    *)
(* first byte not yet on storage, is aligned to the write size and ends     *)
(* within the capacity, whatever chunks arrive in whatever order.  (A       *)
(* write begun before a reboot is gone with its worker.)                    *)
WritesSequential ==
    work # None /\ work.kind = "Write" =>
        /\ work.offset = stored
        /\ work.offset % WRITE_SIZE = 0
        /\ work.len % WRITE_SIZE = 0
        /\ work.offset + work.len <= CAPACITY

(* The progress the service keeps, and the progress any status in flight    *)
(* claims, is on storage; `complete` is claimed only for the whole object. *)
ProgressStored ==
    /\ transfer # None =>
         /\ transfer.next_offset <= stored
         /\ state = "Complete" => transfer.next_offset = transfer.size
    /\ transfer # None /\ mqtt.inflight # None /\ mqtt.inflight.status # None =>
         /\ mqtt.inflight.status.next_offset <= transfer.next_offset
         /\ mqtt.inflight.status.code = "Complete" =>
              state = "Complete" /\ transfer.size <= stored

(* Complete and error are final for one service: no late completion, no     *)
(* duplicate publish and no reconnect revives the transfer or moves its     *)
(* offset, and progress never goes back.                                    *)
TerminalIsFinal ==
    [][(state \in {"Complete", "Error"} /\ ~Reboot) =>
         state' = state /\ transfer' = transfer /\ request' = None]_vars

=============================================================================
