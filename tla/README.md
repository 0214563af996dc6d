# A TLA+ verification of minimq, mqtt-staging and mqtt-rpc

`minimq` is an MQTT 5 client for embedded targets: one `Session` owns fixed
buffers and survives reconnects, one `Connection` drives it over a transport.
`mqtt-staging` moves an object from a host into a device's storage over such a
session; `mqtt-rpc` serves requests over one. This directory holds TLA+ models
of the three crates, TLC configurations that check them on small instances, and
TLAPS proofs about the client's core, the staging device, a whole staging
transfer and the rpc service with its requester.

    tlc -config SessionSafety.cfg MCSession        # a run
    tlapm SessionProofs.tla                        # the proofs of one module

`PROJECT.json` lists the components, the runs, the mutants that show each
property can fail, the source lines of every definition, the findings, the
hazards and the theorems.

## The system

| Part | State | Operations | Interacts with |
| --- | --- | --- | --- |
| `Outbound` (`mqtt_client/outbound.rs`) | three queues: control packets, PUBRELs, retained requests; for each entry how far it has been sent; TX bytes kept for CONNECT | queue, acknowledge, choose the next packet, note written bytes, complete a flush, arm a replay | session |
| `Session`, `Connection` (`mqtt_client/session/`) | packet id, generation, server ids, quota and limits of the broker, keepalive deadlines, live flag, flush state | connect, drive/poll/recv, publish, subscribe, unsubscribe, disconnect, one handler per inbound packet, status of an `Op` | outbound, reader, transport, application |
| `PacketReader`, varints (`de/packet_reader.rs`, `varint.rs`) | bytes of the current packet, its length | receive window, commit, take, reset | transport, session |
| packets, properties, serializer, deserializer, builders | the packet being built, a position in the bytes being read | build, encode, decode, iterate, reply | session, application |
| staging device (`mqtt-staging/src/lib.rs`) | transfer, state, storage request, pending and in-flight MQTT action | begin_startup, step, handle, complete_request, abort | session, storage worker, host |
| staging host (`mqtt-staging/py`) | the status it waits for | stage | broker |
| rpc device (`mqtt-rpc/src/lib.rs`) | subscription in flight, ready | begin_connection, step, handle, respond | session, application |
| rpc requester (`mqtt-rpc/py`) | futures in flight | enter, request, responses, timeout, close | broker |

What makes it hard:

- every network call is a future the caller may drop at any await, in the middle
  of a packet or of a flush; the next call goes on from what was left;
- three queues share one byte stream; a resume replays them;
- a connection may end between any two packets, in both directions, and either
  side may have lost the session when they meet again;
- buffers, queues, id space and quota are small and all reach their limits;
- keepalive deadlines race with inbound and outbound traffic;
- lengths are computed before the bytes they count, and properties are read
  lazily, long after the packet was accepted;
- statuses, chunks and replies are delivered at least once, are lost with a
  session, or arrive late; the staging host has no retry of its own;
- the staging device has one slot for the message to send next;
- storage jobs may end after the transfer they belong to was aborted.

What correctness means here: the peer sees whole packets, and requests in order;
ids are never shared; nothing written is forgotten by a flush; a dropped or lost
call never wedges the connection; what an application is told of a message is
true of the other side; a packet decodes to what was built; storage is written
once and in sequence; the host is told success only for what is stored; a reply
reaches its own call.

## The modules

**`Outbound`** has the queues as operators on sequences. An entry has a state
`Write(n)`, `Flush` or `Sent`, as `SendState`. `NextStep` is `next_step`,
`DropFlushed` and `MarkSent` are the two halves of `complete_flush`, `Rearm` and
`MarkPublishDup` make `arm_replay`, `SwapRemove` is `Vec::swap_remove`. A packet
is its kind, id, length and the message it carries.

**`Session`** has the fields of `SessionData`, `RuntimeState` and `Connection` as
variables, and `open`, the packet the peer has seen a part of. Every call may be
dropped at any await, so an action is the code between two awaits and no call has
a program counter: `WriteStep` is one `write().await` with its bookkeeping,
`FlushBegin` and `FlushComplete` the two sides of `flush().await`, `Receive` one
inbound packet with all of its handling, `Publish`, `PublishQos0` and `Request`
the admission of an application's call, `ConnectSent` and `ConnAck` (or
`ConnectAborts`, `ConnectRefused`, `ConnAckInvalid`) the handshake. `Receive`
requires `Quiet`: `wait_for_progress` reads only after `drive_packet` has found
nothing to send and a clean flush state. Deadlines are flags: `PingDue` and
`PingExpires` are the passing of time. The broker is unconstrained: any packet
with any id may arrive. Dropping a QoS 0 publication or `disconnect` within its
write is excluded, as the documentation of these calls demands.

**`Delivery`** puts `Session` together with a lawful MQTT 5 broker (external), the
two byte streams as sequences of whole packets, and an application that holds
`Op` handles. Every client action is one of `Session` conjoined with what its
packet means to the other side. `ClientEnds` drops what was not read;
`BrokerAccepts` resumes or starts a session and sends its open packets again;
`BrokerForgets` is the expiry of the broker's session. `Status` is
`Session::status`. The abstract specification is **`MessageDelivery`**: messages
with a status the sender sees (none, pending, complete, invalidated), a QoS, and
the copies the receiver was given. `Outward` and `Inward` are its two instances,
for the client's messages and the broker's.

**`Varint`** has the encoding of lengths and its decoder. **`PacketReader`** frames
the inbound stream. A byte is a number below `2 * BASE`; `BASE` and `MAX_BYTES`
stand for the 128 and 4 of the code, so short streams contain long, overlong and
unterminated lengths. `Fill` is one round of `fill_packet_reader`, with the probe
that precedes the next read. The reference is the encoder (`Encoded`), not the
decoder.

**`Properties`** and **`Codec`** have the contents of packets, at the code's own
widths (`BASE` is 128). A field reader returns a value or an error together with
the position it leaves behind, as the deserializer does; `Then` is `?`. Encoding
is a sequence of chunks pushed into a buffer of a given size; `Finalize` puts the
fixed header in front. `Codec` is a machine of exchanges: a builder call, an
encoder or `BrokerSends`, then `Receive` (`from_buffer`), `Iterate`
(`PropertiesIter::next`) and replies built from what was received. The reference
for packets a broker reads is not the encoder: `Layout`, `ConnectMeant` and
`RequestMeant` read a packet by the layout of the MQTT standard, and `WellFormed`
says which frames are packets.

**`Staging`** is the device service. Each action is a call of a public method;
`step` changes the service before and after its only await. External, and
modelled from their use: the session, as the status of the `Op` it hands out, and
the storage worker (`work`, `stored`), which outlives an abort. The host is
chaotic: any manifest or chunk at any time. `Reboot` loses the service.
`EARLY_STEP` lets the application step before `begin_startup`, the only way to
the branch for an invalidated `Op`.

**`StagingTransfer`** extends it by the host command and a broker: FIFO, at least
once, dropping what nobody is subscribed to. `HostReceives` is one turn of the
loop in `stage`, `ChunkAt` the slice with its padding, `HostTimesOut` the timeout
of `wait_status`, `HostReruns` the user running the command again. The constant
`Hosts` says whether a behaviour has the host command or the chaotic publisher.

**`Rpc`** has the device's subscription state, the response targets the
application holds, the broker's requests and responses, and the requester's
in-flight futures. `orphan` is a SUBSCRIBE in flight whose `Op` was dropped by
`begin_connection`.

`MC*` modules give the sets that a cfg cannot write. `SessionProofs` holds the
theorems about the client, on top of `SessionLemmas`, `SessionOutbound`,
`SessionSteps` and `SessionReconnect`; `StagingProofs` those about the staging
device, `TransferProofs` those about a whole transfer, `RpcProofs` those about
`Rpc`.

## The runs

| Run | Question | States |
| --- | --- | --- |
| `PacketReader` | Is every byte stream, cut anywhere, framed as the encoder announces it? | 257,802 |
| `Codec` | Does every packet the client builds mean to its receiver what the builder was given, and is exactly every well-formed packet accepted and read to its end? | 45,567 |
| `CodecDisconnect` | finding 5 | |
| `SessionSafety` | Ids, framing, flush accounting, order of requests, DUP, room for CONNECT and the inductive invariant, with partial writes, dropped calls, limits, downgrades, assigned client ids, reconnects and arbitrary acknowledgements | 386,571 |
| `SessionLiveness` | Inbound traffic of all QoS, keepalive: one PINGREQ at a time, no starvation, a silent peer is dropped | 50,655 |
| `SessionReleaseFull` | finding 1 | |
| `SessionReleaseOrder` | finding 2 | |
| `Delivery` | Does the session with its broker implement `MessageDelivery` in both directions? | 411,067 |
| `StagingTransfer` | The device against a chaotic publisher, aborts, storage failures and reboots; a whole transfer with duplicates, losses, reruns and faults, which ends for its waiting host | 341,335 |
| `StagingCapacity` | finding 3 | |
| `RpcCalls` | Replies and calls; the service becomes ready again | 383,164 |
| `RpcRefused` | finding 4 | |

Deadlock is checked in every run; none is reported.

### Properties

- *Reader.* `FramesStream`: no byte is lost, repeated or given to the wrong
  packet, and the window never reaches into the next one. `NoPacketHeldBack`: a
  packet without a body does not hang on its empty window.
  `RefusesOnlyMalformed`: a lawful peer is never cut off.
- *Codec.* `PacketIsOneFrame`: the length in front of a packet is that of its
  body, it lies inside the buffer, and acknowledgements always fit. `RoundTrip`:
  what another client decodes is what was built, with every property in its
  order. `BrokerUnderstands`: the flags of CONNECT and the options of SUBSCRIBE
  announce the fields that follow. `ReplyCorrelated`: a reply goes to the
  response topic with the request's correlation data, in whatever order the
  builder was called. `AcceptsExactly`: a frame is accepted exactly when it is
  well formed. `IterationLossless`: the iterator ends, stays in its block and
  loses nothing. After a property that does not decode it goes on behind the
  bytes it has read, and only that it ends is claimed.
- *Client, safety.* `StreamFramed`, `FlushAccounted`, `IdsUnique`,
  `ReplayMarksDup`, `ReconnectFits`, and `IInv`, which also has `TypeOK` and
  `OneControl`: the bounded control queue never holds two packets, because input
  is read only in quiet states, so the branch of `drive_packet` for a full queue
  is dead. `NoOvertaking` is about age: requests stay in the order of admission
  and none is on the wire before an older one, in the first transmission and in
  every replay. It is claimed of the retained queue only; PUBRELs do change places
  (finding 2), and then go out again in the changed order. `OnePing` is checked
  where keepalive is on, in `SessionLiveness`.
- *Client, liveness.* `Drains`, `KeepaliveServed`, `SilentPeerDropped`. The
  exception `Oversized` is a packet beyond the Maximum Packet Size of the new
  connection, which every call refuses.
- *Delivery.* `OutwardDelivery`: status says Complete only after the broker took
  or refused the message, a QoS 2 message is forwarded once, and a lost session
  invalidates every handle at once. `InwardDelivery`: the same for the broker's
  messages. `FirstComeFirstServed`: requests reach the broker in the order of
  their admission, also over a broken replay. `QuotaConserved`: on a connection
  that did not resume a session the quota and the retained PUBLISHes add up to
  the Receive Maximum. A resumed one starts with the full quota on top of what it
  replays, and PUBREC already raises it, so there only the bound holds.
- *Staging.* `RequestMatchesWork`, `WritesSequential`, `ProgressStored`,
  `TerminalIsFinal` on the device; `DoneMeansStored`, `NoChunkAhead`,
  `FailsOnlyForCause`, `TransferEnds` end to end.
- *Rpc.* `ReadyMeansSubscribed`, `AnswersMatch`, `CallsEndOnce`, `BecomesReady`.

### Bounds

- Ids: 3 to 5, and never more than are in use at once plus one, so that the
  counter wraps onto ids in use. The code has 65,535.
- Queues of 1 to 3 entries, packets of 1 to 4 bytes and a TX buffer of 8 to 12:
  full queues, partial writes at each offset and a buffer one byte too small all
  happen. Two session generations, which wrap.
- Delivery: one direction at a time, two messages in it: QoS 1 and QoS 2
  publications of the client, its subscriptions, or the broker's publications.
  Names are used again when a handle is dropped, so behaviours are unbounded.
  Message names are symmetric, which is sound because all five properties are
  safety properties that name no message. Keepalive is off, and the PUBREL queue
  has room for every handshake (finding 1 is the other case).
- Reader: one payload bit and two bytes for a length, a buffer of 5 (so that one
  length is beyond it) and streams of 7 bytes, which hold up to three packets.
- Codec: topics and payloads of a few bytes, and one of each string at the limits;
  the longest string (65,535) is scaled to 140, so that a length of two bytes and
  a string that is too long both happen. Frames of the broker have every header
  byte of interest with every body of up to five bytes over a small alphabet,
  every short property block of a PUBLISH, and every property id in a CONNACK.
- Staging: an object of 5 bytes, write size 2, capacity 6: three chunks and a
  padded last one. u32 is scaled down to 7. One duplicate, one lost connection,
  one rerun and one fault. The chaotic publisher has chunks at and around every
  limit, and there the device may reboot.
- Rpc: two calls, one lost connection, one duplicate.

### Fairness

- `Session`: weak fairness of writing, flushing, queueing a ping and of time. The
  application drives the connection, the transport makes progress (the changelog
  requires it), and clocks advance. Nothing is assumed of the broker, of
  reconnects or of requests.
- `StagingTransfer`: the application reconnects, steps and polls, storage ends,
  the broker delivers, the host's event loop runs. The timeout is not fair:
  `TransferEnds` does not rest on it.
- `Rpc`: the application handles connect events, steps and polls, and the broker
  answers SUBSCRIBE.

### What Delivery assumes

The refinement holds under these conditions, each of which the run needs:

- The application drops the handle of a finished operation before its id comes
  round (`IdNotHeld`), and an invalidated one before the next reset
  (`HandlesCurrent`). In the code that takes 65,535 requests and 2^32 resets.
- The connection does not break between a broker's loss of the session and the
  CONNACK that reports it (`LossToldNow`). The broker has a new session after
  that CONNACK, and MQTT has no means to tell it from the old one.
- The broker does not use a packet id again while an acknowledgement of its last
  use may still arrive (`Retired`). The client sends unflushed acknowledgements
  again after a resume; without the condition such a PUBACK is taken for that of
  the newer message and `InwardDelivery` fails.
- A handle exists from the admission of a request on, although the call may
  return it later, or not at all when it is dropped.

## Findings

1. **A full PUBREL queue ends a QoS 2 handshake** (`HandshakeCompletes`). The
   PUBREC handler drops the PUBLISH before it queues the PUBREL, and the latter
   may fail: PUBREC raises the quota, so more handshakes can be open than there
   are PUBREL slots.
2. **PUBRELs are reordered** (`ReleasesKeepOrder`). `ack_release` uses
   `swap_remove`.
3. **An object that fits is refused at its end** (`FailsOnlyForCause` with a
   capacity of 5). The manifest is checked without padding, the last chunk with.
4. **A refused subscription counts as ready** (`ReadyMeansSubscribed` with
   `SubOks` containing FALSE). The `Op` is complete whatever the SUBACK says.
5. **A DISCONNECT cannot carry a property** (`DisconnectCarriesProperties`).
   `disconnect_with` encodes into the nine bytes of a control packet, where the
   shortest property does not fit.

## The proofs

### The client

`SessionProofs` proves, for all values of the constants that satisfy the named
assumptions (queue capacities, buffer, id space, packet sizes, the broker's
answers), that `IInv` is an invariant of `Session`, and from it `TypeOK`,
`IdsUnique`, `OneControl`, `StreamFramed`, `FlushAccounted`, `OnePing`,
`ReconnectFits` and the action properties `ReplayMarksDup` and `NoOvertaking`. The
assumption with content is that there are more ids than slots for requests and
PUBRELs (`IdsAssumption`): in the code 65,535 against a few.

The argument. The properties need each other, so they are proved together:

- `IInv` adds two conjuncts: `ControlUnsent`, a sent control packet does not stay
  queued, and `HandshakeArmed`, during the handshake every entry is at `Write(0)`
  on a clean stream. Without the latter nothing would be known of the state in
  which CONNACK makes the connection live.
- `next_packet_id` finds an id by the pigeonhole principle, over the cardinality
  of the ids in use.
- `QuietState`: in a quiet state nothing is partly written or unflushed and the
  control queue is empty. Hence an acknowledgement finds it empty (`OneControl`).
- A step changes the queues in one of a few ways: everything is armed, entries
  leave or join a calm connection, nothing, one write, one flush, one new
  request. There is one lemma for each, and one short step per action.
- Within a queue the entries still to be written are the last ones, and only the
  first of them is partly written (`WrittenFromFront`). That makes the packet
  `next_step` picks the one that is partly written, hence `StreamFramed`. It
  compares positions, so it also holds of PUBRELs that changed places.
- For `ReplayMarksDup` every entry after a step is traced to one before it
  (`Traced`): only a replay takes an entry that was sent back to `Write(0)`, and
  a replay marks it.
- For `NoOvertaking` every step keeps the retained queue in the order of age
  (`OldestFirst`): entries stay in place, move up when one leaves, or join at the
  end. With `WrittenFromFront` position is age. The run has two retained
  requests, enough for a new one that passes an old one; that a removal keeps the
  order of three or more is shown by the proof.
- `ReconnectFits` is about a sum over the retained queue. `RetainedBytes` is a
  recursive function, and what it computes is proved by the smallest length at
  which two sums would disagree (`SmallestInSet`), in place of an induction:
  appending adds a length (`BytesAppend`), removing takes it away
  (`BytesRemove`), replaying, writing and flushing change none (`BytesSame`).
  `ReconnectInv` says that `connect_workspace`, once set, is the length of the
  next CONNECT, assigned client id included; before the first connection nothing
  is retained. Admission leaves that space, and a CONNACK that assigns a longer
  id is accepted only if it fits.

The proofs are laid out bottom up, in modules that tlapm checks one at a time
(about a quarter of an hour for all five). tlapm slows down with the number of
facts in reach, so the library of finite sets comes in only at the top, and the
steps take what they need of it as a hypothesis (`SetFacts`, which `FactsHold`
derives from `TypeOK`):

- `SessionLemmas`: what `RemoveAt`, `SwapRemove`, `MarkSent`, `Rearm` and the rest
  of `Outbound` preserve, the types the operators of `Session` keep, `QuietState`,
  and the steps that arm the queues or leave them alone;
- `SessionOutbound`: one transport write, `complete_flush` and CONNACK keep `IInv`;
- `SessionSteps`: requests and inbound packets keep it, and with them every step;
- `SessionReconnect`: the sum of the retained lengths, and that every step leaves
  the room for the next CONNECT;
- `SessionProofs`: the free id and the rest of `SetFacts`, the tracing of retained
  packets, and the theorems.

### The staging device

`StagingProofs` proves `TypeOK`, `RequestMatchesWork`, `WritesSequential`,
`ProgressStored` and `TerminalIsFinal` for every configuration `Service::new`
accepts (`ConfigAssumption`), every set of manifests and chunks whose fields are
of their widths (`InputAssumption`), and a `None` that is no other value
(`NoneAssumption`).

- `StorageInv` (`StorageStep` proves a step keeps it). That a write begins where
  storage ends depends on what the service remembers between two jobs, so
  `Remembers` says it state by state: in Ready the offset is what is stored and
  aligned, in Writing the request ends where the job does. An abort leaves the
  job running, so `StorageInv` also bounds the offset by what is stored in every
  state, and says that a Prepare that outlives its transfer erases nothing the
  transfer counts. Alignment of the next offset is the lemma `SumAligned`.
- `DeviceInv` adds `Honest`: no code that is queued, saved for the startup or in
  flight says Complete before the service is, and no status is ahead of its
  offset. It is a statement about the queue's contents because a status is
  encoded long after its code was queued, and may be queued again by a reconnect.
- `TerminalIsFinal` follows, since in a terminal state no request is open.

### A transfer from end to end

`TransferProofs` proves, for `StagingTransfer` with every object, write size and
chunk size (`TransferAssumption`) and any number of duplicates, lost connections,
reruns and faults: `TTypeOK`, `DoneMeansStored`, `NoChunkAhead`,
`FailsOnlyForCause`, and again the device's own properties, now with the host
command and the broker as its environment. The part about the service alone
(`ServiceInv`, `ServiceMoves`, `ChunkFits`) stands at the end of `StagingProofs`;
the two modules take about five minutes each.

- Host and device share nothing but messages, and a message may be repeated,
  late, or lost with a session. So `TransferInv` says of every message what stays
  true of it however late it comes: a status for this transfer claims no more
  than the device has reached and says Complete only if the device is
  (`GoodStatus`), a chunk begins at an offset the device has reached
  (`GoodPublish`). The device only moves on (`Further`), and a message that was
  good stays good (`HoldsStays`).
- The service's queue forgets: a newer code replaces an older one. `Latest` says
  that nothing older than Complete is left once the transfer is complete, so the
  last status the host gets is the one it waits for.
- The arithmetic of the last chunk (`ChunkFits`): with its padding it is a
  multiple of the write size, not longer than the device accepts, and ends at the
  size rounded up.
- `CauseInv`: before the first fault neither the service, nor its queue, nor a
  status on its way speaks of a failure. `OnlyFaultsFail` assumes `ObjectFits`:
  the object is not empty, its size rounded up to the write size is within the
  capacity, and the manifest and chunks fit the packets. Without the rounding it
  is false (finding 3, run `StagingCapacity`).

### The rpc service

`RpcProofs` proves, for any set of calls and publications and any number of
losses and duplicates, `TypeOK`, `AnswersMatch`, `CallsEndOnce`, and, if the
broker refuses no subscription (`SubOks = {TRUE}`), `ReadyMeansSubscribed`. With
refusals the last is false (finding 4, run `RpcRefused`).

- `SubscriptionInv`: an `Op` that is complete, or a service that is ready, belongs
  to a connection whose broker session has the subscription; what a lost session
  takes away, `begin_connection` takes back before the next step.
- `ExecutedInv`: every response that says Ok, held by the application, on its way
  or duplicated, belongs to a call the application executed.

### Only model-checked

- Liveness (`Drains`, `KeepaliveServed`, `SilentPeerDropped`, `TransferEnds`,
  `BecomesReady`): fairness is beyond the prover.
- `Delivery`: the refinement of `MessageDelivery` in both directions,
  `FirstComeFirstServed` and `QuotaConserved`.
- `PacketReader` and `Codec`: what their recursive definitions compute for every
  stream and packet is induction over data.

## Not modelled

- `Buffers::new`, the payload traits and the error types: they hand slices and
  values on. The serde adapters are seen through the fields they read and write.
- Names and texts of reason codes, `Display`, logging.
- The JSON of staging manifests and statuses: the fields it carries.
- Clock arithmetic of the keepalive: deadlines become due at any time.
- The transport and clock traits: `Session` sees their results.
- Reboots of the device under the host command. A status carries no boot epoch,
  so a second run of the command may take an old Complete for its own; the
  device is checked with reboots against the chaotic publisher.
- A SUBACK that refuses the subscription of the staging device. The device takes
  it for a success, as the rpc service does (finding 4), and then waits for
  messages that do not come; `TransferEnds` is for a broker that grants it. In
  `Rpc` the refusal is seen through the completed `Op`; that the `poll` which
  read the SUBACK also returns an error is left out: the service does not see it.
- A second CorrelationData behind the first: `ReplyCorrelated` is about the one a
  receiver finds first.
- A broker that grants QoS 0 only, in `Delivery`: a downgraded publication has no
  handle and no promise.
- The fuzzing hooks, the command lines, and gmqtt.
