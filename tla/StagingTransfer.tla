--------------------------- MODULE StagingTransfer ---------------------------
(***************************************************************************)
(* One staging transfer from end to end: the device service of Staging, the *)
(* host command (mqtt-staging/py/mqtt_staging.py) and, between them, a      *)
(* broker that keeps order, drops what nobody subscribes to, and delivers   *)
(* at least once.                                                           *)
(*                                                                         *)
(* The host answers every status that asks for a chunk with that chunk; it  *)
(* has no retry of its own, so the transfer advances only while the two     *)
(* sides keep handing each other something to react to.                     *)
(*                                                                         *)
(* A behaviour may also have the chaotic publisher of Staging in place of   *)
(* the host command.                                                        *)
(***************************************************************************)
EXTENDS Staging

CONSTANTS
    Hosts,        \* who publishes to the device: "start" is the host command
                  \* before it runs, "chaotic" publishes anything
    Object,       \* the manifest of the file being staged
    CHUNK_SIZE,   \* the host's --chunk-size
    DUPLICATES,   \* bound on repeated deliveries
    LOSSES,       \* bound on connections lost by the device
    RERUNS,       \* bound on runs of the host command after the first
    FAULTS        \* bound on aborts and storage failures

ASSUME TransferAssumption ==
    /\ Hosts \subseteq {"start", "chaotic"}
    /\ Object \in Manifests
    /\ Object.id # None
    /\ CHUNK_SIZE \in Nat
    /\ DUPLICATES \in Nat /\ LOSSES \in Nat /\ RERUNS \in Nat /\ FAULTS \in Nat

VARIABLES
    host,        \* start, subscribed, waiting, done, failed, timeout; chaotic
    toHost,      \* statuses the broker holds for the host, in order
    toDevice,    \* manifests and chunks it holds for the device, in order
    session,     \* the device's broker session: none, open or subscribed
    budget       \* what is left of the four bounds

net == <<toHost, toDevice, session>>
sysVars == <<vars, host, net, budget>>

TInit ==
    /\ Init
    /\ host \in Hosts
    /\ toHost = <<>>
    /\ toDevice = <<>>
    /\ session = "none"
    /\ budget = [dup |-> DUPLICATES, loss |-> LOSSES, rerun |-> RERUNS,
                 fault |-> FAULTS]

Spend(kind) ==
    /\ budget[kind] > 0
    /\ budget' = [budget EXCEPT ![kind] = @ - 1]

-----------------------------------------------------------------------------
(* The broker. *)

(* The host's session is clean: it receives nothing before it subscribes. *)
Listening == host \in {"subscribed", "waiting"}
ForHost(s) == IF Listening THEN Append(toHost, s) ELSE toHost
ForDevice(p) == IF session = "subscribed" THEN Append(toDevice, p) ELSE toDevice

DeviceConnects(event) ==
    /\ Connect(event)
    /\ event = "Reconnected" => session # "none"
    /\ IF event = "Connected"
       THEN toDevice' = <<>> /\ session' = "open"
       ELSE UNCHANGED <<toDevice, session>>
    /\ UNCHANGED <<host, toHost, budget>>

DeviceDisconnects ==
    /\ Disconnect
    /\ Spend("loss")
    /\ UNCHANGED <<host, net>>

(* The broker takes the packet in flight and its acknowledgement arrives. *)
Delivered ==
    IF mqtt.inflight.action = Subscribe
    THEN session' = "subscribed" /\ UNCHANGED <<toHost, toDevice>>
    ELSE /\ toHost' = ForHost(mqtt.inflight.status)
         /\ UNCHANGED <<toDevice, session>>

DeviceSends ==
    /\ OpCompletes
    /\ Delivered
    /\ UNCHANGED <<host, budget>>

(* The broker takes it but the acknowledgement is lost with the connection. *)
DeviceSendsUnacked ==
    /\ mqtt.inflight # None
    /\ mqtt.inflight.op = "pending"
    /\ Disconnect
    /\ Delivered
    /\ Spend("loss")
    /\ UNCHANGED host

-----------------------------------------------------------------------------
(* The device, fed by the broker. *)

DeviceStep ==
    /\ conn = "up"
    /\ StepStart \/ StepNoStart
    /\ UNCHANGED <<host, net, budget>>

DeviceStarts ==
    /\ begin_startup
    /\ UNCHANGED <<host, net, budget>>

(* A cancelled step leaves its packet with the session and its action       *)
(* pending, so the packet goes out once more.                               *)
DeviceStepCancelled ==
    /\ conn = "up" /\ ~Waiting /\ ~Invalidated
    /\ mqtt' = Retired(Measured)
    /\ mqtt'.pending # None
    /\ IF mqtt'.pending = Subscribe
       THEN session' = "subscribed" /\ UNCHANGED <<toHost, toDevice>>
       ELSE toHost' = ForHost(status_with(mqtt'.pending))
            /\ UNCHANGED <<toDevice, session>>
    /\ Spend("dup")
    /\ UNCHANGED <<state, transfer, request, conn, work, stored, host>>

HandlePublish(p) ==
    IF p.kind = "manifest" THEN HandleManifest(p.manifest)
    ELSE HandleChunk(p.chunk)

DeviceReceives ==
    /\ toDevice # <<>>
    /\ HandlePublish(Head(toDevice))
    /\ toDevice' = Tail(toDevice)
    /\ UNCHANGED <<host, toHost, session, budget>>

DeviceReceivesTwice ==
    /\ toDevice # <<>>
    /\ HandlePublish(Head(toDevice))
    /\ Spend("dup")
    /\ UNCHANGED <<host, net>>

StorageSucceeds ==
    /\ complete_request(TRUE)
    /\ UNCHANGED <<host, net, budget>>

StorageFails ==
    /\ complete_request(FALSE)
    /\ Spend("fault")
    /\ UNCHANGED <<host, net>>

DeviceAborts ==
    /\ abort
    /\ Spend("fault")
    /\ UNCHANGED <<host, net>>

-----------------------------------------------------------------------------
(* The host command: stage and wait_status. *)

ErrorCodes == {"Error", "Mtu", "Offset", "Oversize", "Storage", "Unaligned"}

(* Status.raise_for_error *)
Raises(s) == s.state = "Error" \/ s.code \in ErrorCodes

Smaller(a, b) == IF a < b THEN a ELSE b

aligned_chunk_size(requested, mtu, write_size) ==
    Smaller(requested, mtu) - (Smaller(requested, mtu) % write_size)

(* The last chunk goes out without its padding. *)
ChunkUnpadded(offset) ==
    [id |-> Object.id, offset |-> offset,
     len |-> Smaller(aligned_chunk_size(CHUNK_SIZE, MAX_CHUNK_SIZE, WRITE_SIZE),
                     Object.size - offset),
     padded |-> TRUE]

(* The host sends the rest of the object, whatever the device accepts. *)
ChunkAtWhole(offset) ==
    [id |-> Object.id, offset |-> offset, len |-> Object.size - offset,
     padded |-> TRUE]

(* The host runs ahead and sends the chunk after the requested one. *)
ChunkAtNext(offset) == ChunkUnpadded(offset + ChunkUnpadded(offset).len)

(* data[offset : offset + size], and 0xff up to the alignment at the end. *)
ChunkAt(offset) ==
    LET raw == ChunkUnpadded(offset).len
    IN  [ChunkUnpadded(offset) EXCEPT !.len =
            IF offset + raw >= Object.size THEN raw + ((-raw) % WRITE_SIZE)
            ELSE raw]

HostSubscribes ==
    /\ host = "start"
    /\ host' = "subscribed"
    /\ UNCHANGED <<vars, net, budget>>

HostPublishesManifest ==
    /\ host = "subscribed"
    /\ host' = "waiting"
    /\ toDevice' = ForDevice([kind |-> "manifest", manifest |-> Object])
    /\ UNCHANGED <<vars, toHost, session, budget>>

Matches(s) == s.id = Object.id /\ s.size = Object.size

(* The status neither concerns this transfer nor asks for anything. *)
Ignores(s) ==
    \/ s.id = None /\ ~Raises(s)
    \/ s.id # None /\ ~Matches(s)
    \/ Matches(s) /\ ~Raises(s) /\ s.code # "Complete" /\ s.state = "Preparing"

Fails(s) ==
    \/ s.id = None /\ Raises(s)
    \/ Matches(s) /\ Raises(s)

NothingToSend(s) ==
    \/ aligned_chunk_size(CHUNK_SIZE, MAX_CHUNK_SIZE, WRITE_SIZE) = 0
    \/ s.next_offset >= Object.size

Reacts(s) ==
    IF Ignores(s) THEN UNCHANGED <<host, toDevice>>
    ELSE IF Fails(s) THEN host' = "failed" /\ UNCHANGED toDevice
    ELSE IF s.code = "Complete" THEN host' = "done" /\ UNCHANGED toDevice
    ELSE IF NothingToSend(s) THEN host' = "failed" /\ UNCHANGED toDevice
    ELSE /\ toDevice' = ForDevice([kind |-> "chunk",
                                   chunk |-> ChunkAt(s.next_offset)])
         /\ UNCHANGED host

HostReceives ==
    /\ host = "waiting"
    /\ toHost # <<>>
    /\ Reacts(Head(toHost))
    /\ toHost' = Tail(toHost)
    /\ UNCHANGED <<vars, session, budget>>

(* wait_status gives up; the queue of the client goes with it. *)
HostTimesOut ==
    /\ host = "waiting"
    /\ host' = "timeout"
    /\ UNCHANGED <<vars, net, budget>>

(* The command is run again for the same file, hence for the same id. *)
HostReruns ==
    /\ host \in {"timeout", "failed"}
    /\ host' = "start"
    /\ toHost' = <<>>
    /\ Spend("rerun")
    /\ UNCHANGED <<vars, toDevice, session>>

Device ==
    \/ \E event \in {"Connected", "Reconnected"} : DeviceConnects(event)
    \/ DeviceDisconnects
    \/ DeviceSends
    \/ DeviceSendsUnacked
    \/ DeviceStep
    \/ DeviceStarts
    \/ DeviceStepCancelled
    \/ DeviceReceives
    \/ DeviceReceivesTwice
    \/ StorageSucceeds
    \/ StorageFails
    \/ DeviceAborts

Host ==
    \/ HostSubscribes
    \/ HostPublishesManifest
    \/ HostReceives
    \/ HostTimesOut
    \/ HostReruns

Commanded == host # "chaotic"

TNext ==
    \/ ~Commanded /\ Next /\ UNCHANGED <<host, net, budget>>
    \/ Commanded /\ Device
    \/ Host

TSpec == TInit /\ [][TNext]_sysVars

(* The application keeps reconnecting, stepping and polling, the storage    *)
(* worker ends, and the host's event loop takes its messages.               *)
Progress ==
    /\ WF_sysVars(Commanded /\ \E event \in {"Connected", "Reconnected"} :
                                  DeviceConnects(event))
    /\ WF_sysVars(Commanded /\ DeviceStarts)
    /\ WF_sysVars(Commanded /\ conn = "up" /\ StepStart
                    /\ UNCHANGED <<host, net, budget>>)
    /\ WF_sysVars(Commanded /\ conn = "up" /\ StepNoStart
                    /\ UNCHANGED <<host, net, budget>>)
    /\ WF_sysVars(Commanded /\ DeviceSends)
    /\ WF_sysVars(Commanded /\ DeviceReceives)
    /\ WF_sysVars(Commanded /\ StorageSucceeds)
    /\ WF_sysVars(HostPublishesManifest)
    /\ WF_sysVars(HostReceives)

TFairSpec == TSpec /\ Progress

-----------------------------------------------------------------------------
(* Properties. *)

(* Type correctness of the host and of what the broker holds; no chunk the  *)
(* host sends is empty or larger than the device accepts.                   *)
TTypeOK ==
    /\ TypeOK
    /\ host \in {"start", "subscribed", "waiting", "done", "failed", "timeout",
                "chaotic"}
    /\ toHost \in Seq(Statuses)
    /\ \A i \in 1..Len(toDevice) :
         \/ toDevice[i] = [kind |-> "manifest", manifest |-> Object]
         \/ /\ toDevice[i].kind = "chunk"
            /\ toDevice[i].chunk \in
                 [id : {Object.id}, offset : Offsets, len : 1..MAX_CHUNK_SIZE,
                  padded : {TRUE}]
    /\ session \in {"none", "open", "subscribed"}
    /\ budget \in [dup : Nat, loss : Nat, rerun : Nat, fault : Nat]

(* The host reports success only for an object that is on storage in full. *)
DoneMeansStored == host = "done" => stored >= Object.size

(* A chunk the broker holds never asks the device to skip bytes: the host   *)
(* answers statuses, and the offset of a status never exceeds the device's. *)
NoChunkAhead ==
    \A i \in 1..Len(toDevice) :
        toDevice[i].kind = "chunk" =>
            transfer # None /\ toDevice[i].chunk.offset <= transfer.next_offset

(* A transfer fails only for cause: duplicates, reconnects, reruns of the   *)
(* host and lost acknowledgements never drive the device into `error` or    *)
(* make the host give up on a status.                                       *)
FailsOnlyForCause ==
    host = "failed" \/ (Commanded /\ state = "Error") => budget.fault < FAULTS

(* Every accepted transfer ends for its waiting host: it is told of success *)
(* or failure, or it gives up.                                              *)
TransferEnds ==
    (host = "waiting" /\ state # "Idle") ~> (host # "waiting")

=============================================================================
