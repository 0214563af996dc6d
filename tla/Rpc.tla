--------------------------------- MODULE Rpc ---------------------------------
(***************************************************************************)
(* mqtt-rpc: the subscription state of the device service and its deferred  *)
(* replies (mqtt-rpc/src/lib.rs), and the in-flight table of the requester   *)
(* (mqtt-rpc/py/mqtt_rpc/client.py).                                         *)
(*                                                                         *)
(* External: the device's minimq session, seen through the Op of its        *)
(* SUBSCRIBE, and the broker, which delivers at least once, loses what is    *)
(* queued for a session it drops, and may refuse a subscription.            *)
(***************************************************************************)
EXTENDS Naturals, FiniteSets

CONSTANTS
    Calls,        \* the calls of the requester; one is its correlation uuid
    SubOks,       \* may the broker accept, may it refuse the subscription?
    Foreign,      \* publications of other clients that reach the device
    LOSSES,       \* bound on connections lost by the device
    DUPLICATES,   \* bound on repeated deliveries
    None

(* A publication by its topic, its retain flag, whether its response target *)
(* can be kept, and the call it stands for: None is a call of someone else. *)
Publications ==
    [topic : {"root", "method", "other"}, retained : BOOLEAN,
     target : {"kept", "long", "missing"}, call : Calls \cup {None}]

(* The codes the application answers with. *)
Codes == {"Ok", "Failed", "Retained", "EmptyMethod"}

ASSUME RpcAssumption ==
    /\ SubOks \subseteq BOOLEAN
    /\ Foreign \subseteq Publications
    /\ LOSSES \in Nat /\ DUPLICATES \in Nat
    /\ None \notin Calls \cup Codes \cup {"pending", "complete", "invalid"}

VARIABLES
    subscribe,   \* Service::subscribe: None or the status of its Op
    ready,       \* Service::ready
    conn,        \* down, a ConnectEvent to handle, or up
    session,     \* the device's broker session: none, open or subscribed
    orphan,      \* is a SUBSCRIBE in flight whose Op was dropped?
    toDevice,    \* requests the broker holds for the device
    targets,     \* response targets the application holds, with its answer
    toClient,    \* responses the broker holds for the requester
    requester,   \* the requester: new, subscribing, open or closed
    calls,       \* its calls: the future of each
    answer,      \* what each finished call returned
    executed,    \* the calls the application has executed
    budget       \* what is left of the bounds

device == <<subscribe, ready, conn, session, orphan>>
traffic == <<toDevice, targets, toClient, executed>>
client == <<requester, calls, answer>>
vars == <<device, traffic, client, budget>>

Init ==
    /\ subscribe = None
    /\ ready = FALSE
    /\ conn = "down"
    /\ session = "none"
    /\ orphan = FALSE
    /\ toDevice = {} /\ targets = {} /\ toClient = {}
    /\ requester = "new"
    /\ calls = [c \in Calls |-> "idle"]
    /\ answer = [c \in Calls |-> None]
    /\ executed = {}
    /\ budget = [loss |-> LOSSES, dup |-> DUPLICATES]

Spend(kind) ==
    /\ budget[kind] > 0
    /\ budget' = [budget EXCEPT ![kind] = @ - 1]

-----------------------------------------------------------------------------
(* The device's connection. *)

(* A session that is not resumed loses its subscription, its queue and its  *)
(* operations in flight.                                                    *)
Connect(event) ==
    /\ conn = "down"
    /\ conn' = event
    /\ \/ /\ event = "Connected"
          /\ session' = "open"
          /\ orphan' = FALSE
          /\ subscribe' = IF subscribe = None THEN None ELSE "invalid"
          /\ toDevice' = {}
       \/ /\ event = "Reconnected"
          /\ session # "none"
          /\ UNCHANGED <<session, orphan, subscribe, toDevice>>
    /\ UNCHANGED <<ready, targets, toClient, executed, client, budget>>

Disconnect ==
    /\ conn = "up"
    /\ conn' = "down"
    /\ Spend("loss")
    /\ UNCHANGED <<subscribe, ready, session, orphan, traffic, client>>

(* The service stays ready whatever the broker remembers. *)
StillReadyAlways(event) == ready

StillReady(event) == ready /\ event = "Reconnected"

(* The Op is dropped; on a resumed session its SUBSCRIBE is replayed. *)
begin_connection ==
    /\ conn \in {"Connected", "Reconnected"}
    /\ conn' = "up"
    /\ orphan' = (orphan \/ subscribe = "pending")
    /\ subscribe' = None
    /\ ready' = StillReady(conn)
    /\ UNCHANGED <<session, traffic, client, budget>>

(* The SUBACK arrives: the session retires the Op whatever the reason code. *)
Suback(ok) ==
    /\ conn = "up"
    /\ session' = IF ok THEN "subscribed" ELSE session
    /\ \/ subscribe = "pending" /\ subscribe' = "complete" /\ UNCHANGED orphan
       \/ orphan /\ orphan' = FALSE /\ UNCHANGED subscribe
    /\ UNCHANGED <<ready, conn, traffic, client, budget>>

-----------------------------------------------------------------------------
(* Service::step *)

StepSubscribe ==
    /\ conn = "up"
    /\ ~ready
    /\ subscribe = None
    /\ subscribe' = "pending"
    /\ UNCHANGED <<ready, conn, session, orphan, traffic, client, budget>>

(* The SUBSCRIBE was queued but the call was dropped before it returned. *)
StepCancelled ==
    /\ conn = "up"
    /\ ~ready
    /\ subscribe = None
    /\ orphan' = TRUE
    /\ Spend("dup")
    /\ UNCHANGED <<subscribe, ready, conn, session, traffic, client>>

(* A completed subscription is forgotten instead of recorded. *)
StepRetireUnready ==
    /\ conn = "up"
    /\ ~ready
    /\ subscribe \in {"complete", "invalid"}
    /\ subscribe' = None
    /\ UNCHANGED <<ready, conn, session, orphan, traffic, client, budget>>

(* The Op is no longer pending.  Within one connection it cannot have been  *)
(* invalidated: begin_connection dropped every earlier one.                 *)
StepRetire ==
    /\ conn = "up"
    /\ ~ready
    /\ subscribe \in {"complete", "invalid"}
    /\ subscribe' = None
    /\ ready' = (subscribe = "complete")
    /\ UNCHANGED <<conn, session, orphan, traffic, client, budget>>

-----------------------------------------------------------------------------
(* Service::handle and the application's replies. *)

(* A response target that does not fit is answered all the same. *)
handleKeepsAll(p) ==
    IF p.target = "long" THEN [kind |-> "ResponseTargetTooLong", reply |-> TRUE]
    ELSE [kind |-> "Request", reply |-> TRUE]

(* The classification of a publication: its reason, and whether the         *)
(* response target could be kept.                                           *)
handle(p) ==
    IF p.topic = "other" THEN [kind |-> "Unhandled", reply |-> FALSE]
    ELSE IF p.retained THEN [kind |-> "Retained", reply |-> p.target = "kept"]
    ELSE IF p.target = "long"
    THEN [kind |-> "ResponseTargetTooLong", reply |-> FALSE]
    ELSE IF p.target = "missing"
    THEN [kind |-> "MissingResponseTopic", reply |-> FALSE]
    ELSE IF p.topic = "root" THEN [kind |-> "EmptyMethod", reply |-> TRUE]
    ELSE [kind |-> "Request", reply |-> TRUE]

(* The application executes a request, and answers a rejection by its code. *)
Serve(p) ==
    LET h == handle(p) IN
    /\ executed' = IF h.kind = "Request" THEN executed \cup {p.call} ELSE executed
    /\ \/ /\ h.reply /\ h.kind = "Request"
          /\ \E code \in {"Ok", "Failed"} :
               targets' = targets \cup {[call |-> p.call, code |-> code]}
       \/ /\ h.reply /\ h.kind # "Request"
          /\ targets' = targets \cup {[call |-> p.call, code |-> h.kind]}
       \/ ~h.reply /\ UNCHANGED targets

(* What request() publishes. *)
RequestOf(c) ==
    [topic |-> "method", retained |-> FALSE, target |-> "kept", call |-> c]

DeviceReceives(c) ==
    /\ conn = "up"
    /\ c \in toDevice
    /\ Serve(RequestOf(c))
    /\ \/ toDevice' = toDevice \ {c} /\ UNCHANGED budget
       \/ Spend("dup") /\ UNCHANGED toDevice
    /\ UNCHANGED <<device, toClient, client>>

DeviceReceivesForeign(p) ==
    /\ conn = "up"
    /\ session = "subscribed"
    /\ Serve(p)
    /\ UNCHANGED <<device, toDevice, toClient, client, budget>>

(* A deferred reply; `respond` attaches exactly one code.  Without a code   *)
(* the application has built its own publication.                           *)
Respond(t, coded) ==
    /\ conn = "up"
    /\ t \in targets
    /\ targets' = targets \ {t}
    /\ toClient' = IF t.call = None THEN toClient
                   ELSE toClient \cup
                        {[t EXCEPT !.code = IF coded THEN @ ELSE None]}
    /\ UNCHANGED <<device, toDevice, executed, client, budget>>

-----------------------------------------------------------------------------
(* The requester. *)

InFlight == {c \in Calls : calls[c] = "waiting"}

(* __aenter__ subscribes to the response topic, which nobody else uses. *)
__aenter__ ==
    /\ requester = "new"
    /\ requester' = "subscribing"
    /\ UNCHANGED <<device, traffic, calls, answer, budget>>

(* Entering fails on a refusal and on a timeout. *)
_subscribe(ok) ==
    /\ requester = "subscribing"
    /\ requester' = IF ok THEN "open" ELSE "closed"
    /\ UNCHANGED <<device, traffic, calls, answer, budget>>

close ==
    /\ requester = "open"
    /\ requester' = "closed"
    /\ calls' = [c \in Calls |-> IF c \in InFlight THEN "cancelled" ELSE calls[c]]
    /\ UNCHANGED <<device, traffic, answer, budget>>

request(c) ==
    /\ requester = "open"
    /\ calls[c] = "idle"
    /\ calls' = [calls EXCEPT ![c] = "waiting"]
    /\ toDevice' = IF session = "subscribed" THEN toDevice \cup {c} ELSE toDevice
    /\ UNCHANGED <<device, targets, toClient, executed, requester, answer, budget>>

(* wait_for gives up. *)
RequestTimesOut(c) ==
    /\ calls[c] = "waiting"
    /\ calls' = [calls EXCEPT ![c] = "timeout"]
    /\ UNCHANGED <<device, traffic, requester, answer, budget>>

(* The expiry interval of a queued request or response has passed. *)
RequestExpires(c) ==
    /\ c \in toDevice
    /\ toDevice' = toDevice \ {c}
    /\ UNCHANGED <<device, targets, toClient, executed, client, budget>>

ResponseExpires(r) ==
    /\ r \in toClient
    /\ toClient' = toClient \ {r}
    /\ UNCHANGED <<device, toDevice, targets, executed, client, budget>>

(* A response resolves whichever call is still in flight. *)
ResolvesAny(r) == InFlight

(* A response whose call has ended resolves it again. *)
ResolvesLate(r) == {c \in Calls : c = r.call}

(* The future a response resolves: unknown and finished calls have none. *)
Resolves(r) == {c \in InFlight : c = r.call}

Outcome(r) ==
    CASE r.code = None -> "protocol"
      [] r.code = "Ok" -> "result"
      [] OTHER -> "remote"

_on_message(r) ==
    /\ r \in toClient
    /\ requester = "open"
    /\ UNCHANGED requester
    /\ \/ /\ Resolves(r) = {}
          /\ UNCHANGED <<calls, answer>>
       \/ \E c \in Resolves(r) :
            /\ calls' = [calls EXCEPT ![c] = Outcome(r)]
            /\ answer' = [answer EXCEPT ![c] = r.call]
    /\ \/ toClient' = toClient \ {r} /\ UNCHANGED budget
       \/ Spend("dup") /\ UNCHANGED toClient
    /\ UNCHANGED <<device, toDevice, targets, executed>>

Next ==
    \/ \E event \in {"Connected", "Reconnected"} : Connect(event)
    \/ Disconnect
    \/ begin_connection
    \/ \E ok \in SubOks : Suback(ok)
    \/ StepSubscribe
    \/ StepCancelled
    \/ StepRetire
    \/ \E c \in Calls : DeviceReceives(c)
    \/ \E p \in Foreign : DeviceReceivesForeign(p)
    \/ \E t \in targets, coded \in BOOLEAN : Respond(t, coded)
    \/ \E c \in Calls : request(c)
    \/ __aenter__
    \/ \E ok \in BOOLEAN : _subscribe(ok)
    \/ close
    \/ \E c \in Calls : RequestTimesOut(c)
    \/ \E c \in Calls : RequestExpires(c)
    \/ \E r \in toClient : ResponseExpires(r)
    \/ \E r \in toClient : _on_message(r)

Spec == Init /\ [][Next]_vars

(* The application handles every connect event, keeps stepping and polling, *)
(* and the broker answers every SUBSCRIBE.                                   *)
FairSpec ==
    /\ Spec
    /\ WF_vars(begin_connection)
    /\ WF_vars(\E ok \in SubOks : Suback(ok) /\ subscribe = "pending" /\ UNCHANGED orphan)
    /\ WF_vars(StepSubscribe)
    /\ WF_vars(StepRetire)

-----------------------------------------------------------------------------
(* Properties. *)

Targets == [call : Calls \cup {None}, code : Codes \cup {None}]
Ends == {"result", "remote", "protocol", "timeout", "cancelled"}

(* Type correctness. *)
TypeOK ==
    /\ subscribe \in {None, "pending", "complete", "invalid"}
    /\ ready \in BOOLEAN /\ orphan \in BOOLEAN
    /\ conn \in {"down", "Connected", "Reconnected", "up"}
    /\ session \in {"none", "open", "subscribed"}
    /\ requester \in {"new", "subscribing", "open", "closed"}
    /\ toDevice \subseteq Calls
    /\ targets \subseteq Targets
    /\ toClient \subseteq Targets
    /\ calls \in [Calls -> {"idle", "waiting"} \cup Ends]
    /\ answer \in [Calls -> Calls \cup {None}]
    /\ executed \subseteq Calls \cup {None}
    /\ budget \in [loss : Nat, dup : Nat]

(* is_ready: "Return whether the request subscription is active."  While    *)
(* the connection is up and begin_connection has run, a ready service has   *)
(* its subscription at the broker.                                          *)
ReadyMeansSubscribed == ready /\ conn = "up" => session = "subscribed"

(* A call returns only the answer to its own request, and returns a result  *)
(* only if the application executed it, although replies are deferred,      *)
(* reordered, duplicated and may arrive after their call has ended.         *)
AnswersMatch ==
    \A c \in Calls :
        /\ answer[c] \in {c, None}
        /\ calls[c] = "result" => answer[c] = c /\ c \in executed

(* A call ends once: neither a late nor a duplicate response changes the    *)
(* outcome the caller of request() has seen.                                *)
CallsEndOnce ==
    [][\A c \in Calls : (calls[c] \in Ends) =>
         calls'[c] = calls[c] /\ answer'[c] = answer[c]]_vars

(* On a connection that lasts, the service becomes ready for good, whatever *)
(* subscriptions earlier connections left behind.                           *)
BecomesReady == <>[](conn = "up") => <>[]ready

=============================================================================
