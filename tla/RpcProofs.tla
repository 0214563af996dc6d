------------------------------ MODULE RpcProofs ------------------------------
(***************************************************************************)
(* mqtt-rpc for any number of calls, lost connections and repeated          *)
(* deliveries.                                                              *)
(*                                                                         *)
(* None of the three invariants is inductive.  ReadyMeansSubscribed needs   *)
(* what a completed Op and a ready flag mean while the connection is down   *)
(* (SubscriptionInv); AnswersMatch needs that a positive answer on its way  *)
(* back, in the application's hands or in the broker's, is one of a call    *)
(* the application executed (ExecutedInv).                                  *)
(***************************************************************************)
EXTENDS Rpc, TLAPS

(* Leaves are small; the time is that of the context they stand in, and a  *)
(* leaf whose encoding takes too long is tried again.                      *)
USE SMTT(30), ZenonT(20), SMTT(31), SMTT(32)

-----------------------------------------------------------------------------
(* Types. *)

(* handle answers with a code of the service, for every publication. *)
LEMMA HandleType ==
  ASSUME NEW p \in Publications
  PROVE  /\ p.call \in Calls \cup {None}
         /\ handle(p).reply => handle(p).kind \in {"Request", "Retained", "EmptyMethod"}
BY RpcAssumption DEF handle, Publications

(* A request is a publication. *)
LEMMA RequestType ==
  ASSUME NEW c \in Calls
  PROVE  RequestOf(c) \in Publications
BY DEF RequestOf, Publications

(* Dispatching a publication adds a well-typed response target. *)
LEMMA ServeType ==
  ASSUME NEW p \in Publications, TypeOK, Serve(p)
  PROVE  /\ targets' \subseteq Targets
         /\ executed' \subseteq Calls \cup {None}
BY HandleType DEF Serve, Targets, Codes, TypeOK

(* Everything starts well typed. *)
LEMMA TypeInit == Init => TypeOK
<1> SUFFICES ASSUME Init PROVE TypeOK
  OBVIOUS
<1>1. ready \in BOOLEAN /\ orphan \in BOOLEAN
  BY ZenonT(30) DEF Init
<1>2. budget \in [loss : Nat, dup : Nat]
  BY RpcAssumption DEF Init
<1> QED
  BY <1>1, <1>2 DEF Init, TypeOK, Ends

(* Every step keeps the types. *)
LEMMA TypeStep == TypeOK /\ [Next]_vars => TypeOK'
<1> SUFFICES ASSUME TypeOK, [Next]_vars PROVE TypeOK'
  OBVIOUS
<1>1. ASSUME NEW event \in {"Connected", "Reconnected"}, Connect(event) PROVE TypeOK'
  BY ZenonT(30), <1>1, RpcAssumption DEF Connect, TypeOK, device, client, traffic
<1>2. CASE Disconnect
  BY <1>2, RpcAssumption DEF Disconnect, Spend, TypeOK, device, client, traffic
<1>3. CASE begin_connection
  BY <1>3, RpcAssumption DEF begin_connection, StillReady, TypeOK, device, client, traffic
<1>4. ASSUME NEW ok \in SubOks, Suback(ok) PROVE TypeOK'
  BY ZenonT(30), <1>4, RpcAssumption DEF Suback, TypeOK, device, client, traffic
<1>5. CASE StepSubscribe
  BY <1>5, RpcAssumption DEF StepSubscribe, TypeOK, device, client, traffic
<1>6. CASE StepCancelled
  BY <1>6, RpcAssumption DEF StepCancelled, Spend, TypeOK, device, client, traffic
<1>7. CASE StepRetire
  BY <1>7, RpcAssumption DEF StepRetire, TypeOK, device, client, traffic
<1>8. ASSUME NEW c \in Calls, DeviceReceives(c) PROVE TypeOK'
  BY <1>8, ServeType, RequestType, RpcAssumption DEF DeviceReceives, Spend, TypeOK, device, client
<1>9. ASSUME NEW p \in Foreign, DeviceReceivesForeign(p) PROVE TypeOK'
  BY <1>9, ServeType, RequestType, RpcAssumption DEF DeviceReceivesForeign, Spend, TypeOK, device, client
<1>10. ASSUME NEW t \in targets, NEW coded \in BOOLEAN, Respond(t, coded) PROVE TypeOK'
  BY <1>10, RpcAssumption DEF Respond, Targets, TypeOK, device, client, traffic
<1>11. ASSUME NEW c \in Calls, request(c) PROVE TypeOK'
  BY <1>11, RpcAssumption DEF request, TypeOK, device, client, traffic
<1>12. CASE __aenter__
  BY <1>12, RpcAssumption DEF __aenter__, TypeOK, device, client, traffic
<1>13. ASSUME NEW ok \in BOOLEAN, _subscribe(ok) PROVE TypeOK'
  BY <1>13, RpcAssumption DEF _subscribe, TypeOK, device, client, traffic
<1>14. CASE close
  BY <1>14, RpcAssumption DEF close, Ends, TypeOK, device, client, traffic
<1>15. ASSUME NEW c \in Calls, RequestTimesOut(c) PROVE TypeOK'
  BY <1>15, RpcAssumption DEF RequestTimesOut, Ends, TypeOK, device, client, traffic
<1>16. ASSUME NEW c \in Calls, RequestExpires(c) PROVE TypeOK'
  BY <1>16, RpcAssumption DEF RequestExpires, TypeOK, device, client, traffic
<1>17. ASSUME NEW r \in toClient, ResponseExpires(r) PROVE TypeOK'
  BY <1>17, RpcAssumption DEF ResponseExpires, TypeOK, device, client, traffic
<1>18. ASSUME NEW r \in toClient, _on_message(r) PROVE TypeOK'
  BY <1>18, RpcAssumption DEF _on_message, Spend, Resolves, InFlight, Outcome, Ends, TypeOK, device, client, traffic
<1>19. CASE UNCHANGED vars
  BY <1>19 DEF vars, TypeOK, device, client, traffic
<1> QED
  BY <1>1, <1>2, <1>3, <1>4, <1>5, <1>6, <1>7, <1>8, <1>9, <1>10, <1>11, <1>12, <1>13, <1>14, <1>15, <1>16, <1>17, <1>18, <1>19 DEF Next

(* Every state of the service, the requester and the broker is well typed,  *)
(* so no response carries a code `respond` cannot attach.                   *)
THEOREM TypeCorrect == Spec => []TypeOK
BY TypeInit, TypeStep, PTL DEF Spec

-----------------------------------------------------------------------------
(* The service and its subscription. *)

(* A positive SUBACK or a ready flag stands for a subscription at the       *)
(* broker, unless a new session was opened that begin_connection has not    *)
(* yet been told of.                                                        *)
SubscriptionInv ==
  ready \/ subscribe = "complete" => conn = "Connected" \/ session = "subscribed"

(* A new service has no subscription and claims none. *)
LEMMA SubscriptionInit == Init => SubscriptionInv
BY RpcAssumption DEF Init, SubscriptionInv

(* Every step keeps SubscriptionInv if no subscription is refused. *)
LEMMA SubscriptionStep ==
  ASSUME SubOks = {TRUE}, TypeOK, SubscriptionInv, [Next]_vars
  PROVE  SubscriptionInv'
<1> USE DEF SubscriptionInv
<1>1. ASSUME NEW event \in {"Connected", "Reconnected"}, Connect(event)
      PROVE  SubscriptionInv'
  BY <1>1, RpcAssumption DEF Connect
<1>2. CASE Disconnect
  BY <1>2 DEF Disconnect
<1>3. CASE begin_connection
  BY ZenonT(30), <1>3, RpcAssumption DEF begin_connection, StillReady
<1>4. ASSUME NEW ok \in SubOks, Suback(ok)
      PROVE  SubscriptionInv'
  BY <1>4 DEF Suback
<1>5. CASE StepSubscribe \/ StepCancelled
  BY <1>5 DEF StepSubscribe, StepCancelled
<1>6. CASE StepRetire
  BY ZenonT(30), <1>6, RpcAssumption DEF StepRetire
<1>7. CASE UNCHANGED device
  BY <1>7 DEF device
<1>8. QED
  BY ZenonT(30), <1>1, <1>2, <1>3, <1>4, <1>5, <1>6, <1>7
  DEF Next, vars, DeviceReceives, DeviceReceivesForeign, Respond, request,
      __aenter__, _subscribe, close, RequestTimesOut, RequestExpires,
      ResponseExpires, _on_message

(* is_ready tells the truth, through lost connections, cancelled steps and  *)
(* replayed SUBSCRIBEs, as long as the broker refuses no subscription.  (If *)
(* it may refuse one the statement is false: run RpcRefused.)               *)
THEOREM ReadyTellsTruth ==
  ASSUME SubOks = {TRUE}
  PROVE  Spec => []ReadyMeansSubscribed
<1>1. Init => SubscriptionInv
  BY SubscriptionInit
<1>2. TypeOK /\ SubscriptionInv /\ [Next]_vars => SubscriptionInv'
  BY SubscriptionStep
<1>3. SubscriptionInv => ReadyMeansSubscribed
  BY DEF SubscriptionInv, ReadyMeansSubscribed
<1> QED
  BY <1>1, <1>2, <1>3, TypeCorrect, PTL DEF Spec

-----------------------------------------------------------------------------
(* The requester and its answers. *)

(* An `Ok` that is still under way belongs to an executed request, and a    *)
(* call holds nothing but its own answer.                                   *)
ExecutedInv ==
  /\ \A t \in targets \cup toClient : t.code = "Ok" => t.call \in executed
  /\ AnswersMatch

(* A target that will say Ok belongs to an executed call. *)
LEMMA ServeExecutes ==
  ASSUME NEW p \in Publications, TypeOK, Serve(p)
  PROVE  /\ executed \subseteq executed'
         /\ \A t \in targets' : t \in targets \/ (t.code = "Ok" => t.call \in executed')
BY HandleType DEF Serve

(* Every step keeps ExecutedInv. *)
LEMMA ExecutedStep ==
  ASSUME TypeOK, ExecutedInv, [Next]_vars
  PROVE  ExecutedInv'
<1>1. ASSUME NEW p \in Publications, Serve(p), UNCHANGED <<toClient, client>>
      PROVE  ExecutedInv'
  BY <1>1, ServeExecutes DEF ExecutedInv, AnswersMatch, client
<1>2. ASSUME NEW c \in Calls, DeviceReceives(c)
      PROVE  ExecutedInv'
  BY <1>1, <1>2, RequestType DEF DeviceReceives
<1>3. ASSUME NEW p \in Foreign, DeviceReceivesForeign(p)
      PROVE  ExecutedInv'
  BY <1>1, <1>3, RpcAssumption DEF DeviceReceivesForeign
<1>4. ASSUME NEW t \in targets, NEW coded \in BOOLEAN, Respond(t, coded)
      PROVE  ExecutedInv'
  BY <1>4, RpcAssumption DEF Respond, ExecutedInv, AnswersMatch, client, TypeOK, Targets, Codes
<1>5. CASE close
  BY <1>5 DEF close, ExecutedInv, AnswersMatch, traffic, InFlight, TypeOK
<1>6. ASSUME NEW c \in Calls, request(c) \/ RequestTimesOut(c)
      PROVE  ExecutedInv'
  BY <1>6 DEF request, RequestTimesOut, ExecutedInv, AnswersMatch, traffic, TypeOK
<1>7. ASSUME NEW r \in toClient, ResponseExpires(r)
      PROVE  ExecutedInv'
  BY <1>7 DEF ResponseExpires, ExecutedInv, AnswersMatch, client
<1>8. ASSUME NEW r \in toClient, _on_message(r)
      PROVE  ExecutedInv'
  <2>1. (\A t \in targets \cup toClient : t.code = "Ok" => t.call \in executed)'
    BY <1>8 DEF _on_message, ExecutedInv
  <2>2. AnswersMatch'
    <3>1. CASE UNCHANGED <<calls, answer>>
      BY <1>8, <3>1 DEF _on_message, ExecutedInv, AnswersMatch
    <3>2. ASSUME NEW c \in Resolves(r),
                 calls' = [calls EXCEPT ![c] = Outcome(r)],
                 answer' = [answer EXCEPT ![c] = r.call]
          PROVE  AnswersMatch'
      <4>1. c \in Calls /\ c = r.call
        BY DEF Resolves, InFlight
      <4>2. Outcome(r) = "result" => r.code = "Ok"
        BY DEF Outcome
      <4>3. executed' = executed
        BY <1>8 DEF _on_message
      <4> QED
        BY <3>2, <4>1, <4>2, <4>3 DEF ExecutedInv, AnswersMatch, TypeOK
    <3> QED
      BY <1>8, <3>1, <3>2 DEF _on_message
  <2> QED BY <2>1, <2>2 DEF ExecutedInv
<1>9. CASE UNCHANGED <<targets, toClient, executed, calls, answer>>
  BY <1>9 DEF ExecutedInv, AnswersMatch
<1> QED
  BY <1>2, <1>3, <1>4, <1>5, <1>6, <1>7, <1>8, <1>9
  DEF Next, vars, traffic, client, Connect, Disconnect, begin_connection, Suback,
      StepSubscribe, StepCancelled, StepRetire, __aenter__, _subscribe,
      RequestExpires

(* Every answer goes to the call that asked, and a call succeeds only if    *)
(* the application executed it, for any number of concurrent calls.         *)
THEOREM AnswersGoHome == Spec => []AnswersMatch
<1>1. Init => ExecutedInv
  BY RpcAssumption DEF Init, ExecutedInv, AnswersMatch
<1>2. TypeOK /\ ExecutedInv /\ [Next]_vars => ExecutedInv'
  BY ExecutedStep
<1>3. ExecutedInv => AnswersMatch
  BY DEF ExecutedInv
<1> QED
  BY <1>1, <1>2, <1>3, TypeCorrect, PTL DEF Spec

(* A step that changes the outcome of a call starts from one in flight or   *)
(* not yet made.                                                            *)
LEMMA EndedStays ==
  ASSUME TypeOK, [Next]_vars, NEW c \in Calls, calls[c] \in Ends
  PROVE  calls'[c] = calls[c] /\ answer'[c] = answer[c]
<1>1. CASE close
  BY <1>1 DEF close, InFlight, Ends
<1>2. ASSUME NEW d \in Calls, request(d) \/ RequestTimesOut(d)
      PROVE  calls'[c] = calls[c] /\ answer'[c] = answer[c]
  BY <1>2 DEF request, RequestTimesOut, Ends, TypeOK
<1>3. ASSUME NEW r \in toClient, _on_message(r)
      PROVE  calls'[c] = calls[c] /\ answer'[c] = answer[c]
  BY <1>3 DEF _on_message, Resolves, InFlight, Ends, TypeOK
<1>4. CASE UNCHANGED <<calls, answer>>
  BY <1>4
<1> QED
  BY <1>1, <1>2, <1>3, <1>4
  DEF Next, vars, client, Connect, Disconnect, begin_connection, Suback,
      StepSubscribe, StepCancelled, StepRetire, DeviceReceives,
      DeviceReceivesForeign, Respond, __aenter__, _subscribe,
      RequestExpires, ResponseExpires

(* No late or duplicate response changes an outcome the caller has seen.    *)
THEOREM EndsAreFinal == Spec => CallsEndOnce
<1>1. TypeOK /\ [Next]_vars =>
        [\A c \in Calls : (calls[c] \in Ends) =>
           calls'[c] = calls[c] /\ answer'[c] = answer[c]]_vars
  BY EndedStays
<1> QED
  BY <1>1, TypeCorrect, PTL DEF Spec, CallsEndOnce

==============================================================================
