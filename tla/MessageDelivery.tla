--------------------------- MODULE MessageDelivery ---------------------------
(***************************************************************************)
(* What QoS 1 and QoS 2 promise of one direction of an MQTT session, seen  *)
(* by the two applications only: the sender's handle on a message and the  *)
(* copies the receiver is given.  lib.rs: "Deliver at least once. Retries  *)
(* are possible." and "Deliver exactly once through the MQTT QoS 2         *)
(* handshake."                                                             *)
(***************************************************************************)
EXTENDS Naturals

CONSTANTS
  Messages,
  REFUSALS     \* the receiver may refuse a message with a reason code

VARIABLES
  status,   \* what the sender is told: none, pending, complete, invalidated
  qos,      \* 1 or 2; 0 while there is no message
  copies,   \* how often the receiving application was given the message; at
            \* QoS 1 only whether it was
  refused   \* the receiver has answered with a failure

vars == <<status, qos, copies, refused>>

Init ==
  /\ status = [m \in Messages |-> "none"]
  /\ qos = [m \in Messages |-> 0]
  /\ copies = [m \in Messages |-> 0]
  /\ refused = [m \in Messages |-> FALSE]

Submit(m, q) ==
  /\ status[m] = "none"
  /\ status' = [status EXCEPT ![m] = "pending"]
  /\ qos' = [qos EXCEPT ![m] = q]
  /\ UNCHANGED <<copies, refused>>

(* At QoS 1 a copy may come late; at QoS 2 the receiver is given a message *)
(* once, and before the sender takes it for delivered.                     *)
Deliver(m) ==
  /\ \/ status[m] = "pending"
     \/ status[m] = "complete" /\ qos[m] = 1
  /\ qos[m] = 2 => copies[m] = 0
  /\ copies' = [copies EXCEPT ![m] = 1]
  /\ UNCHANGED <<status, qos, refused>>

Refuse(m) ==
  /\ REFUSALS /\ status[m] = "pending"
  /\ refused' = [refused EXCEPT ![m] = TRUE]
  /\ UNCHANGED <<status, qos, copies>>

(* A message is complete only after the receiver has had it or refused it. *)
Complete(m) ==
  /\ status[m] = "pending"
  /\ copies[m] > 0 \/ refused[m]
  /\ status' = [status EXCEPT ![m] = "complete"]
  /\ UNCHANGED <<qos, copies, refused>>

(* The session is lost: the sender is told so for every message it holds. *)
Lose ==
  /\ status' = [m \in Messages |->
                  IF status[m] = "none" THEN "none" ELSE "invalidated"]
  /\ UNCHANGED <<qos, copies, refused>>

(* The sender drops a handle that is no longer pending. *)
Drop(m) ==
  /\ status[m] \in {"complete", "invalidated"}
  /\ status' = [status EXCEPT ![m] = "none"]
  /\ qos' = [qos EXCEPT ![m] = 0]
  /\ copies' = [copies EXCEPT ![m] = 0]
  /\ refused' = [refused EXCEPT ![m] = FALSE]

Next ==
  \/ Lose
  \/ \E m \in Messages :
       \/ \E q \in 1 .. 2 : Submit(m, q)
       \/ Deliver(m) \/ Refuse(m) \/ Complete(m) \/ Drop(m)

Spec == Init /\ [][Next]_vars
=============================================================================
