-------------------------------- MODULE MCRpc --------------------------------
(* Two calls, and one publication of another client for every way to be      *)
(* rejected.                                                                  *)
EXTENDS Rpc

MCForeign ==
    {[topic |-> "other", retained |-> FALSE, target |-> "kept", call |-> None],
     [topic |-> "method", retained |-> TRUE, target |-> "kept", call |-> None],
     [topic |-> "method", retained |-> FALSE, target |-> "long", call |-> None],
     [topic |-> "method", retained |-> FALSE, target |-> "missing", call |-> None],
     [topic |-> "root", retained |-> FALSE, target |-> "kept", call |-> None]}

=============================================================================
