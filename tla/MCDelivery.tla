------------------------------ MODULE MCDelivery ------------------------------
EXTENDS Delivery, TLC

CONSTANTS m1, m2, b1, b2

MCMsgs == {m1, m2}
MCBrokerMsgs == {b1, b2}
MCTraffics ==
    {[msgs |-> MCMsgs, kinds |-> PublishKinds],
     [msgs |-> MCMsgs, kinds |-> {"Subscribe"}],
     [msgs |-> MCBrokerMsgs, kinds |-> {}]}

Names == Permutations(MCMsgs) \cup Permutations(MCBrokerMsgs)
=============================================================================
