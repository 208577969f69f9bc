-------------------------- MODULE MCEchoBroadcast --------------------------
(***************************************************************************)
(* Instances of EchoBroadcast for TLC.                                     *)
(***************************************************************************)
EXTENDS EchoBroadcast

Store(type, prop) == [type |-> type, prop |-> prop]

OneReliable == [r \in Rounds |-> Store("ReliableBroadcast", "unset")]

\* A reliable round, then a plain one.
FaultStores ==
    [r \in Rounds |-> IF r = 0 THEN Store("ReliableBroadcast", "unset")
                              ELSE Store("Broadcast", "unset")]

\* A plain round, a reliable one, and one that is reliable by its property.
PropStores ==
    [r \in Rounds |-> IF r = 0 THEN Store("Broadcast", "unset")
                     ELSE IF r = 1 THEN Store("ReliableBroadcast", "unset")
                     ELSE Store("Broadcast", "true")]

Echo(round, type, hash) == [round |-> round, type |-> type, hash |-> hash]

\* Every hash that a round of full vectors can have; and an echo that is not
\* broadcast, one for a round that does not exist, and one whose round number
\* wraps around to that of the echoes of round 0.
EveryEcho ==
    LET all == [msgs : [Parties -> Values], round : Rounds]
        one == CHOOSE h \in all : TRUE
    IN {Echo(r, "Broadcast", h) : r \in Rounds, h \in all}
       \cup {Echo(0, "P2P", one), Echo(R, "Broadcast", one),
             Echo(U16 \div 2, "Broadcast", one)}

\* Any message, broadcast or sent to one party.
EveryMain == [round : Rounds, type : {"P2P", "Broadcast"}, msg : Values]

None == {}
=============================================================================
