------------------------- MODULE MCRandomGeneration -------------------------
(***************************************************************************)
(* Two honest parties and a dishonest one, which copies commitments, one   *)
(* to each party if it likes, opens another value than the one it          *)
(* committed to, and echoes whatever hash is the right one for a party.    *)
(***************************************************************************)
EXTENDS RandomGeneration

MCStores ==
    [r \in Rounds |-> [type |-> IF r = 0 THEN "ReliableBroadcast" ELSE "Broadcast",
                      prop |-> "unset"]]

Bytes(name) == [bytes |-> name]

MCRand == [p \in Honest |-> IF p = 0 THEN Bytes("a") ELSE Bytes("b")]

MCValues ==
    {Bytes("a"), Bytes("b"), Digest(Bytes("a")), Digest(Bytes("b"))}

\* Commitments to the two values, openings of both, and a commitment that is
\* not broadcast.
MCMain ==
    [round : {0}, type : {"Broadcast"}, msg : {Digest(MCRand[p]) : p \in Honest}]
    \cup [round : {1}, type : {"Broadcast"}, msg : {MCRand[p] : p \in Honest}]
    \cup [round : {0}, type : {"P2P"}, msg : {Digest(MCRand[0])}]

\* Echoes hold a hash that honest parties may compute or one that none
\* computes; one is not broadcast, one is for a round that does not exist, and
\* the round number of one wraps around to that of the echoes of round 0.
MCEchoes ==
    LET right == {HashOf([s \in Parties |->
                            Digest(MCRand[IF s \in Honest THEN s ELSE p])], 0) :
                    p \in Honest}
        wrong == HashOf([s \in Parties |-> Bytes("a")], 0)
        Echo(round, type, hash) == [round |-> round, type |-> type, hash |-> hash]
    IN {Echo(0, "Broadcast", h) : h \in right \cup {wrong}}
       \cup {Echo(0, "P2P", wrong), Echo(R, "Broadcast", wrong),
             Echo(U16 \div 2, "Broadcast", wrong)}

\* States that differ only in what parties that have ended hold, or are sent,
\* or in the reasons why they failed, have the same future and the same
\* properties.
Live == {p \in Honest : pc[p] \notin {"done", "failed"}}
LiveView ==
    <<pc, rnd, check, exposed, cast,
      [p \in Live |-> <<main[p], echo[p], sent[p], slots[p]>>],
      {m \in net : m.to \in Live}>>
=============================================================================
