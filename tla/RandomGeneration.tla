-------------------------- MODULE RandomGeneration --------------------------
(***************************************************************************)
(* `protocol_of_random_generation` of the random-generation example, run   *)
(* by the honest parties over WithEchoBroadcast: commit to a random value  *)
(* in a reliable round, open the commitment in a plain one, verify the     *)
(* openings of the others and add up the values.                           *)
(*                                                                         *)
(* Rounds 1 and 2 of the source are rounds 0 and 1 here, as they are for   *)
(* the derived ProtocolMsg.  Commitments and random values are strings of  *)
(* 32 bytes alike; SHA-256 is a one-to-one function on them.               *)
(***************************************************************************)
EXTENDS EchoBroadcast

CONSTANT Rand       \* the randomness each honest party draws

Digest(v) == [sha256 |-> v]

ASSUME RandomGenerationAssumption ==
    /\ R = 2
    /\ Stores[0] = [type |-> "ReliableBroadcast", prop |-> "unset"]
    /\ Stores[1] = [type |-> "Broadcast", prop |-> "unset"]
    /\ Rand \in [Honest -> Values]
    /\ \A p \in Honest : Digest(Rand[p]) \in Values
    /\ Careless = {}

\* Mutant: the randomness is opened without waiting for the commitments.
OpenAtOnce(p) ==
    \/ Send(p, 0, "Reliable", Digest(Rand[p]))
    \/ /\ pc[p] = "sent" /\ rnd[p] = 0
       /\ [sender |-> p, round |-> 1, msg |-> Rand[p]] \notin cast
       /\ \E qs \in Recipients(p, "All") : Hand(p, 1, "All", Rand[p], qs)
       /\ UNCHANGED <<pc, error>>

\* What the protocol sends: its commitment, and when the commitments of the
\* others are complete, its randomness.
SendOwn(p) ==
    \/ Send(p, 0, "Reliable", Digest(Rand[p]))
    \/ Send(p, 1, "All", Rand[p])

\* A send fails, and the protocol with it.
SendOwnFails(p) ==
    \/ SendFails(p, 0, "Reliable", Digest(Rand[p]))
    \/ SendFails(p, 1, "All", Rand[p])

RGNext ==
    \E p \in Honest :
        \/ SendOwn(p)
        \/ SendOwnFails(p)
        \/ Complete(p)
        \/ SendEcho(p)
        \/ SendEchoFails(p)
        \/ \E m \in {x \in net : x.to = p} : Receive(p, m)
        \/ \E m \in ByzPackets(p) : ReceiveByz(p, m)

RGSpec == Init /\ [][RGNext]_vars

(***************************************************************************)
(* What the protocol computes, without another await, when both rounds are *)
(* complete.                                                               *)
(***************************************************************************)
Finished(p) == pc[p] = "done"

Commitments(p) == IterIndexed(exposed[p][0])
Openings(p) == IterIndexed(exposed[p][1])

\* Mutant: openings are not verified.
NothingVerified(p) == {}

\* Mutant: openings are zipped with the commitments in reverse order.
ZippedInReverse(p) ==
    {Commitments(p)[k].party : k \in {j \in Slots(N) :
        Commitments(p)[j].msg # Digest(Openings(p)[N - 2 - j].msg)}}

\* guilty_parties: those whose opening is not the one of their commitment.
GuiltyParties(p) ==
    {Commitments(p)[k].party : k \in {j \in Slots(N) :
        Commitments(p)[j].msg # Digest(Openings(p)[j].msg)}}

\* What each party contributes to the output of p.
Contributions(p) ==
    [s \in Parties |-> IF s = p THEN Rand[p]
                                ELSE Openings(p)[SlotOf(p, s)].msg]

\* The exclusive or of the contributions: the values that occur an odd number
\* of times.
OutputOf(p) ==
    {v \in Values :
        Cardinality({s \in Parties : Contributions(p)[s] = v}) % 2 = 1}

Succeeds(p) == Finished(p) /\ GuiltyParties(p) = {}

-----------------------------------------------------------------------------
\* Parties that end with Ok have the same randomness, though openings are not
\* broadcast reliably and a dishonest party opens differently to each.
SameOutput ==
    \A p, q \in Honest :
        Succeeds(p) /\ Succeeds(q) => OutputOf(p) = OutputOf(q)

\* A party that ran the protocol honestly is not blamed.
NoHonestBlame ==
    \A p \in Honest : Finished(p) => GuiltyParties(p) \cap Honest = {}

\* When an honest party opens its randomness, everybody's contribution is
\* fixed: every honest party has collected the same commitments, and whoever
\* ends with Ok adds up exactly the values which these commit to.
FixedBeforeOpened ==
    \A p \in Honest :
        [sender |-> p, round |-> 1, msg |-> Rand[p]] \in cast =>
            \A q \in Honest :
                /\ 0 \in DOMAIN check[q]
                /\ check[q][0].hash = check[p][0].hash
                /\ Succeeds(q) => \A s \in Parties :
                      Digest(Contributions(q)[s]) = check[p][0].hash.msgs[s]
=============================================================================
