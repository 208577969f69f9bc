------------------------- MODULE ReliableBroadcast -------------------------
(***************************************************************************)
(* What `WithEchoBroadcast` promises, without hashes, echoes or a network  *)
(* (the first paragraphs of echo_broadcast/mod.rs): a party that is given  *)
(* the messages of a reliable round knows that no honest party is ever     *)
(* given others.                                                           *)
(***************************************************************************)
CONSTANTS
    Parties,    \* all parties
    Honest,     \* those that run the code
    Reliable,   \* the rounds
    Values      \* the messages

VARIABLES
    cast,       \* what honest parties have broadcast
    out         \* what honest parties were given, by party, round and sender

Init ==
    /\ cast = {}
    /\ out = [p \in Honest |-> [r \in {} |-> 0]]

\* An honest party broadcasts one message in a round.
Cast(p, r, v) ==
    /\ \A c \in cast : ~ (c.sender = p /\ c.round = r)
    /\ cast' = cast \cup {[sender |-> p, round |-> r, msg |-> v]}
    /\ UNCHANGED out

\* Honest senders are not misquoted: vec holds what they broadcast.
Authentic(p, r, vec) ==
    \A s \in Honest \ {p} : [sender |-> s, round |-> r, msg |-> vec[s]] \in cast

\* Nobody was given another message of the same sender, honest or not.
Consistent(p, r, vec) ==
    \A q \in Honest \ {p} : r \in DOMAIN out[q] =>
        \A s \in Parties \ {p, q} : out[q][r][s] = vec[s]

\* Party p is given the messages of round r, once.
Deliver(p, r, vec) ==
    /\ r \notin DOMAIN out[p]
    /\ Authentic(p, r, vec)
    /\ Consistent(p, r, vec)
    /\ out' = [out EXCEPT ![p] =
                [k \in DOMAIN @ \cup {r} |-> IF k = r THEN vec ELSE @[k]]]
    /\ UNCHANGED cast

Next ==
    \E p \in Honest, r \in Reliable :
        \/ \E v \in Values : Cast(p, r, v)
        \/ \E vec \in [Parties \ {p} -> Values] : Deliver(p, r, vec)

Spec == Init /\ [][Next]_<<cast, out>>
=============================================================================
