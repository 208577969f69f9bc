----------------------------- MODULE MCMpcParty -----------------------------
(***************************************************************************)
(* Instances of MpcParty for TLC: party 1 of 3.                            *)
(***************************************************************************)
EXTENDS MpcParty

W(round, variant, sender, type, msg) ==
    [round |-> round, variant |-> variant, sender |-> sender,
     type |-> type, msg |-> msg]

\* Two rounds, a broadcast and a p2p one, with their honest messages, a
\* repetition with another payload, an own message, a wrong type, an unknown
\* sender, a message of a wrong variant and one of an unknown round.
TwoRoundsTypes == [r \in {0, 1} |-> IF r = 0 THEN "Broadcast" ELSE "P2P"]
TwoRoundsWire ==
    {W(0, 0, 0, "Broadcast", "a"), W(0, 0, 2, "ReliableBroadcast", "b"),
     W(0, 0, 0, "Broadcast", "b"), W(0, 0, 1, "Broadcast", "a"),
     W(1, 1, 0, "P2P", "a"), W(1, 1, 2, "P2P", "b"),
     W(1, 1, 2, "Broadcast", "b"), W(1, 1, 3, "P2P", "a"),
     W(1, 0, 0, "P2P", "a"), W(5, 5, 0, "P2P", "a")}

\* Four rounds with each kind of store, and witnesses of another party for
\* three of them: of another output type, of another error type and of the
\* same types.
CustomTypes == [r \in 0 .. 3 |-> "ReliableBroadcast"]
CustomWire ==
    {W(r, r, j, "ReliableBroadcast", "a") : r \in {0, 1}, j \in {0, 2}}
    \cup {W(0, 0, 0, "Broadcast", "a"), W(2, 2, 0, "ReliableBroadcast", "a")}
=============================================================================
