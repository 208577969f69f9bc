---------------------------- MODULE MCSimulation ----------------------------
(***************************************************************************)
(* Instances of Simulation for TLC: all scripts of up to Length operations *)
(* from a set of them.                                                     *)
(***************************************************************************)
EXTENDS Simulation

CONSTANT Length

Op(op, to) == [op |-> op, to |-> to]

UpTo(length, ops) == UNION {[1 .. k -> ops] : k \in 0 .. length}

\* Every operation there is, for two parties: party 2 does not exist.
AllOps == {Op("all", 0), Op("one", 0), Op("one", 1), Op("one", 2),
           Op("recv", 0), Op("yield", 0), Op("unknown", 0)}
AllScripts ==
    UpTo(Length, AllOps) \cup {Append(s, Op("fail", 0)) :
                                  s \in UpTo(Length - 1, AllOps)}

\* Messages, with private messages in the shorter scripts, and scripts that give
\* up after one operation at most.
Rounds == UpTo(Length, {Op("all", 0), Op("recv", 0)})
          \cup UpTo(Length - 1, {Op("all", 0), Op("one", 0), Op("recv", 0)})
          \cup {Append(s, Op("fail", 0)) :
                  s \in UpTo(1, {Op("all", 0), Op("recv", 0)})}
=============================================================================
