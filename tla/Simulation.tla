----------------------------- MODULE Simulation -----------------------------
(***************************************************************************)
(* The simulator of sim/mod.rs: `Simulation::run` drives the parties, each *)
(* of them a state machine, and carries their messages in `MessagesQueue`. *)
(*                                                                         *)
(* A party follows a script: sends to all or to one, receives, yields; a   *)
(* receive takes any message.  At the end of its script it outputs the     *)
(* number of messages it has received, or an error where it gives up (the  *)
(* operation "fail").  What `proceed` and `received_msg` answer is         *)
(* the contract of StateMachine: a party that was given a message keeps it *)
(* in its slot until its next receive, and asks for one only if the slot   *)
(* is empty.                                                               *)
(***************************************************************************)
EXTENDS Naturals, Sequences, FiniteSets

CONSTANTS
    N,          \* number of parties
    Scripts     \* what a party may do: sequences of operations

Parties == 0 .. (N - 1)

\* An operation; the recipient is of interest for "one" only, and may be a
\* party that does not exist.
Ops == [op : {"all", "one", "recv", "yield", "unknown", "fail"}, to : Nat]

ASSUME SimulationAssumption ==
    /\ N \in Nat
    /\ Scripts \subseteq Seq(Ops)
    /\ \A s \in Scripts : \A x \in DOMAIN s : s[x].op = "fail" => x = Len(s)

VARIABLES
    script,     \* the script of each party, chosen at the start
    done,       \* number of operations each party has done
    slot,       \* the message a party was given and has not received yet
    active,     \* parties that are not Party::Finished
    output,     \* what the others hold in Party::Finished
    wants,      \* Party::Active::wants_one_more_msg
    left,       \* parties_left
    at,         \* the party whose turn it is in the for loop
    queue,      \* MessagesQueue::queue
    nextId,     \* MessagesQueue::next_id
    status,     \* "running", "ok" or the error run returned
    sent,       \* history: the messages of all parties, in order
    got         \* history: what each party was given

vars == <<script, done, slot, active, output, wants, left, at, queue,
          nextId, status, sent, got>>

NoMsg == [id |-> 0, sender |-> 0, no |-> 0]
NoOutput == [ok |-> FALSE, val |-> 0]

(***************************************************************************)
(* MessagesQueue.  A message carries its number among all that were sent.  *)
(***************************************************************************)
Msg(id, sender, no) == [id |-> id, sender |-> sender, no |-> no]

\* Whether a message that `sender` sends by the operation o goes to party i.
IsFor(o, sender, i) ==
    IF o.op = "all" THEN i # sender ELSE o.op = "one" /\ o.to = i

\* The recipients get consecutive ids in the order of their indices.
IdFor(o, sender, i) ==
    nextId + Cardinality({j \in Parties : j < i /\ IsFor(o, sender, j)})

\* Mutant: a broadcast goes on the front of the queues.
QueuedInFront(o, sender) ==
    [i \in Parties |->
        IF IsFor(o, sender, i)
          THEN <<Msg(IdFor(o, sender, i), sender, Len(sent) + 1)>> \o queue[i]
          ELSE queue[i]]

Queued(o, sender) ==
    [i \in Parties |->
        IF IsFor(o, sender, i)
          THEN Append(queue[i], Msg(IdFor(o, sender, i), sender,
                                    Len(sent) + 1))
          ELSE queue[i]]

\* An id is used up even if the only recipient does not exist.
NextId(o) == IF o.op = "all" THEN nextId + N - 1 ELSE nextId + 1

SendMessage(o, sender) ==
    /\ queue' = Queued(o, sender)
    /\ nextId' = NextId(o)
    /\ sent' = Append(sent, [sender |-> sender, op |-> o])
    /\ status' = IF o.op = "one" /\ o.to \notin Parties
                   THEN "UnknownRecipient" ELSE status

(***************************************************************************)
(* The state machines.                                                     *)
(***************************************************************************)
\* The operations a party has done when proceed comes to its next event: a
\* message in the slot is received on the way.
Received(i) ==
    /\ done[i] < Len(script[i])
    /\ script[i][done[i] + 1].op = "recv"
    /\ slot[i] # NoMsg

Position(i) == IF Received(i) THEN done[i] + 1 ELSE done[i]
SlotAfter(i) == IF Received(i) THEN NoMsg ELSE slot[i]

\* What proceed returns: the operation it stops at, or the output.
Event(i) ==
    IF Position(i) = Len(script[i])
      THEN [op |-> "output", to |-> 0]
      ELSE script[i][Position(i) + 1]

\* The Result a party outputs when it comes to the event e.
Outcome(i, e) ==
    [ok |-> e.op = "output",
     val |-> Cardinality({x \in 1 .. Position(i) : script[i][x].op = "recv"})]

(***************************************************************************)
(* run.                                                                    *)
(***************************************************************************)
\* Mutants: the while loop is left when one party is left; the for loop does
\* not begin again.
LeftTooEarly(n) ==
    /\ at' = (at + 1) % N
    /\ status' = IF at + 1 = N /\ n <= 1 THEN "ok" ELSE status

NoNextPass(n) ==
    /\ at' = at + 1
    /\ status' = IF at + 1 = N /\ n = 0 THEN "ok" ELSE status

\* `continue 'next_party`, when n parties are left: after the last party the
\* while loop is left or begins again.
NextParty(n) ==
    /\ at' = (at + 1) % N
    /\ status' = IF at + 1 = N /\ n = 0 THEN "ok" ELSE status

\* The party has finished before.
SkipFinished ==
    /\ status = "running"
    /\ at \notin active
    /\ NextParty(left)
    /\ UNCHANGED <<script, done, slot, active, output, wants, left, queue,
                   nextId, sent, got>>

\* Mutants: a party that waits ends the pass over the parties; the flag of a
\* party that was given a message stays set.
PassEnded ==
    /\ status = "running"
    /\ at \in active /\ wants[at] /\ queue[at] = <<>>
    /\ at' = 0
    /\ UNCHANGED <<script, done, slot, active, output, wants, left, queue,
                   nextId, status, sent, got>>

WantsAgain ==
    /\ status = "running"
    /\ at \in active /\ wants[at] /\ queue[at] # <<>>
    /\ queue' = [queue EXCEPT ![at] = Tail(@)]
    /\ IF slot[at] = NoMsg
         THEN /\ slot' = [slot EXCEPT ![at] = Head(queue[at])]
              /\ got' = [got EXCEPT ![at] = Append(@, Head(queue[at]))]
              /\ UNCHANGED status
         ELSE /\ status' = "SaveIncomingMsg"
              /\ UNCHANGED <<slot, got>>
    /\ UNCHANGED <<script, done, active, output, wants, left, at, nextId, sent>>

\* The party waits for a message and there is none.
NoMessage ==
    /\ status = "running"
    /\ at \in active /\ wants[at] /\ queue[at] = <<>>
    /\ NextParty(left)
    /\ UNCHANGED <<script, done, slot, active, output, wants, left, queue,
                   nextId, sent, got>>

\* The party waits for a message and gets the next one of its queue.
Deliver ==
    /\ status = "running"
    /\ at \in active /\ wants[at] /\ queue[at] # <<>>
    /\ queue' = [queue EXCEPT ![at] = Tail(@)]
    /\ IF slot[at] = NoMsg
         THEN /\ slot' = [slot EXCEPT ![at] = Head(queue[at])]
              /\ got' = [got EXCEPT ![at] = Append(@, Head(queue[at]))]
              /\ wants' = [wants EXCEPT ![at] = FALSE]
              /\ UNCHANGED status
         ELSE /\ status' = "SaveIncomingMsg"
              /\ UNCHANGED <<slot, got, wants>>
    /\ UNCHANGED <<script, done, active, output, left, at, nextId, sent>>

\* proceed is called, and its result handled.
Proceed ==
    LET e == Event(at) IN
    /\ status = "running"
    /\ at \in active /\ ~ wants[at]
    /\ slot' = [slot EXCEPT ![at] = SlotAfter(at)]
    /\ \/ /\ e.op \in {"all", "one"}
          /\ SendMessage(e, at)
          /\ done' = [done EXCEPT ![at] = Position(at) + 1]
          /\ UNCHANGED <<active, output, wants, left, at>>
       \/ /\ e.op = "recv"
          /\ wants' = [wants EXCEPT ![at] = TRUE]
          /\ done' = [done EXCEPT ![at] = Position(at)]
          /\ UNCHANGED <<active, output, left, at, queue, nextId, status,
                         sent>>
       \/ /\ e.op = "yield"
          /\ done' = [done EXCEPT ![at] = Position(at) + 1]
          /\ UNCHANGED <<active, output, wants, left, at, queue, nextId,
                         status, sent>>
       \/ /\ e.op = "unknown"
          /\ status' = "ExecutionError"
          /\ done' = [done EXCEPT ![at] = Position(at)]
          /\ UNCHANGED <<active, output, wants, left, at, queue, nextId,
                         sent>>
       \/ /\ e.op \in {"output", "fail"}
          /\ active' = active \ {at}
          /\ output' = [output EXCEPT ![at] = Outcome(at, e)]
          /\ left' = left - 1
          /\ NextParty(left - 1)
          /\ done' = [done EXCEPT ![at] = Position(at)]
          /\ UNCHANGED <<wants, queue, nextId, sent>>
    /\ UNCHANGED <<script, got>>

Init ==
    /\ script \in [Parties -> Scripts]
    /\ done = [i \in Parties |-> 0]
    /\ slot = [i \in Parties |-> NoMsg]
    /\ active = Parties
    /\ output = [i \in Parties |-> NoOutput]
    /\ wants = [i \in Parties |-> FALSE]
    /\ left = N
    /\ at = 0
    /\ queue = [i \in Parties |-> <<>>]
    /\ nextId = 0
    /\ status = IF N = 0 THEN "ok" ELSE "running"
    /\ sent = <<>>
    /\ got = [i \in Parties |-> <<>>]

Next == SkipFinished \/ NoMessage \/ Deliver \/ Proceed

Spec == Init /\ [][Next]_vars

\* run is one thread: it goes on as long as it can.
FairSpec == Spec /\ WF_vars(Next)

(***************************************************************************)
(* SimResult: what a test does with the results.  An answer is the value   *)
(* returned, or a panic with what its message is made of.                  *)
(***************************************************************************)
\* The Vec of the outputs, in the order of the parties.
Results == [k \in 1 .. N |-> output[k - 1]]

Returns(v) == [panic |-> FALSE, value |-> v]
Panics(report) == [panic |-> TRUE, report |-> report]

\* expect_ok: the values, or the parties that returned an error.
ExpectOk(results) ==
    LET errs == {k \in DOMAIN results : ~ results[k].ok} IN
    IF errs # {}
      THEN Panics({k - 1 : k \in errs})
      ELSE Returns([k \in DOMAIN results |-> results[k].val])

\* The first cluster of the value v gets party i, or a new one does.
IntoCluster(clusters, v, i) ==
    IF \E c \in DOMAIN clusters : clusters[c].value = v
      THEN LET c == CHOOSE x \in DOMAIN clusters :
                      /\ clusters[x].value = v
                      /\ \A y \in 1 .. (x - 1) : clusters[y].value # v
           IN [clusters EXCEPT ![c].indexes = Append(@, i)]
      ELSE Append(clusters, [value |-> v, indexes |-> <<i>>])

\* The clusters of the first k values, for every k up to all of them.
Clusters(values) ==
    LET upTo[k \in 0 .. Len(values)] ==
            IF k = 0
              THEN <<>>
              ELSE IntoCluster(upTo[k - 1], values[k], k - 1)
    IN upTo[Len(values)]

\* Mutant: each output is compared with the one before it, the first excepted.
ComparesNeighbours(values) ==
    IF values = <<>>
      THEN Panics(<<>>)
    ELSE IF \A k \in 3 .. Len(values) : values[k] = values[k - 1]
      THEN Returns(values[Len(values)])
    ELSE Panics(Clusters(values))

\* expect_eq: the last of the values if they equal the first.
ExpectEq(values) ==
    IF values = <<>>
      THEN Panics(<<>>)
    ELSE IF \A k \in 2 .. Len(values) : values[k] = values[1]
      THEN Returns(values[Len(values)])
    ELSE Panics(Clusters(values))

-----------------------------------------------------------------------------
Messages == [id : Nat, sender : Nat, no : Nat]

\* Every variable has its type; the party whose turn it is exists.
TypeOK ==
    /\ script \in [Parties -> Scripts]
    /\ DOMAIN done = Parties
    /\ \A i \in Parties : done[i] \in 0 .. Len(script[i])
    /\ slot \in [Parties -> Messages]
    /\ active \subseteq Parties
    /\ output \in [Parties -> [ok : BOOLEAN, val : Nat]]
    /\ wants \in [Parties -> BOOLEAN]
    /\ left \in 0 .. N
    /\ at \in 0 .. N /\ (N > 0 => at < N)
    /\ queue \in [Parties -> Seq(Messages)]
    /\ nextId \in Nat
    /\ status \in {"running", "ok", "SaveIncomingMsg", "ExecutionError",
                   "UnknownRecipient"}
    /\ sent \in Seq([sender : Nat, op : Ops])
    /\ got \in [Parties -> Seq(Messages)]

(***************************************************************************)
(* Properties.                                                             *)
(***************************************************************************)
\* What party i was given and what waits for it in its queue.
Inbox(i) == got[i] \o queue[i]

\* All the messages that were sent to it, once, in the order in which they were
\* sent, and no others, in particular none of its own broadcasts.
IsWhatWasSent(i) ==
    /\ \A a, b \in DOMAIN Inbox(i) :
         a < b => Inbox(i)[a].no < Inbox(i)[b].no
    /\ \A a \in DOMAIN Inbox(i) : Inbox(i)[a].no \in DOMAIN sent
    /\ \A k \in DOMAIN sent :
         IsFor(sent[k].op, sent[k].sender, i)
           <=> \E a \in DOMAIN Inbox(i) :
                  /\ Inbox(i)[a].no = k
                  /\ Inbox(i)[a].sender = sent[k].sender

\* An id identifies one message at one recipient, in the whole simulation, and
\* is not given again.
IdsAreUnique ==
    \A i, j \in Parties :
        \A a \in DOMAIN Inbox(i), b \in DOMAIN Inbox(j) :
            /\ Inbox(i)[a].id < nextId
            /\ Inbox(i)[a].id = Inbox(j)[b].id => i = j /\ a = b

\* MessagesQueue carries messages faithfully: every party is given what was
\* sent to it, under an id of its own.
InboxFollowsSent ==
    IdsAreUnique /\ \A i \in Parties : IsWhatWasSent(i)

\* received_msg refuses no message of the simulator: a party is given one
\* only after it asked, and it has no other in its slot then.
MessagesAreSaved ==
    /\ status # "SaveIncomingMsg"
    /\ \A i \in active : wants[i] => slot[i] = NoMsg

\* run returns results only when no party is active, so that it does not run
\* into its `unreachable!`; parties_left counts the active parties.
OkMeansAllFinished ==
    /\ left = Cardinality(active)
    /\ status = "ok" => active = {}

(***************************************************************************)
(* When the protocol can be run at all.  A cut c says how many operations  *)
(* of each script are before it.  It is blocked if every party either ends *)
(* at the cut or receives there and is sent no more messages before the    *)
(* cut than it has received: no execution passes a blocked cut.            *)
(***************************************************************************)
Cuts ==
    {c \in [Parties -> UNION {0 .. Len(script[i]) : i \in Parties}] :
        \A i \in Parties : c[i] <= Len(script[i])}

ReceivedBefore(i, c) ==
    Cardinality({x \in 1 .. c[i] : script[i][x].op = "recv"})

SentBefore(i, c) ==
    Cardinality(UNION {{<<j, x>> : x \in {y \in 1 .. c[j] :
                                            IsFor(script[j][y], j, i)}} :
                       j \in Parties})

\* The protocol of party i is over at the cut.
Ends(i, c) ==
    c[i] = Len(script[i]) \/ script[i][c[i] + 1].op = "fail"

Blocked(c) ==
    /\ \E i \in Parties : ~ Ends(i, c)
    /\ \A i \in Parties :
         ~ Ends(i, c) =>
            /\ script[i][c[i] + 1].op = "recv"
            /\ SentBefore(i, c) <= ReceivedBefore(i, c)

Finishable ==
    /\ \A i \in Parties : \A x \in DOMAIN script[i] :
         /\ script[i][x].op # "unknown"
         /\ script[i][x].op = "one" => script[i][x].to \in Parties
    /\ \A c \in Cuts : ~ Blocked(c)

NothingDone == left = N /\ \A i \in Parties : done[i] = 0 /\ ~ wants[i]

\* run never claims a result of a protocol that cannot be run.
ReturnsOnlyIfPossible == status = "ok" => Finishable

\* run returns the results of all parties exactly when the protocol can be run
\* at all: the order in which it calls the parties starves none of them, and
\* it never claims a result of a protocol that cannot be run.  (For such a
\* protocol it fails or goes round for ever.)
ReturnsExactlyWhenPossible ==
    /\ (NothingDone /\ Finishable) ~> (status = "ok")
    /\ []ReturnsOnlyIfPossible

\* What a test concludes from a simulation is right: expect_ok and expect_eq
\* let it pass only if all parties have returned Ok with the same value, and
\* else the panic names the parties that failed, or each party once, together
\* with those of the same output.
VerdictIsRight ==
    status = "ok" =>
        LET oks == ExpectOk(Results)
            eq == ExpectEq(oks.value)
            clusters == eq.report
            members(c) == {clusters[c].indexes[x] :
                             x \in DOMAIN clusters[c].indexes}
        IN /\ oks.panic <=> \E i \in Parties : ~ output[i].ok
           /\ oks.panic => oks.report = {i \in Parties : ~ output[i].ok}
           /\ ~ oks.panic /\ N > 0 =>
                /\ eq.panic <=> \E i, j \in Parties : output[i] # output[j]
                /\ ~ eq.panic => \A i \in Parties : output[i].val = eq.value
                /\ eq.panic => \A c \in DOMAIN clusters :
                     /\ members(c) = {i \in Parties :
                                        output[i].val = clusters[c].value}
                     /\ Len(clusters[c].indexes) = Cardinality(members(c))
                /\ eq.panic => UNION {members(c) : c \in DOMAIN clusters}
                                  = Parties
=============================================================================
