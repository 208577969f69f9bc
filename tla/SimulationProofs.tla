-------------------------- MODULE SimulationProofs --------------------------
(***************************************************************************)
(* The simulator, for any number of parties and any scripts: it returns    *)
(* results only when every party has finished, no party refuses a message, *)
(* a party is given what was sent to it, expect_ok and expect_eq tell the  *)
(* right parties apart, run returns results only for protocols that can be *)
(* run to the end, and if a protocol can, some party can always go on.     *)
(***************************************************************************)
EXTENDS Simulation, FiniteSetTheorems, SequenceTheorems, TLAPS

\* The parties are finitely many, and whoever is one of them makes N positive.
LEMMA PartiesFinite ==
    /\ IsFiniteSet(Parties) /\ Cardinality(Parties) = N /\ N \in Nat
    /\ \A i \in Parties : i \in Nat /\ i < N /\ N > 0
<1>1. N \in Nat
  BY SimulationAssumption
<1>2. IsFiniteSet(0 .. (N - 1)) /\ Cardinality(0 .. (N - 1)) = N
  BY <1>1, FS_Interval
<1>. QED
  BY <1>1, <1>2 DEF Parties

\* The turn goes to a party.
LEMMA TurnExists ==
    ASSUME N \in Nat, N > 0, at \in 0 .. N, at < N
    PROVE  (at + 1) % N \in 0 .. (N - 1)
  OBVIOUS

\* The events of a state machine: one that is not its output is an operation of
\* its script, and the slot is empty when it asks for a message.
LEMMA EventFacts ==
    ASSUME TypeOK, NEW i \in Parties
    PROVE  /\ Position(i) \in Nat /\ Position(i) <= Len(script[i])
           /\ Len(script[i]) \in Nat
           /\ SlotAfter(i) \in Messages
           /\ Event(i).op # "output" =>
                /\ Position(i) + 1 <= Len(script[i])
                /\ Event(i) = script[i][Position(i) + 1]
                /\ Event(i) \in Ops
           /\ Event(i).op = "recv" => SlotAfter(i) = NoMsg
<1>1. /\ script[i] \in Scripts /\ script[i] \in Seq(Ops)
      /\ Len(script[i]) \in Nat /\ done[i] \in 0 .. Len(script[i])
      /\ slot[i] \in Messages
  BY SimulationAssumption DEF TypeOK
<1>2. /\ Position(i) \in Nat /\ Position(i) <= Len(script[i])
  BY <1>1 DEF Position, Received
<1>3. SlotAfter(i) \in Messages
  <2>1. NoMsg \in Messages
    BY DEF NoMsg, Messages
  <2>. QED
    BY <1>1, <2>1 DEF SlotAfter
<1>4. ASSUME Event(i).op # "output"
      PROVE  /\ Position(i) + 1 <= Len(script[i])
             /\ Event(i) = script[i][Position(i) + 1]
             /\ Event(i) \in Ops
  <2>1. Position(i) # Len(script[i])
    BY <1>4 DEF Event
  <2>2. Position(i) + 1 \in 1 .. Len(script[i])
    BY <1>1, <1>2, <2>1
  <2>3. Event(i) = script[i][Position(i) + 1]
    BY <2>1 DEF Event
  <2>. QED
    BY <1>1, <2>2, <2>3
<1>5. ASSUME Event(i).op = "recv"
      PROVE  SlotAfter(i) = NoMsg
  <2>1. CASE Received(i)
    BY <2>1 DEF SlotAfter
  <2>2. CASE ~ Received(i)
    <3>1. Position(i) = done[i] /\ SlotAfter(i) = slot[i]
      BY <2>2 DEF Position, SlotAfter
    <3>2. /\ Position(i) + 1 <= Len(script[i])
          /\ Event(i) = script[i][Position(i) + 1]
      BY <1>4, <1>5
    <3>3. done[i] < Len(script[i]) /\ script[i][done[i] + 1].op = "recv"
      BY <1>1, <1>5, <3>1, <3>2
    <3>. QED
      BY <2>2, <3>1, <3>3 DEF Received
  <2>. QED
    BY <2>1, <2>2
<1>. QED
  BY <1>1, <1>2, <1>3, <1>4, <1>5

\* What a party outputs is an output.
LEMMA OutcomeType ==
    ASSUME TypeOK, NEW i \in Parties, NEW e
    PROVE  Outcome(i, e) \in [ok : BOOLEAN, val : Nat]
<1> DEFINE S == {x \in 1 .. Position(i) : script[i][x].op = "recv"}
<1>1. Position(i) \in Nat
  BY EventFacts
<1>2. IsFiniteSet(1 .. Position(i)) /\ S \in SUBSET (1 .. Position(i))
  BY <1>1, FS_Interval
<1> HIDE DEF S
<1>3. IsFiniteSet(S)
  BY <1>2, FS_Subset
<1>4. Cardinality(S) \in Nat
  BY <1>3, FS_CardinalityType
<1>. QED
  BY <1>4 DEF Outcome, S

\* The ids of a message to several parties: the recipients before i.
Before(o, sender, i) == {j \in Parties : j < i /\ IsFor(o, sender, j)}

\* Ids are given in the order of the recipients, from the next one on, and the
\* counter is put after them.
LEMMA IdFacts ==
    ASSUME nextId \in Nat, NEW sender \in Parties, NEW o \in Ops,
           o.op \in {"all", "one"}
    PROVE  /\ NextId(o) \in Nat /\ NextId(o) >= nextId
           /\ \A i \in Parties : IdFor(o, sender, i) \in Nat
           /\ \A i \in Parties : IsFor(o, sender, i) =>
                nextId <= IdFor(o, sender, i) /\ IdFor(o, sender, i) < NextId(o)
           /\ \A i, j \in Parties :
                IsFor(o, sender, i) /\ IsFor(o, sender, j) /\ i # j =>
                    IdFor(o, sender, i) # IdFor(o, sender, j)
<1>1. /\ N \in Nat /\ N > 0 /\ IsFiniteSet(Parties) /\ Cardinality(Parties) = N
      /\ \A i \in Parties : i \in Nat
  BY PartiesFinite
<1>2. NextId(o) \in Nat /\ NextId(o) >= nextId
  BY <1>1 DEF NextId
<1>3. ASSUME NEW i \in Parties
      PROVE  /\ IsFiniteSet(Before(o, sender, i))
             /\ Cardinality(Before(o, sender, i)) \in Nat
             /\ IdFor(o, sender, i) = nextId + Cardinality(Before(o, sender, i))
  <2>1. Before(o, sender, i) \in SUBSET Parties
    BY DEF Before
  <2>2. IsFiniteSet(Before(o, sender, i))
    BY <1>1, <2>1, FS_Subset
  <2>3. Cardinality(Before(o, sender, i)) \in Nat
    BY <2>2, FS_CardinalityType
  <2>. QED
    BY <2>2, <2>3 DEF IdFor, Before
<1>4. ASSUME NEW i \in Parties, IsFor(o, sender, i)
      PROVE  nextId <= IdFor(o, sender, i) /\ IdFor(o, sender, i) < NextId(o)
  <2> DEFINE B == Before(o, sender, i)
  <2>1. CASE o.op = "all"
    <3> DEFINE R == Parties \ {sender}
    <3>1. IsFiniteSet(R) /\ Cardinality(R) = N - 1
      BY <1>1, FS_RemoveElement
    <3>2. B \in SUBSET R /\ i \in R /\ i \notin B
      BY <1>1, <1>4, <2>1 DEF Before, IsFor
    <3> HIDE DEF R, B
    <3>3. Cardinality(B) <= Cardinality(R) /\ Cardinality(B) # Cardinality(R)
      BY <3>1, <3>2, FS_Subset
    <3>. QED
      BY <1>1, <1>3, <2>1, <3>1, <3>3 DEF NextId, B
  <2>2. CASE o.op = "one"
    <3>1. B = {}
      BY <1>1, <1>4, <2>2 DEF Before, IsFor
    <3>2. Cardinality(B) = 0
      BY <3>1, FS_EmptySet
    <3>. QED
      BY <1>1, <1>3, <2>2, <3>2 DEF NextId
  <2>. QED
    BY <2>1, <2>2
<1>5. ASSUME NEW i \in Parties, NEW j \in Parties, IsFor(o, sender, i), i < j
      PROVE  IdFor(o, sender, i) < IdFor(o, sender, j)
  <2> DEFINE B == Before(o, sender, i)
             C == Before(o, sender, j)
  <2>1. IsFiniteSet(B) /\ IsFiniteSet(C)
    BY <1>3
  <2>2. B \in SUBSET C /\ i \in C /\ i \notin B
    BY <1>1, <1>5 DEF Before
  <2> HIDE DEF B, C
  <2>3. Cardinality(B) <= Cardinality(C) /\ Cardinality(B) # Cardinality(C)
    BY <2>1, <2>2, FS_Subset
  <2>. QED
    BY <1>3, <2>3 DEF B, C
<1>6. ASSUME NEW i \in Parties, NEW j \in Parties,
             IsFor(o, sender, i), IsFor(o, sender, j), i # j
      PROVE  IdFor(o, sender, i) # IdFor(o, sender, j)
  <2>1. i < j \/ j < i
    BY <1>1, <1>6
  <2>. QED
    BY <1>3, <1>5, <1>6, <2>1
<1>. QED
  BY <1>2, <1>3, <1>4, <1>6

-----------------------------------------------------------------------------
(***************************************************************************)
(* run.  The loop is entered only if there is a party.                     *)
(***************************************************************************)
SimInv ==
    /\ TypeOK
    /\ OkMeansAllFinished
    /\ MessagesAreSaved
    /\ status = "running" => N > 0

\* The next party is a party, and run returns only if none is left.
LEMMA NextPartyFacts ==
    ASSUME SimInv, status = "running", NEW n, NextParty(n)
    PROVE  /\ at' \in 0 .. N /\ (N > 0 => at' < N)
           /\ status' \in {"running", "ok"}
           /\ status' = "ok" => n = 0
<1>1. N \in Nat /\ N > 0 /\ at \in 0 .. N /\ at < N
  BY PartiesFinite DEF SimInv, TypeOK
<1>2. at' \in 0 .. (N - 1)
  BY <1>1, TurnExists DEF NextParty
<1>. QED
  BY <1>1, <1>2 DEF NextParty

\* parties_left and the parties that are active.
LEMMA LeftFacts ==
    ASSUME SimInv
    PROVE  /\ IsFiniteSet(active) /\ left \in Nat /\ N \in Nat /\ left <= N
           /\ left = Cardinality(active)
           /\ left = 0 => active = {}
           /\ \A i \in active :
                /\ left - 1 \in 0 .. N
                /\ Cardinality(active \ {i}) = left - 1
                /\ left - 1 = 0 => active \ {i} = {}
<1>1. active \in SUBSET Parties /\ left \in 0 .. N /\ left = Cardinality(active)
  BY DEF SimInv, TypeOK, OkMeansAllFinished
<1>2. IsFiniteSet(active) /\ N \in Nat
  BY <1>1, PartiesFinite, FS_Subset
<1>3. left = 0 => active = {}
  BY <1>1, <1>2, FS_EmptySet
<1>4. ASSUME NEW i \in active
      PROVE  /\ left - 1 \in 0 .. N
             /\ Cardinality(active \ {i}) = left - 1
             /\ left - 1 = 0 => active \ {i} = {}
  <2>1. IsFiniteSet(active \ {i}) /\ Cardinality(active \ {i}) = left - 1
    BY <1>1, <1>2, <1>4, FS_RemoveElement
  <2>2. left - 1 \in Nat
    BY <2>1, FS_CardinalityType
  <2>3. left - 1 = 0 => active \ {i} = {}
    BY <2>1, FS_EmptySet
  <2>. QED
    BY <1>1, <1>2, <2>1, <2>2, <2>3
<1>. QED
  BY <1>1, <1>2, <1>3, <1>4

\* A party is passed over.
LEMMA PassKeeps ==
    ASSUME SimInv, SkipFinished \/ NoMessage
    PROVE  SimInv'
<1>1. /\ status = "running" /\ NextParty(left)
      /\ UNCHANGED <<script, done, slot, active, output, wants, left, queue,
                     nextId, sent, got>>
  BY DEF SkipFinished, NoMessage
<1>2. /\ at' \in 0 .. N /\ (N > 0 => at' < N)
      /\ status' \in {"running", "ok"}
      /\ status' = "ok" => left = 0
  BY <1>1, NextPartyFacts
<1>3. TypeOK'
  BY <1>1, <1>2 DEF SimInv, TypeOK
<1>4. OkMeansAllFinished'
  BY <1>1, <1>2, LeftFacts DEF SimInv, OkMeansAllFinished
<1>5. MessagesAreSaved'
  BY <1>1, <1>2 DEF SimInv, MessagesAreSaved
<1>. QED
  BY <1>1, <1>3, <1>4, <1>5 DEF SimInv

\* The party that waits gets a message: it is not refused, and goes from the
\* queue to what was given.
LEMMA DeliverFacts ==
    ASSUME SimInv, Deliver
    PROVE  /\ at \in Parties /\ queue[at] # << >>
           /\ queue[at] \in Seq(Messages) /\ Head(queue[at]) \in Messages
           /\ queue' = [queue EXCEPT ![at] = Tail(@)]
           /\ slot' = [slot EXCEPT ![at] = Head(queue[at])]
           /\ got' = [got EXCEPT ![at] = Append(@, Head(queue[at]))]
           /\ wants' = [wants EXCEPT ![at] = FALSE]
           /\ UNCHANGED <<script, done, active, output, left, at, nextId, sent,
                          status>>
<1>1. /\ at \in active /\ wants[at] /\ queue[at] # << >>
      /\ active \subseteq Parties
  BY DEF Deliver, SimInv, TypeOK
<1>2. slot[at] = NoMsg
  BY <1>1 DEF SimInv, MessagesAreSaved
<1>3. queue[at] \in Seq(Messages)
  BY <1>1 DEF SimInv, TypeOK
<1>4. Head(queue[at]) \in Messages
  BY <1>1, <1>3
<1>. QED
  BY <1>1, <1>2, <1>3, <1>4 DEF Deliver

\* Handing over a message keeps SimInv.
LEMMA DeliverKeeps ==
    ASSUME SimInv, Deliver
    PROVE  SimInv'
<1>1. /\ at \in Parties /\ queue[at] # << >>
      /\ queue[at] \in Seq(Messages) /\ Head(queue[at]) \in Messages
      /\ queue' = [queue EXCEPT ![at] = Tail(@)]
      /\ slot' = [slot EXCEPT ![at] = Head(queue[at])]
      /\ got' = [got EXCEPT ![at] = Append(@, Head(queue[at]))]
      /\ wants' = [wants EXCEPT ![at] = FALSE]
      /\ UNCHANGED <<script, done, active, output, left, at, nextId, sent,
                     status>>
  BY DeliverFacts
<1>2. TypeOK'
  <2>1. Tail(queue[at]) \in Seq(Messages)
    BY <1>1
  <2>2. /\ queue \in [Parties -> Seq(Messages)]
        /\ slot \in [Parties -> Messages]
        /\ got \in [Parties -> Seq(Messages)]
        /\ wants \in [Parties -> BOOLEAN]
    BY DEF SimInv, TypeOK
  <2>3. got[at] \in Seq(Messages)
    BY <1>1, <2>2
  <2>4. Append(got[at], Head(queue[at])) \in Seq(Messages)
    BY <1>1, <2>3
  <2>5. /\ queue' \in [Parties -> Seq(Messages)]
        /\ slot' \in [Parties -> Messages]
        /\ got' \in [Parties -> Seq(Messages)]
        /\ wants' \in [Parties -> BOOLEAN]
    BY <1>1, <2>1, <2>2, <2>4
  <2>. QED
    BY <1>1, <2>5 DEF SimInv, TypeOK
<1>3. OkMeansAllFinished'
  BY <1>1 DEF SimInv, OkMeansAllFinished
<1>4. MessagesAreSaved'
  BY <1>1 DEF SimInv, TypeOK, MessagesAreSaved
<1>. QED
  BY <1>1, <1>2, <1>3, <1>4 DEF SimInv

\* A message goes on the queues of its recipients.
LEMMA SendFacts ==
    ASSUME TypeOK, NEW sender \in Parties, NEW o \in Ops,
           o.op \in {"all", "one"}, SendMessage(o, sender)
    PROVE  /\ queue' \in [Parties -> Seq(Messages)]
           /\ \A i \in Parties :
                queue'[i] = IF IsFor(o, sender, i)
                              THEN Append(queue[i], Msg(IdFor(o, sender, i),
                                                        sender, Len(sent) + 1))
                              ELSE queue[i]
           /\ \A i \in Parties :
                Msg(IdFor(o, sender, i), sender, Len(sent) + 1) \in Messages
           /\ sent' = Append(sent, [sender |-> sender, op |-> o])
           /\ sent' \in Seq([sender : Nat, op : Ops]) /\ Len(sent) \in Nat
           /\ nextId' = NextId(o) /\ nextId' \in Nat
           /\ status' \in {status, "UnknownRecipient"}
<1>1. /\ nextId \in Nat /\ sent \in Seq([sender : Nat, op : Ops])
      /\ queue \in [Parties -> Seq(Messages)]
      /\ Len(sent) \in Nat /\ sender \in Nat
  BY PartiesFinite DEF TypeOK
<1>2. /\ NextId(o) \in Nat /\ \A i \in Parties : IdFor(o, sender, i) \in Nat
  BY <1>1, IdFacts
<1>3. ASSUME NEW i \in Parties
      PROVE  Msg(IdFor(o, sender, i), sender, Len(sent) + 1) \in Messages
  BY <1>1, <1>2 DEF Msg, Messages
<1>4. queue' = [i \in Parties |->
                  IF IsFor(o, sender, i)
                    THEN Append(queue[i], Msg(IdFor(o, sender, i), sender,
                                              Len(sent) + 1))
                    ELSE queue[i]]
  BY DEF SendMessage, Queued
<1>5. \A i \in Parties :
          /\ queue[i] \in Seq(Messages)
          /\ Append(queue[i], Msg(IdFor(o, sender, i), sender, Len(sent) + 1))
                \in Seq(Messages)
  BY <1>1, <1>3
<1>6. queue' \in [Parties -> Seq(Messages)]
  BY <1>4, <1>5
<1>7. /\ sent' = Append(sent, [sender |-> sender, op |-> o])
      /\ sent' \in Seq([sender : Nat, op : Ops])
  BY <1>1 DEF SendMessage
<1>. QED
  BY <1>1, <1>2, <1>3, <1>4, <1>6, <1>7 DEF SendMessage

\* A call of proceed keeps SimInv, whatever it returns.
LEMMA ProceedKeeps ==
    ASSUME SimInv, Proceed
    PROVE  SimInv'
<1> DEFINE e == Event(at)
<1>1. /\ status = "running" /\ at \in active /\ ~ wants[at] /\ TypeOK
      /\ slot' = [slot EXCEPT ![at] = SlotAfter(at)]
      /\ UNCHANGED <<script, got>>
  BY DEF Proceed, SimInv
<1>2. at \in Parties /\ active \subseteq Parties
  BY <1>1 DEF TypeOK
<1>3. /\ Position(at) \in Nat /\ Position(at) <= Len(script[at])
      /\ Len(script[at]) \in Nat
      /\ SlotAfter(at) \in Messages
      /\ e.op # "output" =>
            Position(at) + 1 <= Len(script[at]) /\ e \in Ops
      /\ e.op = "recv" => SlotAfter(at) = NoMsg
  BY <1>1, <1>2, EventFacts
<1>4. /\ slot' \in [Parties -> Messages] /\ slot'[at] = SlotAfter(at)
      /\ \A i \in Parties \ {at} : slot'[i] = slot[i]
  BY <1>1, <1>2, <1>3 DEF TypeOK
<1>5. ASSUME NEW d, d \in 0 .. Len(script[at]),
             done' = [done EXCEPT ![at] = d]
      PROVE  /\ DOMAIN done' = Parties
             /\ \A i \in Parties : done'[i] \in 0 .. Len(script'[i])
  BY <1>1, <1>2, <1>5 DEF TypeOK
<1>6. /\ Position(at) \in 0 .. Len(script[at])
      /\ e.op # "output" => Position(at) + 1 \in 0 .. Len(script[at])
  BY <1>3
<1>7. /\ status # "SaveIncomingMsg"
      /\ \A i \in active : wants[i] => slot[i] = NoMsg
  BY DEF SimInv, MessagesAreSaved
<1> HIDE DEF e
\* Sending, yielding and failing leave the parties as they are.
<1>8. ASSUME UNCHANGED <<active, output, wants, left, at>>,
             queue' \in [Parties -> Seq(Messages)], nextId' \in Nat,
             sent' \in Seq([sender : Nat, op : Ops]),
             status' \in {"running", "ExecutionError", "UnknownRecipient"},
             DOMAIN done' = Parties,
             \A i \in Parties : done'[i] \in 0 .. Len(script'[i])
      PROVE  SimInv'
  <2>1. TypeOK'
    BY <1>1, <1>4, <1>8 DEF TypeOK
  <2>2. OkMeansAllFinished'
    BY <1>8 DEF SimInv, OkMeansAllFinished
  <2>3. MessagesAreSaved'
    BY <1>1, <1>2, <1>4, <1>7, <1>8 DEF MessagesAreSaved
  <2>. QED
    BY <1>1, <1>8, <2>1, <2>2, <2>3 DEF SimInv
<1>9. CASE /\ e.op \in {"all", "one"} /\ SendMessage(e, at)
           /\ done' = [done EXCEPT ![at] = Position(at) + 1]
           /\ UNCHANGED <<active, output, wants, left, at>>
  <2>1. e \in Ops
    BY <1>3, <1>9
  <2>2. /\ queue' \in [Parties -> Seq(Messages)] /\ nextId' \in Nat
        /\ sent' \in Seq([sender : Nat, op : Ops])
        /\ status' \in {status, "UnknownRecipient"}
    BY <1>1, <1>2, <1>9, <2>1, SendFacts
  <2>3. /\ DOMAIN done' = Parties
        /\ \A i \in Parties : done'[i] \in 0 .. Len(script'[i])
    BY <1>5, <1>6, <1>9
  <2>. QED
    BY <1>1, <1>8, <1>9, <2>2, <2>3
<1>10. CASE /\ e.op = "recv"
            /\ wants' = [wants EXCEPT ![at] = TRUE]
            /\ done' = [done EXCEPT ![at] = Position(at)]
            /\ UNCHANGED <<active, output, left, at, queue, nextId, status,
                           sent>>
  <2>1. /\ DOMAIN done' = Parties
        /\ \A i \in Parties : done'[i] \in 0 .. Len(script'[i])
    BY <1>5, <1>6, <1>10
  <2>2. /\ wants' \in [Parties -> BOOLEAN]
        /\ \A i \in Parties \ {at} : wants'[i] = wants[i]
    BY <1>1, <1>2, <1>10 DEF TypeOK
  <2>3. TypeOK'
    BY <1>1, <1>4, <1>10, <2>1, <2>2 DEF TypeOK
  <2>4. OkMeansAllFinished'
    BY <1>10 DEF SimInv, OkMeansAllFinished
  <2>5. MessagesAreSaved'
    BY <1>2, <1>3, <1>4, <1>7, <1>10, <2>2 DEF MessagesAreSaved
  <2>. QED
    BY <1>10, <2>3, <2>4, <2>5 DEF SimInv
<1>11. CASE /\ e.op = "yield"
            /\ done' = [done EXCEPT ![at] = Position(at) + 1]
            /\ UNCHANGED <<active, output, wants, left, at, queue, nextId,
                           status, sent>>
  <2>1. /\ DOMAIN done' = Parties
        /\ \A i \in Parties : done'[i] \in 0 .. Len(script'[i])
    BY <1>5, <1>6, <1>11
  <2>. QED
    BY <1>1, <1>8, <1>11, <2>1 DEF TypeOK
<1>12. CASE /\ e.op = "unknown"
            /\ status' = "ExecutionError"
            /\ done' = [done EXCEPT ![at] = Position(at)]
            /\ UNCHANGED <<active, output, wants, left, at, queue, nextId,
                           sent>>
  <2>1. /\ DOMAIN done' = Parties
        /\ \A i \in Parties : done'[i] \in 0 .. Len(script'[i])
    BY <1>5, <1>6, <1>12
  <2>. QED
    BY <1>1, <1>8, <1>12, <2>1 DEF TypeOK
<1>13. CASE /\ e.op \in {"output", "fail"}
            /\ active' = active \ {at}
            /\ output' = [output EXCEPT ![at] = Outcome(at, e)]
            /\ left' = left - 1
            /\ NextParty(left - 1)
            /\ done' = [done EXCEPT ![at] = Position(at)]
            /\ UNCHANGED <<wants, queue, nextId, sent>>
  <2>1. /\ DOMAIN done' = Parties
        /\ \A i \in Parties : done'[i] \in 0 .. Len(script'[i])
    BY <1>5, <1>6, <1>13
  <2>2. Outcome(at, e) \in [ok : BOOLEAN, val : Nat]
    BY <1>1, <1>2, OutcomeType
  <2>3. output' \in [Parties -> [ok : BOOLEAN, val : Nat]]
    BY <1>1, <1>2, <1>13, <2>2 DEF TypeOK
  <2>4. /\ at' \in 0 .. N /\ (N > 0 => at' < N)
        /\ status' \in {"running", "ok"}
        /\ status' = "ok" => left - 1 = 0
    BY <1>1, <1>13, NextPartyFacts
  <2>5. /\ left - 1 \in 0 .. N
        /\ Cardinality(active \ {at}) = left - 1
        /\ left - 1 = 0 => active \ {at} = {}
    BY <1>1, LeftFacts
  <2>6. TypeOK'
    BY <1>1, <1>2, <1>4, <1>13, <2>1, <2>3, <2>4, <2>5 DEF TypeOK
  <2>7. OkMeansAllFinished'
    BY <1>13, <2>4, <2>5 DEF OkMeansAllFinished
  <2>8. MessagesAreSaved'
    BY <1>2, <1>4, <1>7, <1>13, <2>4 DEF MessagesAreSaved
  <2>. QED
    BY <1>1, <2>6, <2>7, <2>8 DEF SimInv
<1>. QED
  BY <1>9, <1>10, <1>11, <1>12, <1>13 DEF Proceed, e

\* SimInv holds when run begins.
LEMMA InitSim ==
    ASSUME Init
    PROVE  SimInv
<1>1. /\ N \in Nat /\ IsFiniteSet(Parties) /\ Cardinality(Parties) = N
  BY PartiesFinite
<1>2. TypeOK
  <2>1. NoMsg \in Messages /\ NoOutput \in [ok : BOOLEAN, val : Nat]
    BY DEF NoMsg, Messages, NoOutput
  <2>2. \A i \in Parties : script[i] \in Seq(Ops) /\ Len(script[i]) \in Nat
    BY SimulationAssumption DEF Init
  <2>. QED
    BY <1>1, <2>1, <2>2 DEF Init, TypeOK
<1>3. OkMeansAllFinished
  BY <1>1, FS_EmptySet DEF Init, OkMeansAllFinished
<1>4. MessagesAreSaved
  BY DEF Init, MessagesAreSaved
<1>. QED
  BY <1>1, <1>2, <1>3, <1>4 DEF Init, SimInv

\* SimInv is inductive.
LEMMA SimInvariant == Spec => []SimInv
<1>1. SimInv /\ UNCHANGED vars => SimInv'
  BY DEF vars, SimInv, TypeOK, OkMeansAllFinished, MessagesAreSaved
<1>2. SimInv /\ [Next]_vars => SimInv'
  BY <1>1, PassKeeps, DeliverKeeps, ProceedKeeps DEF Next
<1>3. Init => SimInv
  BY InitSim
<1>. QED
  BY <1>2, <1>3, PTL DEF Spec

\* Every variable has its type, and the party whose turn it is exists.
THEOREM TypeCorrect == Spec => []TypeOK
<1>1. SimInv => TypeOK
  BY DEF SimInv
<1>. QED
  BY <1>1, SimInvariant, PTL

\* run returns results only when all parties have finished: it does not come
\* to its `unreachable!`, and parties_left counts the active parties.
THEOREM OkCorrect == Spec => []OkMeansAllFinished
<1>1. SimInv => OkMeansAllFinished
  BY DEF SimInv
<1>. QED
  BY <1>1, SimInvariant, PTL

\* No party refuses a message: received_msg is called only if the slot of the
\* party is empty.
THEOREM SavedCorrect == Spec => []MessagesAreSaved
<1>1. SimInv => MessagesAreSaved
  BY DEF SimInv
<1>. QED
  BY <1>1, SimInvariant, PTL

-----------------------------------------------------------------------------
(***************************************************************************)
(* MessagesQueue.                                                          *)
(***************************************************************************)
\* What is taken from the front of one sequence is put on the end of another.
LEMMA Moved ==
    ASSUME NEW S, NEW g \in Seq(S), NEW q \in Seq(S), q # << >>
    PROVE  Append(g, Head(q)) \o Tail(q) = g \o q
<1> DEFINE a == Append(g, Head(q))
           t == Tail(q)
<1>1. /\ Head(q) \in S /\ t \in Seq(S) /\ Len(q) \in Nat /\ Len(g) \in Nat
      /\ Len(t) = Len(q) - 1 /\ Len(q) > 0 /\ Head(q) = q[1]
      /\ \A k \in 1 .. Len(t) : t[k] = q[k + 1]
  BY HeadTailProperties, EmptySeq
<1>2. /\ a \in Seq(S) /\ Len(a) = Len(g) + 1 /\ a[Len(g) + 1] = q[1]
      /\ \A k \in 1 .. Len(g) : a[k] = g[k]
  BY <1>1
<1> HIDE DEF a, t
<1>3. /\ a \o t \in Seq(S) /\ Len(a \o t) = Len(a) + Len(t)
      /\ \A k \in 1 .. (Len(a) + Len(t)) :
            (a \o t)[k] = IF k <= Len(a) THEN a[k] ELSE t[k - Len(a)]
  BY <1>1, <1>2, ConcatProperties
<1>4. /\ g \o q \in Seq(S) /\ Len(g \o q) = Len(g) + Len(q)
      /\ \A k \in 1 .. (Len(g) + Len(q)) :
            (g \o q)[k] = IF k <= Len(g) THEN g[k] ELSE q[k - Len(g)]
  BY ConcatProperties
<1>5. Len(a \o t) = Len(g \o q)
  BY <1>1, <1>2, <1>3, <1>4
<1>6. ASSUME NEW k \in 1 .. Len(a \o t)
      PROVE  (a \o t)[k] = (g \o q)[k]
  <2>1. k \in Nat /\ k >= 1 /\ k <= Len(g) + Len(q) /\ k <= Len(a) + Len(t)
    BY <1>1, <1>2, <1>3
  <2>2. CASE k <= Len(g)
    <3>1. (a \o t)[k] = a[k] /\ a[k] = g[k]
      BY <1>1, <1>2, <1>3, <2>1, <2>2
    <3>2. (g \o q)[k] = g[k]
      BY <1>1, <1>4, <2>1, <2>2
    <3>. QED
      BY <3>1, <3>2
  <2>3. CASE k = Len(g) + 1
    <3>1. (a \o t)[k] = a[k] /\ a[k] = q[1]
      BY <1>1, <1>2, <1>3, <2>1, <2>3
    <3>2. (g \o q)[k] = q[k - Len(g)] /\ k - Len(g) = 1
      BY <1>1, <1>4, <2>1, <2>3
    <3>. QED
      BY <3>1, <3>2
  <2>4. CASE k > Len(g) + 1
    <3>1. (a \o t)[k] = t[k - Len(a)]
      BY <1>1, <1>2, <1>3, <2>1, <2>4
    <3>2. k - Len(a) \in 1 .. Len(t) /\ (k - Len(a)) + 1 = k - Len(g)
      BY <1>1, <1>2, <2>1, <2>4
    <3>3. t[k - Len(a)] = q[k - Len(g)]
      BY <1>1, <3>2
    <3>4. (g \o q)[k] = q[k - Len(g)]
      BY <1>1, <1>4, <2>1, <2>4
    <3>. QED
      BY <3>1, <3>3, <3>4
  <2>5. k <= Len(g) \/ k = Len(g) + 1 \/ k > Len(g) + 1
    BY <1>1, <2>1
  <2>. QED
    BY <2>2, <2>3, <2>4, <2>5
<1>. QED
  BY <1>3, <1>4, <1>5, <1>6, SeqEqual DEF a, t

\* What goes on the end of the second of two sequences goes on the end of both.
LEMMA Joined ==
    ASSUME NEW S, NEW g \in Seq(S), NEW q \in Seq(S), NEW m \in S
    PROVE  /\ Len(g \o Append(q, m)) = Len(g \o q) + 1
           /\ (g \o Append(q, m))[Len(g \o q) + 1] = m
           /\ \A k \in 1 .. Len(g \o q) : (g \o Append(q, m))[k] = (g \o q)[k]
<1> DEFINE a == Append(q, m)
<1>1. /\ a \in Seq(S) /\ Len(q) \in Nat /\ Len(a) = Len(q) + 1
      /\ a[Len(q) + 1] = m /\ \A k \in 1 .. Len(q) : a[k] = q[k]
      /\ Len(g) \in Nat
  OBVIOUS
<1> HIDE DEF a
<1>2. /\ Len(g \o a) = Len(g) + Len(a)
      /\ \A k \in 1 .. (Len(g) + Len(a)) :
            (g \o a)[k] = IF k <= Len(g) THEN g[k] ELSE a[k - Len(g)]
  BY <1>1, ConcatProperties
<1>3. /\ Len(g \o q) = Len(g) + Len(q)
      /\ \A k \in 1 .. (Len(g) + Len(q)) :
            (g \o q)[k] = IF k <= Len(g) THEN g[k] ELSE q[k - Len(g)]
  BY ConcatProperties
<1>4. (g \o a)[Len(g \o q) + 1] = m
  <2>1. /\ Len(g \o q) + 1 \in 1 .. (Len(g) + Len(a))
        /\ ~ (Len(g \o q) + 1 <= Len(g))
        /\ (Len(g \o q) + 1) - Len(g) = Len(q) + 1
    BY <1>1, <1>3
  <2>. QED
    BY <1>1, <1>2, <2>1
<1>5. ASSUME NEW k \in 1 .. Len(g \o q)
      PROVE  (g \o a)[k] = (g \o q)[k]
  <2>1. k \in 1 .. (Len(g) + Len(a)) /\ k \in 1 .. (Len(g) + Len(q)) /\ k \in Nat
    BY <1>1, <1>3
  <2>2. CASE k <= Len(g)
    BY <1>2, <1>3, <2>1, <2>2
  <2>3. CASE ~ (k <= Len(g))
    <3>1. k - Len(g) \in 1 .. Len(q)
      BY <1>1, <2>1, <2>3
    <3>. QED
      BY <1>1, <1>2, <1>3, <2>1, <2>3, <3>1
  <2>. QED
    BY <2>2, <2>3
<1>. QED
  BY <1>1, <1>2, <1>3, <1>4, <1>5 DEF a

\* An inbox is a sequence of messages.
LEMMA InboxTypes ==
    ASSUME TypeOK, NEW i \in Parties
    PROVE  /\ got[i] \in Seq(Messages) /\ queue[i] \in Seq(Messages)
           /\ Inbox(i) \in Seq(Messages) /\ Len(Inbox(i)) \in Nat
           /\ DOMAIN Inbox(i) = 1 .. Len(Inbox(i))
           /\ \A a \in 1 .. Len(Inbox(i)) :
                /\ Inbox(i)[a] \in Messages
                /\ Inbox(i)[a].id \in Nat /\ Inbox(i)[a].no \in Nat
<1>1. got[i] \in Seq(Messages) /\ queue[i] \in Seq(Messages)
  BY DEF TypeOK
<1>2. Inbox(i) \in Seq(Messages)
  BY <1>1, ConcatProperties DEF Inbox
<1>3. /\ Len(Inbox(i)) \in Nat /\ DOMAIN Inbox(i) = 1 .. Len(Inbox(i))
      /\ \A a \in 1 .. Len(Inbox(i)) : Inbox(i)[a] \in Messages
  BY <1>2
<1>. QED
  BY <1>1, <1>2, <1>3 DEF Messages

\* Nothing is sent and every inbox stays.
LEMMA InboxStays ==
    ASSUME InboxFollowsSent, UNCHANGED <<sent, nextId>>,
           \A i \in Parties : Inbox(i)' = Inbox(i)
    PROVE  InboxFollowsSent'
<1>1. IdsAreUnique'
  BY DEF InboxFollowsSent, IdsAreUnique
<1>2. \A i \in Parties : IsWhatWasSent(i)'
  BY DEF InboxFollowsSent, IsWhatWasSent
<1>. QED
  BY <1>1, <1>2 DEF InboxFollowsSent

\* A message that is delivered stays in the inbox.
LEMMA DeliverKeepsInbox ==
    ASSUME SimInv, InboxFollowsSent, Deliver
    PROVE  InboxFollowsSent'
<1>1. /\ at \in Parties /\ queue[at] # << >>
      /\ queue' = [queue EXCEPT ![at] = Tail(@)]
      /\ got' = [got EXCEPT ![at] = Append(@, Head(queue[at]))]
      /\ UNCHANGED <<nextId, sent>>
  BY DeliverFacts
<1>2. TypeOK
  BY DEF SimInv
<1>3. /\ queue'[at] = Tail(queue[at])
      /\ got'[at] = Append(got[at], Head(queue[at]))
      /\ \A i \in Parties \ {at} : queue'[i] = queue[i] /\ got'[i] = got[i]
  BY <1>1, <1>2 DEF TypeOK
<1>4. got[at] \in Seq(Messages) /\ queue[at] \in Seq(Messages)
  BY <1>1, <1>2, InboxTypes
<1>5. Append(got[at], Head(queue[at])) \o Tail(queue[at]) = got[at] \o queue[at]
  BY <1>1, <1>4, Moved
<1>6. ASSUME NEW i \in Parties
      PROVE  Inbox(i)' = Inbox(i)
  <2>1. CASE i = at
    <3>1. got'[i] \o queue'[i] = got[i] \o queue[i]
      BY <1>3, <1>5, <2>1
    <3>. QED
      BY <3>1 DEF Inbox
  <2>2. CASE i # at
    BY <1>3, <2>2 DEF Inbox
  <2>. QED
    BY <2>1, <2>2
<1>. QED
  BY <1>1, <1>6, InboxStays

\* A message that is sent is put at the end of the inboxes of its recipients.
LEMMA InboxGrows ==
    ASSUME TypeOK, NEW sender \in Parties, NEW o \in Ops,
           o.op \in {"all", "one"}, SendMessage(o, sender), got' = got,
           NEW i \in Parties
    PROVE  /\ IsFor(o, sender, i) =>
                /\ Len(Inbox(i)') = Len(Inbox(i)) + 1
                /\ Inbox(i)'[Len(Inbox(i)) + 1]
                     = Msg(IdFor(o, sender, i), sender, Len(sent) + 1)
                /\ \A a \in 1 .. Len(Inbox(i)) : Inbox(i)'[a] = Inbox(i)[a]
           /\ ~ IsFor(o, sender, i) => Inbox(i)' = Inbox(i)
<1> DEFINE m == Msg(IdFor(o, sender, i), sender, Len(sent) + 1)
<1>1. /\ queue'[i] = IF IsFor(o, sender, i) THEN Append(queue[i], m)
                                            ELSE queue[i]
      /\ m \in Messages
  BY SendFacts
<1>2. got[i] \in Seq(Messages) /\ queue[i] \in Seq(Messages)
  BY InboxTypes
<1> HIDE DEF m
<1>3. CASE IsFor(o, sender, i)
  <2>1. Inbox(i)' = got[i] \o Append(queue[i], m)
    BY <1>1, <1>3 DEF Inbox
  <2>2. Inbox(i) = got[i] \o queue[i]
    BY DEF Inbox
  <2> DEFINE g == got[i]
             q == queue[i]
  <2>3. /\ Len(g \o Append(q, m)) = Len(g \o q) + 1
        /\ (g \o Append(q, m))[Len(g \o q) + 1] = m
        /\ \A k \in 1 .. Len(g \o q) : (g \o Append(q, m))[k] = (g \o q)[k]
    <3>1. m \in Messages /\ g \in Seq(Messages) /\ q \in Seq(Messages)
      BY <1>1, <1>2
    <3> HIDE DEF g, q
    <3>. QED
      BY <3>1, Joined
  <2>4. /\ Len(Inbox(i)') = Len(Inbox(i)) + 1
        /\ Inbox(i)'[Len(Inbox(i)) + 1] = m
        /\ \A k \in 1 .. Len(Inbox(i)) : Inbox(i)'[k] = Inbox(i)[k]
    BY <2>1, <2>2, <2>3
  <2>. QED
    BY <1>3, <2>4 DEF m
<1>4. CASE ~ IsFor(o, sender, i)
  BY <1>1, <1>4 DEF Inbox
<1>. QED
  BY <1>3, <1>4

\* The ids that are given to the recipients are new, and differ.
LEMMA SendKeepsIds ==
    ASSUME TypeOK, IdsAreUnique, NEW sender \in Parties, NEW o \in Ops,
           o.op \in {"all", "one"}, SendMessage(o, sender), got' = got,
           TypeOK'
    PROVE  IdsAreUnique'
<1>1. nextId \in Nat /\ nextId' = NextId(o) /\ Len(sent) \in Nat
  BY SendFacts DEF TypeOK
<1>2. /\ NextId(o) \in Nat /\ NextId(o) >= nextId
      /\ \A i \in Parties : IdFor(o, sender, i) \in Nat
      /\ \A i \in Parties : IsFor(o, sender, i) =>
            nextId <= IdFor(o, sender, i) /\ IdFor(o, sender, i) < NextId(o)
      /\ \A i, j \in Parties :
            IsFor(o, sender, i) /\ IsFor(o, sender, j) /\ i # j =>
                IdFor(o, sender, i) # IdFor(o, sender, j)
  BY <1>1, IdFacts
\* An element of the new inbox is an old one, or the message.
<1>3. ASSUME NEW i \in Parties, NEW a \in DOMAIN Inbox(i)'
      PROVE  \/ /\ a \in DOMAIN Inbox(i) /\ Inbox(i)'[a] = Inbox(i)[a]
                /\ Inbox(i)[a].id \in Nat /\ Inbox(i)[a].id < nextId
             \/ /\ IsFor(o, sender, i) /\ a = Len(Inbox(i)) + 1
                /\ Inbox(i)'[a].id = IdFor(o, sender, i)
  <2>1. /\ Len(Inbox(i)) \in Nat /\ DOMAIN Inbox(i) = 1 .. Len(Inbox(i))
        /\ \A b \in 1 .. Len(Inbox(i)) : Inbox(i)[b].id \in Nat
    BY InboxTypes
  <2>2. DOMAIN Inbox(i)' = 1 .. Len(Inbox(i)')
    <3>1. Inbox(i)' \in Seq(Messages)
      <4>1. got'[i] \in Seq(Messages) /\ queue'[i] \in Seq(Messages)
        BY DEF TypeOK
      <4>. QED
        BY <4>1, ConcatProperties DEF Inbox
    <3>. QED
      BY <3>1
  <2>3. \A b \in DOMAIN Inbox(i) : Inbox(i)[b].id < nextId
    BY DEF IdsAreUnique
  <2>4. CASE IsFor(o, sender, i)
    <3>1. /\ Len(Inbox(i)') = Len(Inbox(i)) + 1
          /\ Inbox(i)'[Len(Inbox(i)) + 1]
               = Msg(IdFor(o, sender, i), sender, Len(sent) + 1)
          /\ \A b \in 1 .. Len(Inbox(i)) : Inbox(i)'[b] = Inbox(i)[b]
      BY <2>4, InboxGrows
    <3>2. a \in 1 .. Len(Inbox(i)) \/ a = Len(Inbox(i)) + 1
      BY <1>3, <2>1, <2>2, <3>1
    <3>3. Msg(IdFor(o, sender, i), sender, Len(sent) + 1).id
            = IdFor(o, sender, i)
      BY DEF Msg
    <3>. QED
      BY <2>1, <2>3, <2>4, <3>1, <3>2, <3>3
  <2>5. CASE ~ IsFor(o, sender, i)
    <3>1. Inbox(i)' = Inbox(i)
      BY <2>5, InboxGrows
    <3>. QED
      BY <1>3, <2>1, <2>3, <3>1
  <2>. QED
    BY <2>4, <2>5
<1> SUFFICES ASSUME NEW i \in Parties, NEW j \in Parties,
                    NEW a \in DOMAIN Inbox(i)', NEW b \in DOMAIN Inbox(j)'
             PROVE  /\ Inbox(i)'[a].id < nextId'
                    /\ Inbox(i)'[a].id = Inbox(j)'[b].id => i = j /\ a = b
  BY DEF IdsAreUnique
<1>4. \/ /\ a \in DOMAIN Inbox(i) /\ Inbox(i)'[a] = Inbox(i)[a]
         /\ Inbox(i)[a].id \in Nat /\ Inbox(i)[a].id < nextId
      \/ /\ IsFor(o, sender, i) /\ a = Len(Inbox(i)) + 1
         /\ Inbox(i)'[a].id = IdFor(o, sender, i)
  BY <1>3
<1>5. \/ /\ b \in DOMAIN Inbox(j) /\ Inbox(j)'[b] = Inbox(j)[b]
         /\ Inbox(j)[b].id \in Nat /\ Inbox(j)[b].id < nextId
      \/ /\ IsFor(o, sender, j) /\ b = Len(Inbox(j)) + 1
         /\ Inbox(j)'[b].id = IdFor(o, sender, j)
  BY <1>3
<1>6. Inbox(i)'[a].id < nextId'
  <2>1. CASE /\ Inbox(i)'[a] = Inbox(i)[a]
             /\ Inbox(i)[a].id \in Nat /\ Inbox(i)[a].id < nextId
    BY <1>1, <1>2, <2>1
  <2>2. CASE /\ IsFor(o, sender, i) /\ Inbox(i)'[a].id = IdFor(o, sender, i)
    BY <1>1, <1>2, <2>2
  <2>. QED
    BY <1>4, <2>1, <2>2
<1>7. ASSUME Inbox(i)'[a].id = Inbox(j)'[b].id
      PROVE  i = j /\ a = b
  <2>1. CASE /\ a \in DOMAIN Inbox(i) /\ Inbox(i)'[a] = Inbox(i)[a]
             /\ b \in DOMAIN Inbox(j) /\ Inbox(j)'[b] = Inbox(j)[b]
    BY <1>7, <2>1 DEF IdsAreUnique
  <2>2. CASE /\ IsFor(o, sender, i) /\ a = Len(Inbox(i)) + 1
             /\ Inbox(i)'[a].id = IdFor(o, sender, i)
             /\ IsFor(o, sender, j) /\ b = Len(Inbox(j)) + 1
             /\ Inbox(j)'[b].id = IdFor(o, sender, j)
    BY <1>2, <1>7, <2>2
  <2>3. CASE /\ Inbox(i)'[a] = Inbox(i)[a]
             /\ Inbox(i)[a].id \in Nat /\ Inbox(i)[a].id < nextId
             /\ IsFor(o, sender, j)
             /\ Inbox(j)'[b].id = IdFor(o, sender, j)
    BY <1>1, <1>2, <1>7, <2>3
  <2>4. CASE /\ Inbox(j)'[b] = Inbox(j)[b]
             /\ Inbox(j)[b].id \in Nat /\ Inbox(j)[b].id < nextId
             /\ IsFor(o, sender, i)
             /\ Inbox(i)'[a].id = IdFor(o, sender, i)
    BY <1>1, <1>2, <1>7, <2>4
  <2>. QED
    BY <1>4, <1>5, <2>1, <2>2, <2>3, <2>4
<1>. QED
  BY <1>6, <1>7

\* The message comes last in the inboxes of its recipients, and in no other.
LEMMA SendKeepsOrder ==
    ASSUME TypeOK, NEW sender \in Parties, NEW o \in Ops,
           o.op \in {"all", "one"}, SendMessage(o, sender), got' = got,
           TypeOK', NEW i \in Parties, IsWhatWasSent(i)
    PROVE  IsWhatWasSent(i)'
<1> DEFINE n == Len(sent)
           x == Inbox(i)
           L == Len(x)
<1>1. /\ n \in Nat /\ DOMAIN sent = 1 .. n
      /\ Len(sent') = n + 1 /\ DOMAIN sent' = 1 .. (n + 1)
      /\ \A k \in 1 .. n : sent'[k] = sent[k]
      /\ sent'[n + 1] = [sender |-> sender, op |-> o]
  <2>1. /\ sent \in Seq([sender : Nat, op : Ops])
        /\ sent' = Append(sent, [sender |-> sender, op |-> o])
        /\ [sender |-> sender, op |-> o] \in [sender : Nat, op : Ops]
    BY SendFacts, PartiesFinite DEF TypeOK
  <2>. QED
    BY <2>1
<1>2. /\ L \in Nat /\ DOMAIN x = 1 .. L
      /\ \A a \in 1 .. L : x[a].no \in Nat
  BY InboxTypes
<1>3. DOMAIN x' = 1 .. Len(x')
  <2>1. got'[i] \in Seq(Messages) /\ queue'[i] \in Seq(Messages)
    BY DEF TypeOK
  <2>2. x' \in Seq(Messages)
    BY <2>1, ConcatProperties DEF Inbox
  <2>. QED
    BY <2>2
<1>4. /\ \A a, b \in 1 .. L : a < b => x[a].no < x[b].no
      /\ \A a \in 1 .. L : x[a].no \in 1 .. n
      /\ \A k \in 1 .. n :
            IsFor(sent[k].op, sent[k].sender, i)
              <=> \E a \in 1 .. L : x[a].no = k /\ x[a].sender = sent[k].sender
  BY <1>1, <1>2 DEF IsWhatWasSent
<1>5. IsFor(sent'[n + 1].op, sent'[n + 1].sender, i) <=> IsFor(o, sender, i)
  BY <1>1
<1>6. \A k \in 1 .. (n + 1) : k \in 1 .. n \/ k = n + 1
  BY <1>1
<1>7. CASE ~ IsFor(o, sender, i)
  <2>1. x' = x
    BY <1>7, InboxGrows
  <2>2. \A a \in 1 .. L : x[a].no # n + 1 /\ x[a].no \in 1 .. (n + 1)
    BY <1>1, <1>4
  <2>3. \A k \in 1 .. (n + 1) :
            IsFor(sent'[k].op, sent'[k].sender, i)
              <=> \E a \in 1 .. L : x[a].no = k /\ x[a].sender = sent'[k].sender
    BY <1>1, <1>4, <1>5, <1>6, <1>7, <2>2
  <2> HIDE DEF x, L, n
  <2>4. /\ \A a, b \in DOMAIN x' : a < b => x'[a].no < x'[b].no
        /\ \A a \in DOMAIN x' : x'[a].no \in DOMAIN sent'
        /\ \A k \in DOMAIN sent' :
             IsFor(sent'[k].op, sent'[k].sender, i)
               <=> \E a \in DOMAIN x' :
                      x'[a].no = k /\ x'[a].sender = sent'[k].sender
    <3>1. DOMAIN x' = 1 .. L /\ DOMAIN sent' = 1 .. (n + 1)
      BY <1>1, <1>2, <2>1
    <3>2. \A a, b \in DOMAIN x' : a < b => x'[a].no < x'[b].no
      BY <1>4, <2>1, <3>1
    <3>3. \A a \in DOMAIN x' : x'[a].no \in DOMAIN sent'
      BY <2>1, <2>2, <3>1
    <3>4. \A k \in DOMAIN sent' :
            IsFor(sent'[k].op, sent'[k].sender, i)
              <=> \E a \in DOMAIN x' :
                     x'[a].no = k /\ x'[a].sender = sent'[k].sender
      BY <2>1, <2>3, <3>1
    <3>. QED
      BY <3>2, <3>3, <3>4
  <2>. QED
    BY <2>4 DEF IsWhatWasSent, x
<1>8. CASE IsFor(o, sender, i)
  <2>1. /\ Len(x') = L + 1
        /\ x'[L + 1] = Msg(IdFor(o, sender, i), sender, n + 1)
        /\ \A a \in 1 .. L : x'[a] = x[a]
    BY <1>8, InboxGrows
  <2>2. x'[L + 1].no = n + 1 /\ x'[L + 1].sender = sender
    BY <2>1 DEF Msg
  <2> HIDE DEF x, L, n
  <2>3. \A a \in 1 .. (L + 1) : a \in 1 .. L \/ a = L + 1
    BY <1>2
  <2>4. \A a, b \in 1 .. (L + 1) : a < b => x'[a].no < x'[b].no
    <3> SUFFICES ASSUME NEW a \in 1 .. (L + 1), NEW b \in 1 .. (L + 1), a < b
                 PROVE  x'[a].no < x'[b].no
      OBVIOUS
    <3>1. a \in 1 .. L
      BY <1>2
    <3>2. CASE b \in 1 .. L
      BY <1>4, <2>1, <3>1, <3>2
    <3>3. CASE b = L + 1
      <4>1. x'[a].no \in 1 .. n
        BY <1>4, <2>1, <3>1
      <4>. QED
        BY <1>1, <2>2, <3>3, <4>1
    <3>. QED
      BY <2>3, <3>2, <3>3
  <2>5. \A a \in 1 .. (L + 1) : x'[a].no \in 1 .. (n + 1)
    <3>1. \A a \in 1 .. L : x'[a].no \in 1 .. (n + 1)
      BY <1>1, <1>4, <2>1
    <3>2. n + 1 \in 1 .. (n + 1)
      BY <1>1
    <3>. QED
      BY <2>2, <2>3, <3>1, <3>2
  <2>6. \A k \in 1 .. (n + 1) :
            IsFor(sent'[k].op, sent'[k].sender, i)
              <=> \E a \in 1 .. (L + 1) :
                     x'[a].no = k /\ x'[a].sender = sent'[k].sender
    <3> SUFFICES ASSUME NEW k \in 1 .. (n + 1)
                 PROVE  IsFor(sent'[k].op, sent'[k].sender, i)
                          <=> \E a \in 1 .. (L + 1) :
                                /\ x'[a].no = k
                                /\ x'[a].sender = sent'[k].sender
      OBVIOUS
    <3>1. CASE k = n + 1
      <4>1. L + 1 \in 1 .. (L + 1)
        BY <1>2
      <4>2. sent'[k].sender = sender
        BY <1>1, <3>1
      <4>. QED
        BY <1>5, <1>8, <2>2, <3>1, <4>1, <4>2
    <3>2. CASE k \in 1 .. n
      <4>1. k # n + 1 /\ sent'[k] = sent[k]
        BY <1>1, <3>2
      <4>2. \A a \in 1 .. L : a \in 1 .. (L + 1)
        BY <1>2
      <4>3. (\E a \in 1 .. (L + 1) :
                x'[a].no = k /\ x'[a].sender = sent[k].sender)
              <=> \E a \in 1 .. L :
                    x[a].no = k /\ x[a].sender = sent[k].sender
        BY <2>1, <2>2, <2>3, <4>1, <4>2
      <4>. QED
        BY <1>4, <3>2, <4>1, <4>3
    <3>. QED
      BY <1>6, <3>1, <3>2
  <2>7. /\ \A a, b \in DOMAIN x' : a < b => x'[a].no < x'[b].no
        /\ \A a \in DOMAIN x' : x'[a].no \in DOMAIN sent'
        /\ \A k \in DOMAIN sent' :
             IsFor(sent'[k].op, sent'[k].sender, i)
               <=> \E a \in DOMAIN x' :
                      x'[a].no = k /\ x'[a].sender = sent'[k].sender
    BY <1>1, <1>3, <2>1, <2>4, <2>5, <2>6
  <2>. QED
    BY <2>7 DEF IsWhatWasSent, x
<1>. QED
  BY <1>7, <1>8

\* Only the operations that send touch the queues in a call of proceed.
LEMMA ProceedKeepsInbox ==
    ASSUME SimInv, InboxFollowsSent, Proceed, SimInv'
    PROVE  InboxFollowsSent'
<1> DEFINE e == Event(at)
<1>1. TypeOK /\ TypeOK' /\ at \in Parties /\ got' = got
  BY DEF SimInv, TypeOK, Proceed
<1>2. CASE e.op \in {"all", "one"} /\ SendMessage(e, at)
  <2>1. e \in Ops
    BY <1>1, <1>2, EventFacts
  <2> HIDE DEF e
  <2>2. IdsAreUnique'
    BY <1>1, <1>2, <2>1, SendKeepsIds DEF InboxFollowsSent
  <2>3. \A i \in Parties : IsWhatWasSent(i)'
    BY <1>1, <1>2, <2>1, SendKeepsOrder DEF InboxFollowsSent
  <2>. QED
    BY <2>2, <2>3 DEF InboxFollowsSent
<1>3. CASE UNCHANGED <<queue, nextId, sent>>
  <2>1. \A i \in Parties : Inbox(i)' = Inbox(i)
    BY <1>1, <1>3 DEF Inbox
  <2>. QED
    BY <1>3, <2>1, InboxStays
<1>. QED
  BY <1>2, <1>3 DEF Proceed

\* MessagesQueue gives every party what was sent to it and nothing else, once
\* and in order, under ids that are unique in the simulation.
THEOREM InboxCorrect == Spec => []InboxFollowsSent
<1>1. Init => InboxFollowsSent
  <2> SUFFICES ASSUME Init
               PROVE  InboxFollowsSent
    OBVIOUS
  <2>1. \A i \in Parties : Inbox(i) = << >> /\ DOMAIN Inbox(i) = {}
    <3>1. << >> \o << >> = << >> /\ DOMAIN << >> = {}
      <4>1. << >> \in Seq(Messages)
        BY EmptySeq
      <4>. QED
        BY <4>1, ConcatEmptySeq
    <3>2. \A i \in Parties : got[i] = << >> /\ queue[i] = << >>
      BY DEF Init
    <3>. QED
      BY <3>1, <3>2 DEF Inbox
  <2>2. DOMAIN sent = {}
    BY DEF Init
  <2>. QED
    BY <2>1, <2>2 DEF InboxFollowsSent, IdsAreUnique, IsWhatWasSent
<1>2. SimInv /\ SimInv' /\ InboxFollowsSent /\ [Next]_vars => InboxFollowsSent'
  <2> SUFFICES ASSUME SimInv, SimInv', InboxFollowsSent, [Next]_vars
               PROVE  InboxFollowsSent'
    OBVIOUS
  <2>1. CASE UNCHANGED <<queue, got, nextId, sent>>
    <3>1. \A i \in Parties : Inbox(i)' = Inbox(i)
      BY <2>1 DEF Inbox
    <3>. QED
      BY <2>1, <3>1, InboxStays
  <2>2. CASE SkipFinished \/ NoMessage \/ UNCHANGED vars
    BY <2>1, <2>2 DEF SkipFinished, NoMessage, vars
  <2>3. CASE Deliver
    BY <2>3, DeliverKeepsInbox
  <2>4. CASE Proceed
    BY <2>4, ProceedKeepsInbox
  <2>. QED
    BY <2>2, <2>3, <2>4 DEF Next
<1>. QED
  BY <1>1, <1>2, SimInvariant, PTL DEF Spec

-----------------------------------------------------------------------------
(***************************************************************************)
(* Induction.  The library's induction theorems have an operator as a      *)
(* parameter; here a property is the set of the numbers that have it.      *)
(***************************************************************************)
\* Naturals are well-ordered: what induction on a number comes down to.
LEMMA LeastElement ==
    ASSUME NEW T \in SUBSET Nat, T # {}
    PROVE  \E x \in T : \A y \in T : x <= y
<1> DEFINE less == {ss \in Nat \X Nat : ss[1] < ss[2]}
<1>1. IsWellFoundedOn(less, Nat)
  BY NatLessThanWellFounded DEF OpToRel
<1>2. \A x, y \in T : x < y => <<x, y>> \in less
  OBVIOUS
<1> HIDE DEF less
<1>3. PICK x \in T : \A y \in T : ~ (<<y, x>> \in less)
  BY <1>1, WFMin
<1>4. ASSUME NEW y \in T
      PROVE  x <= y
  <2>1. x \in Nat /\ y \in Nat
    OBVIOUS
  <2>2. ~ (y < x)
    BY <1>2, <1>3
  <2>. QED
    BY <2>1, <2>2
<1>. QED
  BY <1>4

\* Induction on the naturals, for a property given as the set of the numbers
\* that have it.
LEMMA InductionOnSet ==
    ASSUME NEW G, 0 \in G, \A k \in Nat : k \in G => k + 1 \in G
    PROVE  \A k \in Nat : k \in G
<1> SUFFICES ASSUME NEW k \in Nat, k \notin G
             PROVE  FALSE
  OBVIOUS
<1> DEFINE T == {n \in Nat : n \notin G}
<1>1. T \in SUBSET Nat /\ T # {}
  OBVIOUS
<1>2. PICK x \in T : \A y \in T : x <= y
  <2> HIDE DEF T
  <2>. QED
    BY <1>1, LeastElement
<1>3. x \in Nat /\ x \notin G /\ x # 0
  OBVIOUS
<1>4. x - 1 \in Nat /\ x - 1 \notin T
  BY <1>2, <1>3
<1>5. x - 1 \in G
  BY <1>4
<1>6. (x - 1) + 1 \in G
  BY <1>4, <1>5
<1>. QED
  BY <1>3, <1>6

-----------------------------------------------------------------------------
(***************************************************************************)
(* The clusters of expect_eq.                                              *)
(***************************************************************************)
\* The equation of the recursive function, over the first n values.
AreClusters(values, n, g) ==
    g = [k \in 0 .. n |-> IF k = 0
                            THEN << >>
                            ELSE IntoCluster(g[k - 1], values[k], k - 1)]

\* The recursion is well founded: some function satisfies its equation.
LEMMA ClustersExist ==
    ASSUME NEW values
    PROVE  \A n \in Nat : \E g : AreClusters(values, n, g)
<1> DEFINE G == {n \in Nat : \E g : AreClusters(values, n, g)}
<1>1. 0 \in G
  <2> DEFINE g == [k \in 0 .. 0 |-> << >>]
  <2>1. AreClusters(values, 0, g)
    BY DEF AreClusters
  <2>. QED
    BY <2>1
<1>2. ASSUME NEW n \in Nat, n \in G
      PROVE  n + 1 \in G
  <2>1. PICK g : AreClusters(values, n, g)
    BY <1>2
  <2> DEFINE h == [k \in 0 .. (n + 1) |->
                     IF k = n + 1 THEN IntoCluster(g[n], values[n + 1], n)
                                  ELSE g[k]]
  <2>2. \A k \in 0 .. n : /\ h[k] = g[k]
                          /\ k = 0 => g[k] = << >>
                          /\ k # 0 => g[k] = IntoCluster(g[k - 1], values[k],
                                                         k - 1)
    BY <2>1 DEF AreClusters
  <2>3. h[n + 1] = IntoCluster(h[n], values[n + 1], n)
    <3>1. n \in 0 .. n /\ n + 1 \in 0 .. (n + 1)
      OBVIOUS
    <3>. QED
      BY <2>2, <3>1
  <2>4. ASSUME NEW k \in 0 .. (n + 1)
        PROVE  h[k] = IF k = 0 THEN << >>
                               ELSE IntoCluster(h[k - 1], values[k], k - 1)
    <3> HIDE DEF h
    <3>1. CASE k = n + 1
      <4>1. k # 0 /\ k - 1 = n
        BY <3>1
      <4>. QED
        BY <2>3, <3>1, <4>1
    <3>2. CASE k = 0
      BY <2>2, <3>2
    <3>3. CASE k # 0 /\ k # n + 1
      <4>1. k \in 0 .. n /\ k - 1 \in 0 .. n
        BY <3>3
      <4>. QED
        BY <2>2, <3>3, <4>1
    <3>. QED
      BY <3>1, <3>2, <3>3
  <2>5. h = [k \in 0 .. (n + 1) |->
               IF k = 0 THEN << >>
                        ELSE IntoCluster(h[k - 1], values[k], k - 1)]
    <3>1. h = [k \in 0 .. (n + 1) |-> h[k]]
      OBVIOUS
    <3> HIDE DEF h
    <3>. QED
      BY <2>4, <3>1
  <2>6. AreClusters(values, n + 1, h)
    <3> HIDE DEF h
    <3>. QED
      BY <2>5 DEF AreClusters
  <2>. QED
    BY <2>6
<1> HIDE DEF G
<1>3. \A n \in Nat : n \in G
  BY <1>1, <1>2, InductionOnSet
<1>. QED
  BY <1>3 DEF G

\* What Clusters unfolds to: the clusters of no value, and of one more.
LEMMA ClustersFacts ==
    ASSUME NEW values, Len(values) \in Nat
    PROVE  \E g : /\ g[0] = << >>
                  /\ \A k \in 1 .. Len(values) :
                       g[k] = IntoCluster(g[k - 1], values[k], k - 1)
                  /\ Clusters(values) = g[Len(values)]
<1> DEFINE g == CHOOSE f : AreClusters(values, Len(values), f)
<1>1. Clusters(values) = g[Len(values)]
  BY DEF Clusters, AreClusters
<1>2. AreClusters(values, Len(values), g)
  <2>1. \E f : AreClusters(values, Len(values), f)
    BY ClustersExist
  <2>. QED
    BY <2>1
<1> HIDE DEF g
<1>3. \A k \in 0 .. Len(values) :
        g[k] = IF k = 0 THEN << >>
                        ELSE IntoCluster(g[k - 1], values[k], k - 1)
  BY <1>2 DEF AreClusters
<1>4. g[0] = << >> /\ \A k \in 1 .. Len(values) :
                         g[k] = IntoCluster(g[k - 1], values[k], k - 1)
  BY <1>3
<1>. QED
  BY <1>1, <1>4

Cluster == [value : Nat, indexes : Seq(Nat)]

\* cl are the clusters of the first k values: a party of a cluster is one of the
\* first k and has its value, a cluster has a party once, different clusters
\* have different values, and every party is in one.
Groups(values, k, cl) ==
    /\ cl \in Seq(Cluster)
    /\ \A c \in DOMAIN cl : \A x \in DOMAIN cl[c].indexes :
         /\ cl[c].indexes[x] < k
         /\ values[cl[c].indexes[x] + 1] = cl[c].value
    /\ \A c \in DOMAIN cl : \A x, y \in DOMAIN cl[c].indexes :
         x # y => cl[c].indexes[x] # cl[c].indexes[y]
    /\ \A c, d \in DOMAIN cl : c # d => cl[c].value # cl[d].value
    /\ \A i \in Nat : i < k =>
         \E c \in DOMAIN cl : \E x \in DOMAIN cl[c].indexes :
            cl[c].indexes[x] = i

\* A party is put in the cluster of its value.
LEMMA JoinsCluster ==
    ASSUME NEW values, NEW k \in Nat, NEW cl, Groups(values, k, cl),
           NEW c \in DOMAIN cl, cl[c].value = values[k + 1]
    PROVE  Groups(values, k + 1, [cl EXCEPT ![c].indexes = Append(@, k)])
<1> DEFINE s == cl[c].indexes
           new == [cl EXCEPT ![c].indexes = Append(@, k)]
<1>1. /\ cl \in Seq(Cluster) /\ DOMAIN cl = 1 .. Len(cl) /\ Len(cl) \in Nat
      /\ \A d \in DOMAIN cl : cl[d] \in Cluster
  BY DEF Groups
<1>2. s \in Seq(Nat) /\ Len(s) \in Nat /\ DOMAIN s = 1 .. Len(s)
  BY <1>1 DEF Cluster
<1>3. /\ Append(s, k) \in Seq(Nat)
      /\ DOMAIN Append(s, k) = 1 .. (Len(s) + 1)
      /\ \A x \in 1 .. Len(s) : Append(s, k)[x] = s[x]
      /\ Append(s, k)[Len(s) + 1] = k
  BY <1>2
<1>4. /\ new[c].indexes = Append(s, k) /\ new[c].value = cl[c].value
      /\ new[c] \in Cluster /\ DOMAIN new = DOMAIN cl
      /\ \A d \in DOMAIN cl : d # c => new[d] = cl[d]
  BY <1>1, <1>3 DEF Cluster
<1>5. new \in Seq(Cluster)
  BY <1>1, <1>4
<1> HIDE DEF new, s
<1>6. ASSUME NEW d \in DOMAIN new, NEW x \in DOMAIN new[d].indexes
      PROVE  /\ new[d].indexes[x] < k + 1
             /\ values[new[d].indexes[x] + 1] = new[d].value
  <2>1. CASE d # c
    <3>1. cl[d].indexes[x] < k /\ values[cl[d].indexes[x] + 1] = cl[d].value
      BY <1>4, <2>1 DEF Groups
    <3>2. cl[d].indexes[x] \in Nat
      <4>1. cl[d].indexes \in Seq(Nat) /\ x \in DOMAIN cl[d].indexes
        BY <1>1, <1>4, <2>1 DEF Cluster
      <4>. QED
        BY <4>1
    <3>. QED
      BY <1>4, <2>1, <3>1, <3>2
  <2>2. CASE d = c /\ x = Len(s) + 1
    BY <1>3, <1>4, <2>2
  <2>3. CASE d = c /\ x \in 1 .. Len(s)
    <3>1. s[x] < k /\ values[s[x] + 1] = cl[c].value
      BY <1>2, <2>3 DEF Groups, s
    <3>2. s[x] \in Nat
      BY <1>2, <2>3
    <3>. QED
      BY <1>3, <1>4, <2>3, <3>1, <3>2
  <2>4. d = c => x \in 1 .. Len(s) \/ x = Len(s) + 1
    BY <1>2, <1>3, <1>4
  <2>. QED
    BY <2>1, <2>2, <2>3, <2>4
<1>7. ASSUME NEW d \in DOMAIN new, NEW x \in DOMAIN new[d].indexes,
             NEW y \in DOMAIN new[d].indexes, x # y
      PROVE  new[d].indexes[x] # new[d].indexes[y]
  <2>1. CASE d # c
    BY <1>4, <1>7, <2>1 DEF Groups
  <2>2. CASE d = c
    <3>1. \A a \in 1 .. Len(s) : s[a] < k /\ s[a] \in Nat
      <4>1. \A a \in DOMAIN s : s[a] < k
        BY DEF Groups, s
      <4>. QED
        BY <1>2, <4>1
    <3>2. \A a, b \in 1 .. Len(s) : a # b => s[a] # s[b]
      <4>1. \A a, b \in DOMAIN s : a # b => s[a] # s[b]
        BY Zenon DEF Groups, s
      <4>. QED
        BY <1>2, <4>1
    <3>3. \A a \in 1 .. (Len(s) + 1) : a \in 1 .. Len(s) \/ a = Len(s) + 1
      BY <1>2
    <3>4. \A a \in 1 .. Len(s) : s[a] # k
      BY <3>1
    <3>5. x \in 1 .. (Len(s) + 1) /\ y \in 1 .. (Len(s) + 1)
      BY <1>3, <1>4, <2>2
    <3>. QED
      BY <1>3, <1>4, <1>7, <2>2, <3>2, <3>3, <3>4, <3>5
  <2>. QED
    BY <2>1, <2>2
<1>8. \A d, e \in DOMAIN new : d # e => new[d].value # new[e].value
  <2>1. \A d \in DOMAIN new : new[d].value = cl[d].value
    BY <1>4
  <2>. QED
    BY <1>4, <2>1 DEF Groups
<1>9. ASSUME NEW i \in Nat, i < k + 1
      PROVE  \E d \in DOMAIN new : \E x \in DOMAIN new[d].indexes :
                new[d].indexes[x] = i
  <2>1. CASE i = k
    <3>1. Len(s) + 1 \in DOMAIN new[c].indexes
      BY <1>2, <1>3, <1>4
    <3>. QED
      BY <1>3, <1>4, <2>1, <3>1
  <2>2. CASE i < k
    <3>1. PICK d \in DOMAIN cl : \E x \in DOMAIN cl[d].indexes :
                                   cl[d].indexes[x] = i
      BY <2>2 DEF Groups
    <3>2. PICK x \in DOMAIN cl[d].indexes : cl[d].indexes[x] = i
      BY <3>1
    <3>3. x \in DOMAIN new[d].indexes /\ new[d].indexes[x] = i
      <4>1. CASE d = c
        <5>1. x \in 1 .. Len(s) /\ s[x] = i
          BY <1>2, <3>2, <4>1 DEF s
        <5>2. x \in 1 .. (Len(s) + 1)
          BY <1>2, <5>1
        <5>. QED
          BY <1>3, <1>4, <4>1, <5>1, <5>2
      <4>2. CASE d # c
        BY <1>4, <3>2, <4>2
      <4>. QED
        BY <4>1, <4>2
    <3>. QED
      BY <1>4, <3>3
  <2>. QED
    BY <1>9, <2>1, <2>2
<1>10. Groups(values, k + 1, new)
  BY <1>5, <1>6, <1>7, <1>8, <1>9 DEF Groups
<1>. QED
  BY <1>10 DEF new

\* A party whose value is new gets a cluster of its own.
LEMMA OpensCluster ==
    ASSUME NEW values, NEW k \in Nat, NEW cl, Groups(values, k, cl),
           values[k + 1] \in Nat,
           \A c \in DOMAIN cl : cl[c].value # values[k + 1]
    PROVE  Groups(values, k + 1,
                  Append(cl, [value |-> values[k + 1], indexes |-> <<k>>]))
<1> DEFINE r == [value |-> values[k + 1], indexes |-> <<k>>]
           new == Append(cl, r)
           L == Len(cl)
<1>1. /\ cl \in Seq(Cluster) /\ DOMAIN cl = 1 .. L /\ L \in Nat
      /\ \A d \in 1 .. L : cl[d] \in Cluster
  BY DEF Groups
<1>2. /\ r \in Cluster /\ r.value = values[k + 1]
      /\ DOMAIN r.indexes = {1} /\ r.indexes[1] = k
  BY DEF Cluster
<1> HIDE DEF r
<1>3. /\ new \in Seq(Cluster) /\ DOMAIN new = 1 .. (L + 1)
      /\ \A d \in 1 .. L : new[d] = cl[d]
      /\ new[L + 1] = r
  BY <1>1, <1>2
<1> HIDE DEF new, L
<1>4. \A d \in 1 .. (L + 1) : d \in 1 .. L \/ d = L + 1
  BY <1>1
<1>5. ASSUME NEW d \in DOMAIN new, NEW x \in DOMAIN new[d].indexes
      PROVE  /\ new[d].indexes[x] < k + 1
             /\ values[new[d].indexes[x] + 1] = new[d].value
  <2>1. CASE d \in 1 .. L
    <3>1. cl[d].indexes[x] < k /\ values[cl[d].indexes[x] + 1] = cl[d].value
      BY <1>1, <1>3, <2>1 DEF Groups
    <3>2. cl[d].indexes[x] \in Nat
      <4>1. cl[d].indexes \in Seq(Nat) /\ x \in DOMAIN cl[d].indexes
        BY <1>1, <1>3, <2>1 DEF Cluster
      <4>. QED
        BY <4>1
    <3>. QED
      BY <1>3, <2>1, <3>1, <3>2
  <2>2. CASE d = L + 1
    BY <1>2, <1>3, <2>2
  <2>. QED
    BY <1>3, <1>4, <2>1, <2>2
<1>6. ASSUME NEW d \in DOMAIN new, NEW x \in DOMAIN new[d].indexes,
             NEW y \in DOMAIN new[d].indexes, x # y
      PROVE  new[d].indexes[x] # new[d].indexes[y]
  <2>1. CASE d \in 1 .. L
    BY <1>1, <1>3, <1>6, <2>1 DEF Groups
  <2>2. CASE d = L + 1
    BY <1>2, <1>3, <1>6, <2>2
  <2>. QED
    BY <1>3, <1>4, <2>1, <2>2
<1>7. ASSUME NEW d \in DOMAIN new, NEW e \in DOMAIN new, d # e
      PROVE  new[d].value # new[e].value
  <2>1. \A a \in 1 .. L : cl[a].value # r.value
    BY <1>1, <1>2
  <2>2. \A a, b \in 1 .. L : a # b => cl[a].value # cl[b].value
    BY <1>1 DEF Groups
  <2>. QED
    BY <1>3, <1>4, <1>7, <2>1, <2>2
<1>8. ASSUME NEW i \in Nat, i < k + 1
      PROVE  \E d \in DOMAIN new : \E x \in DOMAIN new[d].indexes :
                new[d].indexes[x] = i
  <2>1. CASE i = k
    <3>1. L + 1 \in DOMAIN new
      BY <1>1, <1>3
    <3>. QED
      BY <1>2, <1>3, <2>1, <3>1
  <2>2. CASE i < k
    <3>1. PICK d \in DOMAIN cl : \E x \in DOMAIN cl[d].indexes :
                                   cl[d].indexes[x] = i
      BY <2>2 DEF Groups
    <3>2. d \in DOMAIN new /\ new[d] = cl[d]
      BY <1>1, <1>3
    <3>. QED
      BY <3>1, <3>2
  <2>. QED
    BY <1>8, <2>1, <2>2
<1>9. Groups(values, k + 1, new)
  BY <1>3, <1>5, <1>6, <1>7, <1>8 DEF Groups
<1>. QED
  BY <1>9 DEF new, r

\* The loop over the values groups the parties by their values.
LEMMA ClustersGroup ==
    ASSUME NEW values \in Seq(Nat)
    PROVE  Groups(values, Len(values), Clusters(values))
<1>1. Len(values) \in Nat /\ \A k \in 1 .. Len(values) : values[k] \in Nat
  OBVIOUS
<1>2. PICK g : /\ g[0] = << >>
               /\ \A k \in 1 .. Len(values) :
                    g[k] = IntoCluster(g[k - 1], values[k], k - 1)
               /\ Clusters(values) = g[Len(values)]
  BY <1>1, ClustersFacts
<1> DEFINE G == {k \in Nat : k <= Len(values) => Groups(values, k, g[k])}
<1>3. 0 \in G
  <2>1. << >> \in Seq(Cluster) /\ DOMAIN << >> = {}
    OBVIOUS
  <2>2. \A i \in Nat : ~ (i < 0)
    OBVIOUS
  <2>3. Groups(values, 0, << >>)
    BY <2>1, <2>2 DEF Groups
  <2>. QED
    BY <1>2, <2>3
<1>4. ASSUME NEW k \in Nat, k \in G
      PROVE  k + 1 \in G
  <2> SUFFICES ASSUME k + 1 <= Len(values)
               PROVE  Groups(values, k + 1, g[k + 1])
    OBVIOUS
  <2> DEFINE cl == g[k]
             v == values[k + 1]
  <2>1. k + 1 \in 1 .. Len(values) /\ (k + 1) - 1 = k /\ k <= Len(values)
    BY <1>1
  <2>2. g[k + 1] = IntoCluster(cl, v, k)
    BY <1>2, <2>1
  <2>3. Groups(values, k, cl) /\ v \in Nat
    BY <1>1, <1>4, <2>1
  <2> HIDE DEF cl, G
  <2>4. CASE \E c \in DOMAIN cl : cl[c].value = v
    <3> DEFINE c == CHOOSE x \in DOMAIN cl :
                      /\ cl[x].value = v
                      /\ \A y \in 1 .. (x - 1) : cl[y].value # v
    <3>1. PICK d \in DOMAIN cl : cl[d].value = v
      BY <2>4
    <3>2. \A y \in 1 .. (d - 1) : y \in DOMAIN cl /\ y # d
      <4>1. cl \in Seq(Cluster)
        BY <2>3 DEF Groups
      <4>2. DOMAIN cl = 1 .. Len(cl) /\ Len(cl) \in Nat
        BY <4>1
      <4>. QED
        BY <4>2
    <3>3. \A y \in 1 .. (d - 1) : cl[y].value # v
      BY <2>3, <3>1, <3>2 DEF Groups
    <3>4. c \in DOMAIN cl /\ cl[c].value = v
      BY <3>1, <3>3
    <3>5. IntoCluster(cl, v, k) = [cl EXCEPT ![c].indexes = Append(@, k)]
      BY <2>4 DEF IntoCluster
    <3> HIDE DEF c
    <3>. QED
      BY <2>2, <2>3, <3>4, <3>5, JoinsCluster
  <2>5. CASE ~ \E c \in DOMAIN cl : cl[c].value = v
    <3>1. IntoCluster(cl, v, k) = Append(cl, [value |-> v, indexes |-> <<k>>])
      BY <2>5 DEF IntoCluster
    <3>. QED
      BY <2>2, <2>3, <2>5, <3>1, OpensCluster
  <2>. QED
    BY <2>4, <2>5
<1> HIDE DEF G
<1>5. Len(values) \in G
  BY <1>1, <1>3, <1>4, InductionOnSet
<1>. QED
  BY <1>1, <1>2, <1>5 DEF G

\* A sequence without repetitions has as many elements as it has places.
LEMMA LengthCounts ==
    ASSUME NEW s \in Seq(Nat),
           \A x, y \in DOMAIN s : x # y => s[x] # s[y]
    PROVE  Cardinality({s[x] : x \in DOMAIN s}) = Len(s)
<1> DEFINE S == {s[x] : x \in DOMAIN s}
           f == [x \in 1 .. Len(s) |-> s[x]]
<1>1. Len(s) \in Nat /\ DOMAIN s = 1 .. Len(s)
  OBVIOUS
<1>2. f \in Bijection(1 .. Len(s), S)
  BY <1>1 DEF Bijection, Injection, Surjection, IsInjective
<1>3. ExistsBijection(1 .. Len(s), S)
  BY <1>2 DEF ExistsBijection
<1> HIDE DEF S
<1>4. /\ IsFiniteSet(1 .. Len(s))
      /\ Cardinality(1 .. Len(s)) = IF 1 > Len(s) THEN 0 ELSE Len(s) - 1 + 1
  BY <1>1, FS_Interval
<1>5. Cardinality(S) = Cardinality(1 .. Len(s))
  BY <1>3, <1>4, FS_Bijection
<1>6. Cardinality(1 .. Len(s)) = Len(s)
  BY <1>1, <1>4
<1>. QED
  BY <1>5, <1>6 DEF S

\* A party's result is at its place in the Vec of the results.
LEMMA ResultFacts ==
    ASSUME TypeOK
    PROVE  /\ N \in Nat /\ DOMAIN Results = 1 .. N
           /\ \A k \in 1 .. N : k - 1 \in Parties /\ Results[k] = output[k - 1]
           /\ \A i \in Parties :
                /\ i \in Nat /\ i < N /\ i + 1 \in 1 .. N
                /\ Results[i + 1] = output[i]
                /\ output[i] \in [ok : BOOLEAN, val : Nat]
<1>1. N \in Nat /\ output \in [Parties -> [ok : BOOLEAN, val : Nat]]
  BY SimulationAssumption DEF TypeOK
<1>2. /\ DOMAIN Results = 1 .. N
      /\ \A k \in 1 .. N : k - 1 \in Parties /\ Results[k] = output[k - 1]
  BY <1>1 DEF Results, Parties
<1>3. ASSUME NEW i \in Parties
      PROVE  /\ i \in Nat /\ i < N /\ i + 1 \in 1 .. N /\ (i + 1) - 1 = i
             /\ output[i] \in [ok : BOOLEAN, val : Nat]
  BY <1>1 DEF Parties
<1>4. ASSUME NEW i \in Parties
      PROVE  Results[i + 1] = output[i]
  BY <1>2, <1>3
<1>. QED
  BY <1>1, <1>2, <1>3, <1>4

\* expect_ok panics exactly if a party failed, and names those that did.
LEMMA ExpectOkRight ==
    ASSUME TypeOK
    PROVE  LET oks == ExpectOk(Results)
           IN /\ oks.panic <=> \E i \in Parties : ~ output[i].ok
              /\ oks.panic => oks.report = {i \in Parties : ~ output[i].ok}
              /\ ~ oks.panic =>
                   oks.value = [k \in 1 .. N |-> output[k - 1].val]
<1> DEFINE errs == {k \in DOMAIN Results : ~ Results[k].ok}
           R == {k - 1 : k \in errs}
           V == [k \in DOMAIN Results |-> Results[k].val]
<1>1. /\ N \in Nat /\ DOMAIN Results = 1 .. N
      /\ \A k \in 1 .. N : k - 1 \in Parties /\ Results[k] = output[k - 1]
      /\ \A i \in Parties :
           i \in Nat /\ i + 1 \in 1 .. N /\ Results[i + 1] = output[i]
  BY ResultFacts
<1>2. \A k \in errs : k - 1 \in Parties /\ ~ output[k - 1].ok
  BY <1>1
<1>3. \A i \in Parties : ~ output[i].ok => i + 1 \in errs /\ (i + 1) - 1 = i
  <2> SUFFICES ASSUME NEW i \in Parties, ~ output[i].ok
               PROVE  i + 1 \in errs /\ (i + 1) - 1 = i
    OBVIOUS
  <2>1. i \in Nat /\ i + 1 \in 1 .. N /\ Results[i + 1] = output[i]
    BY <1>1
  <2>2. i + 1 \in errs
    BY <1>1, <2>1
  <2>. QED
    BY <2>1, <2>2
<1>4. R = {i \in Parties : ~ output[i].ok}
  BY <1>2, <1>3
<1>5. errs # {} <=> \E i \in Parties : ~ output[i].ok
  BY <1>2, <1>3
<1>6. ExpectOk(Results) = IF errs # {} THEN Panics(R) ELSE Returns(V)
  BY DEF ExpectOk
<1>7. V = [k \in 1 .. N |-> output[k - 1].val]
  BY <1>1
<1> HIDE DEF errs, R, V
<1>8. /\ Panics(R).panic = TRUE /\ Panics(R).report = R
      /\ Returns(V).panic = FALSE /\ Returns(V).value = V
  BY DEF Panics, Returns
<1>. QED
  BY <1>4, <1>5, <1>6, <1>7, <1>8

\* The answer of expect_eq to the values is right: it returns the value of all
\* parties, or names each of them with those of its value.
EqRight(values) ==
    LET eq == ExpectEq(values)
        clusters == eq.report
        members(c) == {clusters[c].indexes[x] :
                         x \in DOMAIN clusters[c].indexes}
    IN /\ eq.panic <=> \E i, j \in Parties : output[i] # output[j]
       /\ ~ eq.panic => \A i \in Parties : output[i].val = eq.value
       /\ eq.panic => \A c \in DOMAIN clusters :
            /\ members(c) = {i \in Parties : output[i].val = clusters[c].value}
            /\ Len(clusters[c].indexes) = Cardinality(members(c))
       /\ eq.panic => UNION {members(c) : c \in DOMAIN clusters} = Parties

\* expect_eq is right if all parties have succeeded.
LEMMA ExpectEqRight ==
    ASSUME TypeOK, N > 0, \A i \in Parties : output[i].ok = TRUE
    PROVE  EqRight([k \in 1 .. N |-> output[k - 1].val])
<1> DEFINE V == [k \in 1 .. N |-> output[k - 1].val]
           cl == Clusters(V)
           members(c) == {cl[c].indexes[x] : x \in DOMAIN cl[c].indexes}
           same == \A k \in 2 .. Len(V) : V[k] = V[1]
<1>1. /\ N \in Nat
      /\ \A k \in 1 .. N : k - 1 \in Parties
      /\ \A i \in Parties :
           /\ i \in Nat /\ i < N /\ i + 1 \in 1 .. N
           /\ output[i] \in [ok : BOOLEAN, val : Nat]
  BY ResultFacts
<1>2. /\ V \in Seq(Nat) /\ Len(V) = N /\ DOMAIN V = 1 .. N
      /\ \A k \in 1 .. N : V[k] = output[k - 1].val
  <2>1. \A k \in 1 .. N : output[k - 1].val \in Nat
    BY <1>1
  <2>. QED
    BY <1>1, <2>1
<1>3. V # << >>
  <2>1. Len(V) # 0
    BY <1>1, <1>2
  <2> HIDE DEF V
  <2>. QED
    BY <2>1
<1>4. \A i \in Parties : V[i + 1] = output[i].val
  <2>1. \A i \in Parties : (i + 1) - 1 = i
    BY <1>1
  <2>. QED
    BY <1>1, <1>2, <2>1
<1>5. ExpectEq(V) = IF same THEN Returns(V[Len(V)]) ELSE Panics(cl)
  BY <1>3 DEF ExpectEq
<1> HIDE DEF V
<1>6. \A i, j \in Parties :
        output[i] = output[j] <=> output[i].val = output[j].val
  <2> SUFFICES ASSUME NEW i \in Parties, NEW j \in Parties,
                      output[i].val = output[j].val
               PROVE  output[i] = output[j]
    OBVIOUS
  <2>1. /\ output[i] \in [ok : BOOLEAN, val : Nat] /\ output[i].ok = TRUE
        /\ output[j] \in [ok : BOOLEAN, val : Nat] /\ output[j].ok = TRUE
    BY <1>1
  <2>. QED
    BY <2>1
<1>7. same <=> \A k \in 1 .. N : V[k] = V[1]
  <2>1. \A k \in 1 .. N : k = 1 \/ k \in 2 .. N
    BY <1>1
  <2>2. \A k \in 2 .. N : k \in 1 .. N
    BY <1>1
  <2>. QED
    BY <1>2, <2>1, <2>2
<1>8. same <=> ~ \E i, j \in Parties : output[i] # output[j]
  <2>1. ASSUME same, NEW i \in Parties, NEW j \in Parties
        PROVE  output[i] = output[j]
    <3> HIDE DEF same
    <3>1. V[i + 1] = V[1] /\ V[j + 1] = V[1]
      BY <1>1, <1>7, <2>1
    <3>. QED
      BY <1>4, <1>6, <3>1
  <2>2. ASSUME \A i, j \in Parties : output[i] = output[j]
        PROVE  same
    <3> SUFFICES ASSUME NEW k \in 1 .. N
                 PROVE  V[k] = V[1]
      BY <1>7
    <3>1. k - 1 \in Parties /\ 1 - 1 \in Parties /\ 1 \in 1 .. N
      <4>1. 1 \in 1 .. N
        BY <1>1
      <4>. QED
        BY <1>1, <4>1
    <3>2. V[k] = output[k - 1].val /\ V[1] = output[1 - 1].val
      BY <1>2, <3>1
    <3>. QED
      BY <2>2, <3>1, <3>2
  <2>. QED
    BY <2>1, <2>2
<1>9. same => \A i \in Parties : output[i].val = V[Len(V)]
  <2>1. N \in 1 .. N
    BY <1>1
  <2> HIDE DEF same
  <2>. QED
    BY <1>1, <1>2, <1>4, <1>7, <2>1
<1> HIDE DEF same
<1>10. Groups(V, N, cl)
  BY <1>2, ClustersGroup
<1> HIDE DEF cl
<1>11. ASSUME NEW c \in DOMAIN cl
       PROVE  /\ cl[c].indexes \in Seq(Nat)
              /\ members(c) = {i \in Parties : output[i].val = cl[c].value}
              /\ Len(cl[c].indexes) = Cardinality(members(c))
  <2>1. cl \in Seq(Cluster)
    BY <1>10 DEF Groups
  <2>2. cl[c] \in Cluster
    BY <2>1
  <2>3. cl[c].indexes \in Seq(Nat)
    BY <2>2 DEF Cluster
  <2>4. ASSUME NEW x \in DOMAIN cl[c].indexes
        PROVE  /\ cl[c].indexes[x] \in Parties
               /\ output[cl[c].indexes[x]].val = cl[c].value
    <3> DEFINE i == cl[c].indexes[x]
    <3>1. i \in Nat
      BY <2>3
    <3>2. i < N /\ V[i + 1] = cl[c].value
      BY <1>10 DEF Groups
    <3>3. i \in Parties
      BY <1>1, <3>1, <3>2 DEF Parties
    <3>. QED
      BY <1>4, <3>2, <3>3
  <2>5. ASSUME NEW i \in Parties, output[i].val = cl[c].value
        PROVE  \E x \in DOMAIN cl[c].indexes : cl[c].indexes[x] = i
    <3>1. i \in Nat /\ i < N
      BY <1>1
    <3>2. PICK d \in DOMAIN cl : \E x \in DOMAIN cl[d].indexes :
                                   cl[d].indexes[x] = i
      BY <1>10, <3>1 DEF Groups
    <3>3. V[i + 1] = cl[d].value
      BY <1>10, <3>2 DEF Groups
    <3>4. cl[d].value = cl[c].value
      BY <1>4, <2>5, <3>3
    <3>5. d = c
      BY <1>10, <3>4 DEF Groups
    <3>. QED
      BY <3>2, <3>5
  <2>6. members(c) = {i \in Parties : output[i].val = cl[c].value}
    BY <2>4, <2>5
  <2>7. \A x, y \in DOMAIN cl[c].indexes :
           x # y => cl[c].indexes[x] # cl[c].indexes[y]
    BY <1>10 DEF Groups
  <2> DEFINE s == cl[c].indexes
  <2>8. Cardinality({s[x] : x \in DOMAIN s}) = Len(s)
    <3> HIDE DEF s
    <3>1. s \in Seq(Nat) /\ \A x, y \in DOMAIN s : x # y => s[x] # s[y]
      BY <2>3, <2>7 DEF s
    <3>. QED
      BY <3>1, LengthCounts
  <2>. QED
    BY <2>3, <2>6, <2>8
<1>12. UNION {members(c) : c \in DOMAIN cl} = Parties
  <2>1. ASSUME NEW i \in Parties
        PROVE  \E c \in DOMAIN cl : i \in members(c)
    <3>1. i \in Nat /\ i < N
      BY <1>1
    <3>2. PICK d \in DOMAIN cl : \E x \in DOMAIN cl[d].indexes :
                                   cl[d].indexes[x] = i
      BY <1>10, <3>1 DEF Groups
    <3>. QED
      BY <3>2
  <2>2. \A c \in DOMAIN cl : members(c) \subseteq Parties
    BY <1>11
  <2>. QED
    BY <2>1, <2>2
<1>13. /\ Panics(cl).panic = TRUE /\ Panics(cl).report = cl
       /\ Returns(V[Len(V)]).panic = FALSE
       /\ Returns(V[Len(V)]).value = V[Len(V)]
  BY DEF Panics, Returns
<1> DEFINE eq == ExpectEq(V)
<1>14. ASSUME same PROVE EqRight(V)
  <2>1. eq.panic = FALSE /\ eq.value = V[Len(V)]
    BY <1>5, <1>13, <1>14
  <2> HIDE DEF eq
  <2>. QED
    BY <1>8, <1>9, <1>14, <2>1 DEF EqRight, eq
<1>15. ASSUME ~ same PROVE EqRight(V)
  <2>1. eq.panic = TRUE /\ eq.report = cl
    BY <1>5, <1>13, <1>15
  <2> HIDE DEF eq
  <2>2. /\ \A c \in DOMAIN eq.report :
             /\ {eq.report[c].indexes[x] : x \in DOMAIN eq.report[c].indexes}
                  = {i \in Parties : output[i].val = eq.report[c].value}
             /\ Len(eq.report[c].indexes)
                  = Cardinality({eq.report[c].indexes[x] :
                                   x \in DOMAIN eq.report[c].indexes})
        /\ UNION {{eq.report[c].indexes[x] :
                     x \in DOMAIN eq.report[c].indexes} :
                  c \in DOMAIN eq.report} = Parties
    <3> DEFINE r == eq.report
    <3>1. r = cl
      BY <2>1
    <3> HIDE DEF r
    <3>2. \A c \in DOMAIN r :
             /\ {r[c].indexes[x] : x \in DOMAIN r[c].indexes}
                  = {i \in Parties : output[i].val = r[c].value}
             /\ Len(r[c].indexes)
                  = Cardinality({r[c].indexes[x] : x \in DOMAIN r[c].indexes})
      BY <1>11, <3>1
    <3>3. UNION {{r[c].indexes[x] : x \in DOMAIN r[c].indexes} :
                 c \in DOMAIN r} = Parties
      BY <1>12, <3>1
    <3>. QED
      BY <3>2, <3>3 DEF r
  <2>. QED
    BY <1>8, <1>15, <2>1, <2>2 DEF EqRight, eq
<1>. QED
  BY <1>14, <1>15 DEF V

\* The verdict on the results that are there.
LEMMA VerdictHolds ==
    ASSUME TypeOK
    PROVE  VerdictIsRight
<1> DEFINE oks == ExpectOk(Results)
           V == [k \in 1 .. N |-> output[k - 1].val]
<1>1. /\ oks.panic <=> \E i \in Parties : ~ output[i].ok
      /\ oks.panic => oks.report = {i \in Parties : ~ output[i].ok}
      /\ ~ oks.panic => oks.value = V
  BY ExpectOkRight
<1>2. CASE oks.panic \/ ~ (N > 0)
  <2> HIDE DEF oks
  <2>. QED
    BY <1>1, <1>2 DEF VerdictIsRight, oks
<1>3. CASE ~ oks.panic /\ N > 0
  <2>1. \A i \in Parties : output[i].ok = TRUE
    <3>1. \A i \in Parties : output[i].ok \in BOOLEAN
      BY DEF TypeOK
    <3>. QED
      BY <1>1, <1>3, <3>1
  <2>2. oks.value = V
    BY <1>1, <1>3
  <2>3. EqRight(oks.value)
    BY <1>3, <2>1, <2>2, ExpectEqRight
  <2> HIDE DEF oks
  <2>. QED
    BY <1>1, <2>3 DEF VerdictIsRight, EqRight, oks
<1>. QED
  BY <1>2, <1>3

\* What expect_ok and expect_eq conclude from the results is right, for any
\* number of parties and any results.
THEOREM VerdictCorrect == Spec => []VerdictIsRight
<1>1. TypeOK => VerdictIsRight
  BY VerdictHolds
<1>. QED
  BY <1>1, TypeCorrect, PTL

-----------------------------------------------------------------------------
(***************************************************************************)
(* What cannot be run.  A party has received what it was given, up to the  *)
(* message in its slot, and its inbox has one message for every send of    *)
(* another; so no party passes a blocked cut.                              *)
(***************************************************************************)
\* The receives among the first n operations of a script.
RecvsOf(s, n) == {x \in 1 .. n : s[x].op = "recv"}

\* One operation more is one receive more, if it is one.
LEMMA RecvCount ==
    ASSUME NEW s, NEW n \in Nat
    PROVE  /\ Cardinality(RecvsOf(s, n)) \in Nat
           /\ Cardinality(RecvsOf(s, n + 1))
                = Cardinality(RecvsOf(s, n))
                    + IF s[n + 1].op = "recv" THEN 1 ELSE 0
<1>1. IsFiniteSet(1 .. n)
  BY FS_Interval
<1>2. RecvsOf(s, n) \in SUBSET (1 .. n)
  BY DEF RecvsOf
<1>3. IsFiniteSet(RecvsOf(s, n))
  BY <1>1, <1>2, FS_Subset
<1>4. Cardinality(RecvsOf(s, n)) \in Nat
  BY <1>3, FS_CardinalityType
<1>5. CASE s[n + 1].op = "recv"
  <2>1. RecvsOf(s, n + 1) = RecvsOf(s, n) \cup {n + 1} /\ n + 1 \notin RecvsOf(s, n)
    BY <1>5 DEF RecvsOf
  <2>2. Cardinality(RecvsOf(s, n) \cup {n + 1}) = Cardinality(RecvsOf(s, n)) + 1
    BY <1>3, <2>1, FS_AddElement
  <2>. QED
    BY <1>4, <1>5, <2>1, <2>2
<1>6. CASE s[n + 1].op # "recv"
  <2>1. RecvsOf(s, n + 1) = RecvsOf(s, n)
    BY <1>6 DEF RecvsOf
  <2>. QED
    BY <1>4, <1>6, <2>1
<1>. QED
  BY <1>4, <1>5, <1>6

\* The sends to party i before a cut.
SendsOf(j, i, n) == {<<j, x>> : x \in {y \in 1 .. n : IsFor(script[j][y], j, i)}}
SendsTo(i, c) == UNION {SendsOf(j, i, c[j]) : j \in Parties}

\* They are finitely many.
LEMMA SendsFinite ==
    ASSUME NEW i, NEW c, \A j \in Parties : c[j] \in Nat
    PROVE  /\ IsFiniteSet(SendsTo(i, c)) /\ SentBefore(i, c) \in Nat
           /\ SentBefore(i, c) = Cardinality(SendsTo(i, c))
<1> DEFINE F == {SendsOf(j, i, c[j]) : j \in Parties}
           f == [j \in Parties |-> SendsOf(j, i, c[j])]
<1>1. f \in Surjection(Parties, F)
  BY DEF Surjection
<1>2. IsFiniteSet(F)
  <2> HIDE DEF F, f
  <2>. QED
    BY <1>1, PartiesFinite, FS_Surjection
<1>3. ASSUME NEW j \in Parties
      PROVE  IsFiniteSet(SendsOf(j, i, c[j]))
  <2> DEFINE Y == {y \in 1 .. c[j] : IsFor(script[j][y], j, i)}
             g == [x \in Y |-> <<j, x>>]
  <2>1. IsFiniteSet(1 .. c[j]) /\ Y \in SUBSET (1 .. c[j])
    BY FS_Interval
  <2>2. IsFiniteSet(Y)
    <3> HIDE DEF Y
    <3>. QED
      BY <2>1, FS_Subset
  <2>3. g \in Surjection(Y, SendsOf(j, i, c[j]))
    BY DEF Surjection, SendsOf
  <2> HIDE DEF Y, g
  <2>. QED
    BY <2>2, <2>3, FS_Surjection
<1>4. IsFiniteSet(UNION F)
  <2>1. \A T \in F : IsFiniteSet(T)
    BY <1>3
  <2> HIDE DEF F
  <2>. QED
    BY <1>2, <2>1, FS_UNION
<1>5. SentBefore(i, c) = Cardinality(SendsTo(i, c))
  BY DEF SentBefore, SendsTo, SendsOf
<1>6. IsFiniteSet(SendsTo(i, c))
  BY <1>4 DEF SendsTo
<1>7. Cardinality(SendsTo(i, c)) \in Nat
  BY <1>6, FS_CardinalityType
<1>. QED
  BY <1>5, <1>6, <1>7

\* A later cut has no fewer sends before it.
LEMMA SentMonotone ==
    ASSUME NEW i, NEW c, NEW d,
           \A j \in Parties : c[j] \in Nat /\ d[j] \in Nat /\ c[j] <= d[j]
    PROVE  SentBefore(i, c) <= SentBefore(i, d)
<1>1. /\ IsFiniteSet(SendsTo(i, d))
      /\ SentBefore(i, c) = Cardinality(SendsTo(i, c))
      /\ SentBefore(i, d) = Cardinality(SendsTo(i, d))
  BY SendsFinite
<1>2. ASSUME NEW j \in Parties
      PROVE  SendsOf(j, i, c[j]) \subseteq SendsOf(j, i, d[j])
  <2>1. \A y \in 1 .. c[j] : y \in 1 .. d[j]
    OBVIOUS
  <2>. QED
    BY <2>1 DEF SendsOf
<1>3. SendsTo(i, c) \in SUBSET SendsTo(i, d)
  BY <1>2 DEF SendsTo
<1>. QED
  BY <1>1, <1>3, FS_Subset

\* The cut d is one operation of party k later than c.
OneLater(c, d, k) ==
    /\ \A j \in Parties : c[j] \in Nat
    /\ \A j \in Parties \ {k} : d[j] = c[j]
    /\ d[k] = c[k] + 1

\* A cut one operation of party k later has one send more before it, if the
\* operation sends.
LEMMA SentOneMore ==
    ASSUME NEW i, NEW c, NEW d, NEW k \in Parties, OneLater(c, d, k)
    PROVE  SentBefore(i, d) = SentBefore(i, c)
              + IF IsFor(script[k][c[k] + 1], k, i) THEN 1 ELSE 0
<1> DEFINE p == <<k, c[k] + 1>>
<1> USE DEF OneLater
<1>1. \A j \in Parties : d[j] \in Nat
  OBVIOUS
<1>2. /\ IsFiniteSet(SendsTo(i, c))
      /\ SentBefore(i, c) = Cardinality(SendsTo(i, c))
      /\ SentBefore(i, d) = Cardinality(SendsTo(i, d))
      /\ SentBefore(i, c) \in Nat
  BY <1>1, SendsFinite
<1>3. \A y \in 1 .. (c[k] + 1) : y \in 1 .. c[k] \/ y = c[k] + 1
  OBVIOUS
<1>4. \A y \in 1 .. c[k] : y \in 1 .. (c[k] + 1) /\ y # c[k] + 1
  OBVIOUS
<1>5. CASE IsFor(script[k][c[k] + 1], k, i)
  <2>1. SendsOf(k, i, d[k]) = SendsOf(k, i, c[k]) \cup {p}
    <3>1. c[k] + 1 \in 1 .. (c[k] + 1)
      OBVIOUS
    <3>. QED
      BY <1>3, <1>4, <1>5, <3>1 DEF SendsOf
  <2>2. SendsTo(i, d) = SendsTo(i, c) \cup {p}
    BY <2>1 DEF SendsTo
  <2>3. p \notin SendsTo(i, c)
    BY <1>4 DEF SendsTo, SendsOf
  <2> HIDE DEF p
  <2>4. Cardinality(SendsTo(i, c) \cup {p}) = Cardinality(SendsTo(i, c)) + 1
    BY <1>2, <2>3, FS_AddElement
  <2>. QED
    BY <1>2, <1>5, <2>2, <2>4
<1>6. CASE ~ IsFor(script[k][c[k] + 1], k, i)
  <2>1. SendsOf(k, i, d[k]) = SendsOf(k, i, c[k])
    BY <1>3, <1>4, <1>6 DEF SendsOf
  <2>2. SendsTo(i, d) = SendsTo(i, c)
    BY <2>1 DEF SendsTo
  <2>. QED
    BY <1>2, <1>6, <2>2
<1>. QED
  BY <1>5, <1>6

\* The counts depend on the cut at the parties only.
LEMMA CountsAgree ==
    ASSUME NEW i \in Parties, NEW c, NEW d, \A j \in Parties : c[j] = d[j]
    PROVE  /\ SentBefore(i, c) = SentBefore(i, d)
           /\ ReceivedBefore(i, c) = ReceivedBefore(i, d)
<1>1. SendsTo(i, c) = SendsTo(i, d)
  BY DEF SendsTo
<1>2. \A e : SentBefore(i, e) = Cardinality(SendsTo(i, e))
  BY DEF SentBefore, SendsTo, SendsOf
<1>3. SentBefore(i, c) = SentBefore(i, d)
  BY <1>1, <1>2
<1>4. ReceivedBefore(i, c) = ReceivedBefore(i, d)
  BY DEF ReceivedBefore
<1>. QED
  BY <1>3, <1>4

Held(i) == IF slot[i] = NoMsg THEN 0 ELSE 1

\* A party has received all it was given but the message in its slot, and its
\* inbox has as many messages as the others have sent to it.
Counted(i) ==
    /\ Len(got[i]) = ReceivedBefore(i, done) + Held(i)
    /\ Len(Inbox(i)) = SentBefore(i, done)

\* The operations that were done can be done.
CanBeDone(i) ==
    \A x \in 1 .. done[i] :
        /\ script[i][x].op \notin {"unknown", "fail"}
        /\ script[i][x].op = "one" /\ status \in {"running", "ok"} =>
              script[i][x].to \in Parties

\* Where a party that does nothing stands in its script.
Stands(i) ==
    /\ i \notin active => Ends(i, done)
    /\ i \in active /\ wants[i] =>
         /\ done[i] < Len(script[i])
         /\ script[i][done[i] + 1].op = "recv"

\* Nobody has passed a blocked cut.
NonePassed ==
    \A c \in Cuts : Blocked(c) => \A i \in Parties : done[i] <= c[i]

CutInv ==
    /\ \A i \in Parties : Counted(i) /\ CanBeDone(i) /\ Stands(i)
    /\ NonePassed

\* The counts where a party is, and one operation further.
LEMMA Counts ==
    ASSUME TypeOK, NEW i \in Parties
    PROVE  /\ done[i] \in Nat /\ Len(script[i]) \in Nat
           /\ done[i] <= Len(script[i])
           /\ ReceivedBefore(i, done) = Cardinality(RecvsOf(script[i], done[i]))
           /\ ReceivedBefore(i, done) \in Nat
           /\ SentBefore(i, done) \in Nat
<1>1. \A j \in Parties : /\ script[j] \in Seq(Ops) /\ Len(script[j]) \in Nat
                         /\ done[j] \in 0 .. Len(script[j])
  BY SimulationAssumption DEF TypeOK
<1>2. \A j \in Parties : done[j] \in Nat
  BY <1>1
<1>3. ReceivedBefore(i, done) = Cardinality(RecvsOf(script[i], done[i]))
  BY DEF ReceivedBefore, RecvsOf
<1>4. Cardinality(RecvsOf(script[i], done[i])) \in Nat
  BY <1>2, RecvCount
<1>5. SentBefore(i, done) \in Nat
  BY <1>2, SendsFinite
<1>. QED
  BY <1>1, <1>2, <1>3, <1>4, <1>5

\* What a call of proceed does to the place of the party in its script: it gets
\* to Position, and over the operation that follows if it sends or yields.
LEMMA ProceedMoves ==
    ASSUME SimInv, Proceed
    PROVE  LET p == Position(at)
               e == Event(at)
               moves == e.op \in {"all", "one", "yield"}
           IN /\ at \in Parties /\ at \in active /\ ~ wants[at]
              /\ status = "running"
              /\ p \in Nat /\ p <= Len(script[at])
              /\ e.op # "output" => /\ p + 1 <= Len(script[at])
                                    /\ e = script[at][p + 1] /\ e \in Ops
              /\ e.op = "output" => p = Len(script[at])
              /\ DOMAIN done' = Parties
              /\ done'[at] = IF moves THEN p + 1 ELSE p
              /\ \A j \in Parties \ {at} : done'[j] = done[j]
              /\ slot'[at] = SlotAfter(at)
              /\ \A j \in Parties \ {at} : slot'[j] = slot[j]
              /\ UNCHANGED <<script, got>>
              /\ e.op \in {"all", "one"} =>
                   SendMessage(e, at) /\ UNCHANGED <<active, wants>>
              /\ e.op \notin {"all", "one"} => queue' = queue
              /\ e.op = "recv" =>
                   UNCHANGED active /\ wants' = [wants EXCEPT ![at] = TRUE]
              /\ e.op \in {"yield", "unknown"} => UNCHANGED <<active, wants>>
              /\ e.op \in {"output", "fail"} =>
                   active' = active \ {at} /\ UNCHANGED wants
              /\ e.op \in {"all", "one", "recv", "yield", "unknown", "output",
                           "fail"}
<1>1. /\ TypeOK /\ at \in active /\ ~ wants[at] /\ status = "running"
      /\ slot' = [slot EXCEPT ![at] = SlotAfter(at)]
      /\ UNCHANGED <<script, got>>
  BY DEF Proceed, SimInv
<1>2. /\ at \in Parties /\ DOMAIN done = Parties
      /\ slot \in [Parties -> Messages]
  BY <1>1 DEF TypeOK
<1>3. /\ Position(at) \in Nat /\ Position(at) <= Len(script[at])
      /\ Event(at).op # "output" =>
           /\ Position(at) + 1 <= Len(script[at])
           /\ Event(at) = script[at][Position(at) + 1]
           /\ Event(at) \in Ops
  BY <1>1, <1>2, EventFacts
<1>4. Event(at).op = "output" => Position(at) = Len(script[at])
  <2>1. script[at] \in Seq(Ops)
    BY <1>1, <1>2, SimulationAssumption DEF TypeOK
  <2>2. Len(script[at]) \in Nat
    BY <2>1
  <2>3. CASE Position(at) # Len(script[at])
    <3>1. Position(at) + 1 \in 1 .. Len(script[at])
      BY <1>3, <2>2, <2>3
    <3>2. Event(at) = script[at][Position(at) + 1]
      BY <2>3 DEF Event
    <3>3. Event(at) \in Ops
      BY <2>1, <3>1, <3>2
    <3>. QED
      BY <3>3 DEF Ops
  <2>. QED
    BY <2>3
<1>5. /\ slot'[at] = SlotAfter(at)
      /\ \A j \in Parties \ {at} : slot'[j] = slot[j]
  BY <1>1, <1>2
<1> DEFINE d == IF Event(at).op \in {"all", "one", "yield"}
                  THEN Position(at) + 1 ELSE Position(at)
<1>6. done' = [done EXCEPT ![at] = d]
  BY DEF Proceed
<1>7. /\ DOMAIN done' = Parties /\ done'[at] = d
      /\ \A j \in Parties \ {at} : done'[j] = done[j]
  <2> HIDE DEF d
  <2>. QED
    BY <1>2, <1>6
<1>8. /\ Event(at).op \in {"all", "one"} =>
           SendMessage(Event(at), at) /\ UNCHANGED <<active, wants>>
      /\ Event(at).op \notin {"all", "one"} => queue' = queue
      /\ Event(at).op = "recv" =>
           UNCHANGED active /\ wants' = [wants EXCEPT ![at] = TRUE]
      /\ Event(at).op \in {"yield", "unknown"} => UNCHANGED <<active, wants>>
      /\ Event(at).op \in {"output", "fail"} =>
           active' = active \ {at} /\ UNCHANGED wants
      /\ Event(at).op \in {"all", "one", "recv", "yield", "unknown", "output",
                           "fail"}
  BY DEF Proceed
<1>. QED
  BY <1>1, <1>2, <1>3, <1>4, <1>5, <1>7, <1>8

\* A call of proceed takes what it counts as received out of the slot.
LEMMA ProceedCountsReceived ==
    ASSUME SimInv, Proceed, NEW i \in Parties,
           Len(got[i]) = ReceivedBefore(i, done) + Held(i)
    PROVE  Len(got'[i]) = ReceivedBefore(i, done)' + Held(i)'
<1> DEFINE p == Position(at)
           e == Event(at)
           s == script[at]
           n == done[at]
<1>1. /\ at \in Parties /\ p \in Nat
      /\ e.op # "output" => e = s[p + 1]
      /\ done'[at] = IF e.op \in {"all", "one", "yield"} THEN p + 1 ELSE p
      /\ \A j \in Parties \ {at} : done'[j] = done[j]
      /\ slot'[at] = SlotAfter(at)
      /\ \A j \in Parties \ {at} : slot'[j] = slot[j]
      /\ UNCHANGED <<script, got>>
  BY ProceedMoves
<1>2. CASE i # at
  <2>1. ReceivedBefore(i, done)' = ReceivedBefore(i, done)
    BY <1>1, <1>2 DEF ReceivedBefore
  <2>2. Held(i)' = Held(i)
    BY <1>1, <1>2 DEF Held
  <2>. QED
    BY <1>1, <2>1, <2>2
<1>3. CASE i = at
  <2>1. /\ n \in Nat
        /\ ReceivedBefore(i, done) = Cardinality(RecvsOf(s, n))
        /\ Cardinality(RecvsOf(s, n)) \in Nat
    BY <1>3, Counts DEF SimInv
  <2>2. ReceivedBefore(i, done)' = Cardinality(RecvsOf(s, done'[at]))
    BY <1>1, <1>3 DEF ReceivedBefore, RecvsOf
  <2>3. Cardinality(RecvsOf(s, p)) + Held(i)'
          = Cardinality(RecvsOf(s, n)) + Held(i)
    <3>1. CASE Received(at)
      <4>1. p = n + 1 /\ s[n + 1].op = "recv" /\ slot[at] # NoMsg
        BY <3>1 DEF Position, Received
      <4>2. Held(i) = 1 /\ Held(i)' = 0
        BY <1>1, <1>3, <3>1, <4>1 DEF Held, SlotAfter, NoMsg
      <4>3. Cardinality(RecvsOf(s, n + 1)) = Cardinality(RecvsOf(s, n)) + 1
        BY <2>1, <4>1, RecvCount
      <4>. QED
        BY <2>1, <4>1, <4>2, <4>3
    <3>2. CASE ~ Received(at)
      <4>1. p = n /\ slot'[at] = slot[at]
        BY <1>1, <3>2 DEF Position, SlotAfter
      <4>2. Held(i)' = Held(i)
        BY <1>3, <4>1 DEF Held, NoMsg
      <4>. QED
        BY <4>1, <4>2
    <3>. QED
      BY <3>1, <3>2
  <2>4. Cardinality(RecvsOf(s, done'[at])) = Cardinality(RecvsOf(s, p))
    <3>1. CASE e.op \in {"all", "one", "yield"}
      <4>1. done'[at] = p + 1 /\ s[p + 1].op # "recv"
        BY <1>1, <3>1
      <4>2. /\ Cardinality(RecvsOf(s, p)) \in Nat
            /\ Cardinality(RecvsOf(s, p + 1)) = Cardinality(RecvsOf(s, p))
                + IF s[p + 1].op = "recv" THEN 1 ELSE 0
        BY <1>1, RecvCount
      <4>. QED
        BY <4>1, <4>2
    <3>2. CASE e.op \notin {"all", "one", "yield"}
      BY <1>1, <3>2
    <3>. QED
      BY <3>1, <3>2
  <2>. QED
    BY <1>1, <1>3, <2>1, <2>2, <2>3, <2>4
<1>. QED
  BY <1>2, <1>3

\* A call of proceed that sends puts one message in the inboxes it is for.
LEMMA ProceedCountsSent ==
    ASSUME SimInv, Proceed, NEW i \in Parties,
           Len(Inbox(i)) = SentBefore(i, done)
    PROVE  Len(Inbox(i)') = SentBefore(i, done)'
<1> DEFINE p == Position(at)
           e == Event(at)
           s == script[at]
           n == done[at]
           mid == [j \in Parties |-> IF j = at THEN p ELSE done[j]]
<1>1. /\ at \in Parties /\ p \in Nat
      /\ e.op # "output" => e = s[p + 1] /\ e \in Ops
      /\ done'[at] = IF e.op \in {"all", "one", "yield"} THEN p + 1 ELSE p
      /\ \A j \in Parties \ {at} : done'[j] = done[j]
      /\ UNCHANGED <<script, got>>
      /\ e.op \in {"all", "one"} => SendMessage(e, at)
      /\ e.op \notin {"all", "one"} => queue' = queue
  BY ProceedMoves
<1>2. \A j \in Parties : done[j] \in Nat
  BY Counts DEF SimInv
<1>3. mid[at] = p /\ \A j \in Parties \ {at} : mid[j] = done[j]
  BY <1>1
<1>4. \A j \in Parties : mid[j] \in Nat
  BY <1>1, <1>2
<1>5. SentBefore(i, mid) = SentBefore(i, done)
  <2>1. CASE Received(at)
    <3>1. p = n + 1 /\ s[n + 1].op = "recv"
      BY <2>1 DEF Position, Received
    <3>2. ~ IsFor(s[n + 1], at, i)
      BY <3>1 DEF IsFor
    <3> HIDE DEF mid, p
    <3>3. SentBefore(i, mid) = SentBefore(i, done)
            + IF IsFor(script[at][done[at] + 1], at, i) THEN 1 ELSE 0
      <4>1. OneLater(done, mid, at)
        BY <1>2, <1>3, <3>1 DEF OneLater
      <4>. QED
        BY <1>1, <4>1, SentOneMore
    <3>4. SentBefore(i, done) \in Nat
      BY <1>2, SendsFinite
    <3>. QED
      BY <3>2, <3>3, <3>4
  <2>2. CASE ~ Received(at)
    <3>1. p = n
      BY <2>2 DEF Position
    <3>2. \A j \in Parties : mid[j] = done[j]
      BY <1>3, <3>1
    <3> HIDE DEF mid
    <3>. QED
      BY <3>2, CountsAgree
  <2>. QED
    BY <2>1, <2>2
<1>6. SentBefore(i, done)' = SentBefore(i, done')
  BY <1>1 DEF SentBefore
<1> HIDE DEF mid, p
<1>7. SentBefore(i, mid) \in Nat
  BY <1>4, SendsFinite
<1>8. CASE e.op \in {"all", "one", "yield"}
  <2>1. done'[at] = mid[at] + 1 /\ \A j \in Parties \ {at} : done'[j] = mid[j]
    BY <1>1, <1>3, <1>8
  <2>2. SentBefore(i, done') = SentBefore(i, mid)
          + IF IsFor(script[at][mid[at] + 1], at, i) THEN 1 ELSE 0
    <3>1. OneLater(mid, done', at)
      BY <1>4, <2>1 DEF OneLater
    <3>. QED
      BY <1>1, <3>1, SentOneMore
  <2>3. script[at][mid[at] + 1] = e /\ e \in Ops
    BY <1>1, <1>3, <1>8
  <2>4. CASE e.op \in {"all", "one"}
    <3>1. /\ IsFor(e, at, i) => Len(Inbox(i)') = Len(Inbox(i)) + 1
          /\ ~ IsFor(e, at, i) => Inbox(i)' = Inbox(i)
      <4>1. TypeOK /\ SendMessage(e, at) /\ got' = got
        BY <1>1, <2>4 DEF SimInv
      <4> HIDE DEF e
      <4>. QED
        BY <1>1, <2>3, <2>4, <4>1, InboxGrows
    <3>. QED
      BY <1>5, <1>6, <1>7, <2>2, <2>3, <3>1
  <2>5. CASE e.op = "yield"
    <3>1. Inbox(i)' = Inbox(i)
      BY <1>1, <2>5 DEF Inbox
    <3>2. ~ IsFor(e, at, i)
      BY <2>5 DEF IsFor
    <3>. QED
      BY <1>5, <1>6, <1>7, <2>2, <2>3, <3>1, <3>2
  <2>. QED
    BY <1>8, <2>4, <2>5
<1>9. CASE e.op \notin {"all", "one", "yield"}
  <2>1. \A j \in Parties : done'[j] = mid[j]
    BY <1>1, <1>3, <1>9
  <2>2. SentBefore(i, done') = SentBefore(i, mid)
    BY <2>1, CountsAgree
  <2>3. Inbox(i)' = Inbox(i)
    BY <1>1, <1>9 DEF Inbox
  <2>. QED
    BY <1>5, <1>6, <2>2, <2>3
<1>. QED
  BY <1>8, <1>9

\* A message that is given to a party is in its slot and not received yet.
LEMMA DeliverCounts ==
    ASSUME SimInv, InboxFollowsSent, Deliver, NEW i \in Parties, Counted(i)
    PROVE  Counted(i)'
<1>1. /\ at \in Parties /\ queue[at] # << >>
      /\ queue[at] \in Seq(Messages) /\ Head(queue[at]) \in Messages
      /\ queue' = [queue EXCEPT ![at] = Tail(@)]
      /\ slot' = [slot EXCEPT ![at] = Head(queue[at])]
      /\ got' = [got EXCEPT ![at] = Append(@, Head(queue[at]))]
      /\ UNCHANGED <<script, done>>
  BY DeliverFacts
<1>2. /\ got[at] \in Seq(Messages) /\ Len(got[at]) \in Nat
      /\ at \in active /\ wants[at]
      /\ got \in [Parties -> Seq(Messages)]
      /\ queue \in [Parties -> Seq(Messages)]
      /\ slot \in [Parties -> Messages]
  <2>1. /\ got \in [Parties -> Seq(Messages)]
        /\ queue \in [Parties -> Seq(Messages)]
        /\ slot \in [Parties -> Messages]
    BY DEF SimInv, TypeOK
  <2>2. at \in active /\ wants[at]
    BY DEF Deliver
  <2>3. got[at] \in Seq(Messages)
    BY <1>1, <2>1
  <2>4. Len(got[at]) \in Nat
    BY <2>3
  <2>. QED
    BY <2>1, <2>2, <2>3, <2>4
<1>3. slot[at] = NoMsg
  BY <1>2 DEF SimInv, MessagesAreSaved
\* The message has a number, so it is not the empty slot.
<1>4. Head(queue[at]) # NoMsg
  <2> DEFINE k == Len(got[at]) + 1
  <2>1. k \in DOMAIN Inbox(at) /\ Inbox(at)[k] = Head(queue[at])
    <3>1. /\ Len(queue[at]) \in Nat /\ Len(queue[at]) > 0
          /\ Head(queue[at]) = queue[at][1]
      BY <1>1
    <3>2. /\ Len(Inbox(at)) = Len(got[at]) + Len(queue[at])
          /\ \A a \in 1 .. (Len(got[at]) + Len(queue[at])) :
               Inbox(at)[a] = IF a <= Len(got[at]) THEN got[at][a]
                                ELSE queue[at][a - Len(got[at])]
      BY <1>1, <1>2, ConcatProperties DEF Inbox
    <3>3. DOMAIN Inbox(at) = 1 .. Len(Inbox(at))
      BY <1>1, InboxTypes DEF SimInv
    <3>4. /\ k \in 1 .. (Len(got[at]) + Len(queue[at]))
          /\ ~ (k <= Len(got[at])) /\ k - Len(got[at]) = 1
      BY <1>2, <3>1
    <3>. QED
      BY <3>1, <3>2, <3>3, <3>4
  <2>2. Inbox(at)[k].no \in DOMAIN sent
    BY <1>1, <2>1 DEF InboxFollowsSent, IsWhatWasSent
  <2>3. Head(queue[at]).no # 0
    <3>1. DOMAIN sent = 1 .. Len(sent) /\ Len(sent) \in Nat
      BY DEF SimInv, TypeOK
    <3>. QED
      BY <2>1, <2>2, <3>1
  <2>. QED
    BY <2>3 DEF NoMsg
<1>5. ReceivedBefore(i, done)' = ReceivedBefore(i, done)
  BY <1>1 DEF ReceivedBefore
<1>6. SentBefore(i, done)' = SentBefore(i, done)
  BY <1>1 DEF SentBefore
<1>7. CASE i = at
  <2>1. got'[i] = Append(got[i], Head(queue[i])) /\ queue'[i] = Tail(queue[i])
        /\ slot'[i] = Head(queue[i])
    BY <1>1, <1>2, <1>7
  <2>2. Len(got'[i]) = Len(got[i]) + 1
    BY <1>1, <1>2, <1>7, <2>1
  <2>3. Held(i) = 0 /\ Held(i)' = 1
    BY <1>3, <1>4, <1>7, <2>1 DEF Held, NoMsg
  <2>4. Inbox(i)' = Inbox(i)
    BY <1>1, <1>2, <1>7, <2>1, Moved DEF Inbox
  <2>5. ReceivedBefore(i, done) \in Nat
    BY Counts DEF SimInv
  <2>6. Len(got'[i]) = ReceivedBefore(i, done) + 1
    BY <2>2, <2>3, <2>5 DEF Counted
  <2>. QED
    BY <1>5, <1>6, <2>3, <2>4, <2>6 DEF Counted
<1>8. CASE i # at
  <2>1. got'[i] = got[i] /\ queue'[i] = queue[i] /\ slot'[i] = slot[i]
    BY <1>1, <1>2, <1>8
  <2>2. Inbox(i)' = Inbox(i) /\ Held(i)' = Held(i)
    BY <2>1 DEF Inbox, Held, NoMsg
  <2>. QED
    BY <1>5, <1>6, <2>1, <2>2 DEF Counted
<1>. QED
  BY <1>7, <1>8

\* A cut gives every party a number of operations of its script.
LEMMA CutFacts ==
    ASSUME TypeOK, NEW c \in Cuts, NEW i \in Parties
    PROVE  c[i] \in Nat /\ c[i] <= Len(script[i])
<1>1. c[i] <= Len(script[i]) /\ c[i] \in UNION {0 .. Len(script[j]) : j \in Parties}
  BY DEF Cuts
<1>. QED
  BY <1>1

\* The party whose turn it is does not pass a blocked cut: it could do so only
\* with a message that nobody sends before the cut.
LEMMA ProceedStaysBehind ==
    ASSUME SimInv, Proceed, NEW c \in Cuts, Blocked(c),
           \A i \in Parties : done[i] <= c[i],
           Counted(at)
    PROVE  \A i \in Parties : done'[i] <= c[i]
<1> DEFINE p == Position(at)
           e == Event(at)
           s == script[at]
           n == done[at]
<1>1. /\ at \in Parties /\ p \in Nat
      /\ e.op # "output" => e = s[p + 1] /\ p + 1 <= Len(s)
      /\ done'[at] = IF e.op \in {"all", "one", "yield"} THEN p + 1 ELSE p
      /\ \A j \in Parties \ {at} : done'[j] = done[j]
  BY ProceedMoves
<1>2. /\ \A j \in Parties : c[j] \in Nat /\ c[j] <= Len(script[j])
      /\ \A j \in Parties : done[j] \in Nat
      /\ Len(s) \in Nat
  BY <1>1, CutFacts, Counts DEF SimInv
<1>3. ~ Ends(at, c) => /\ s[c[at] + 1].op = "recv"
                       /\ SentBefore(at, c) <= ReceivedBefore(at, c)
  BY <1>1 DEF Blocked
<1>4. p <= c[at]
  <2>1. CASE Received(at)
    <3>1. /\ p = n + 1 /\ n < Len(s) /\ s[n + 1].op = "recv"
          /\ slot[at] # NoMsg
      BY <2>1 DEF Position, Received
    <3>2. ASSUME n = c[at]
          PROVE  FALSE
      <4>1. ~ Ends(at, c)
        BY <1>2, <3>1, <3>2 DEF Ends
      <4>2. ReceivedBefore(at, c) = ReceivedBefore(at, done)
        BY <3>2 DEF ReceivedBefore
      <4>3. SentBefore(at, done) <= SentBefore(at, c)
        BY <1>2, SentMonotone
      <4>4. Held(at) = 1
        BY <3>1 DEF Held
      <4>5. Len(got[at]) <= Len(Inbox(at)) /\ Len(got[at]) \in Nat
        <5>1. got[at] \in Seq(Messages) /\ queue[at] \in Seq(Messages)
          BY <1>1, InboxTypes DEF SimInv
        <5>2. Len(Inbox(at)) = Len(got[at]) + Len(queue[at])
          BY <5>1, ConcatProperties DEF Inbox
        <5>3. Len(got[at]) \in Nat /\ Len(queue[at]) \in Nat
          BY <5>1
        <5> DEFINE g == Len(got[at])
                   q == Len(queue[at])
                   b == Len(Inbox(at))
        <5>4. g \in Nat /\ q \in Nat /\ b = g + q
          BY <5>2, <5>3
        <5> HIDE DEF g, q, b
        <5>5. g \in Nat /\ g <= b
          BY <5>4
        <5>. QED
          BY <5>5 DEF g, b
      <4>6. /\ SentBefore(at, done) \in Nat /\ SentBefore(at, c) \in Nat
            /\ ReceivedBefore(at, done) \in Nat
        BY <1>1, <1>2, Counts, SendsFinite DEF SimInv
      <4>7. /\ Len(got[at]) = ReceivedBefore(at, done) + 1
            /\ Len(Inbox(at)) = SentBefore(at, done)
        BY <4>4 DEF Counted
      <4>. QED
        BY <1>3, <4>1, <4>2, <4>3, <4>5, <4>6, <4>7
    <3>3. n <= c[at] /\ n \in Nat /\ c[at] \in Nat
      BY <1>1, <1>2
    <3>. QED
      BY <3>1, <3>2, <3>3
  <2>2. CASE ~ Received(at)
    BY <1>1, <2>2 DEF Position
  <2>. QED
    BY <2>1, <2>2
<1>5. ASSUME e.op \in {"all", "one", "yield"}
      PROVE  p + 1 <= c[at]
  <2>1. e = s[p + 1] /\ p + 1 <= Len(s)
    BY <1>1, <1>5
  <2>2. ASSUME p = c[at]
        PROVE  FALSE
    <3> HIDE DEF p, e
    <3>1. ~ Ends(at, c)
      BY <1>1, <1>2, <1>5, <2>1, <2>2 DEF Ends
    <3>. QED
      BY <1>3, <1>5, <2>1, <2>2, <3>1
  <2>3. c[at] \in Nat
    BY <1>1, <1>2
  <2> HIDE DEF p
  <2>. QED
    BY <1>1, <1>4, <2>2, <2>3
<1>6. done'[at] <= c[at]
  BY <1>1, <1>4, <1>5
<1>. QED
  BY <1>1, <1>6

\* A call of proceed goes over no operation that cannot be done.
LEMMA ProceedDoes ==
    ASSUME SimInv, Proceed, NEW i \in Parties, CanBeDone(i)
    PROVE  CanBeDone(i)'
<1> DEFINE p == Position(at)
           e == Event(at)
           s == script[at]
           n == done[at]
<1>1. /\ at \in Parties /\ p \in Nat /\ status = "running"
      /\ e.op # "output" => e = s[p + 1]
      /\ done'[at] = IF e.op \in {"all", "one", "yield"} THEN p + 1 ELSE p
      /\ \A j \in Parties \ {at} : done'[j] = done[j]
      /\ script' = script
      /\ e.op \in {"all", "one"} => SendMessage(e, at)
  BY ProceedMoves
<1>2. \A x \in 1 .. done[i] :
        /\ script[i][x].op \notin {"unknown", "fail"}
        /\ script[i][x].op = "one" => script[i][x].to \in Parties
  BY <1>1 DEF CanBeDone
<1>3. CASE i # at
  BY <1>1, <1>2, <1>3 DEF CanBeDone
<1>4. CASE i = at
  <2>1. n \in Nat
    BY <1>1, Counts DEF SimInv
  <2>2. \A x \in 1 .. p :
          /\ s[x].op \notin {"unknown", "fail"}
          /\ s[x].op = "one" => s[x].to \in Parties
    <3>1. CASE Received(at)
      <4>1. p = n + 1 /\ s[n + 1].op = "recv"
        BY <3>1 DEF Position, Received
      <4>2. \A x \in 1 .. p : x \in 1 .. n \/ x = n + 1
        BY <2>1, <4>1
      <4>. QED
        BY <1>2, <1>4, <4>1, <4>2
    <3>2. CASE ~ Received(at)
      <4>1. p = n
        BY <3>2 DEF Position
      <4>. QED
        BY <1>2, <1>4, <4>1
    <3>. QED
      BY <3>1, <3>2
  <2> HIDE DEF p, e
  <2>3. CASE e.op \in {"all", "one", "yield"}
    <3>1. \A x \in 1 .. (p + 1) : x \in 1 .. p \/ x = p + 1
      BY <1>1
    <3>2. done'[at] = p + 1 /\ s[p + 1] = e
      BY <1>1, <2>3
    <3>3. e.op = "one" /\ status' \in {"running", "ok"} => e.to \in Parties
      BY <1>1 DEF SendMessage
    <3>4. \A x \in 1 .. done'[at] :
            /\ s[x].op \notin {"unknown", "fail"}
            /\ s[x].op = "one" /\ status' \in {"running", "ok"} =>
                  s[x].to \in Parties
      BY <2>2, <2>3, <3>1, <3>2, <3>3
    <3>. QED
      BY <1>1, <1>4, <3>4 DEF CanBeDone
  <2>4. CASE e.op \notin {"all", "one", "yield"}
    <3>1. done'[at] = p
      BY <1>1, <2>4
    <3>. QED
      BY <1>1, <1>4, <2>2, <3>1 DEF CanBeDone
  <2>. QED
    BY <2>3, <2>4
<1>. QED
  BY <1>3, <1>4

\* A call of proceed leaves the party at its end, at a receive, or active.
LEMMA ProceedStands ==
    ASSUME SimInv, Proceed, NEW i \in Parties, Stands(i)
    PROVE  Stands(i)'
<1> DEFINE p == Position(at)
           e == Event(at)
           s == script[at]
<1>1. /\ at \in Parties /\ p \in Nat /\ at \in active /\ ~ wants[at]
      /\ e.op # "output" => e = s[p + 1] /\ p + 1 <= Len(s)
      /\ e.op = "output" => p = Len(s)
      /\ done'[at] = IF e.op \in {"all", "one", "yield"} THEN p + 1 ELSE p
      /\ \A j \in Parties \ {at} : done'[j] = done[j]
      /\ script' = script
      /\ e.op \in {"all", "one"} => UNCHANGED <<active, wants>>
      /\ e.op = "recv" =>
           UNCHANGED active /\ wants' = [wants EXCEPT ![at] = TRUE]
      /\ e.op \in {"yield", "unknown"} => UNCHANGED <<active, wants>>
      /\ e.op \in {"output", "fail"} =>
           active' = active \ {at} /\ UNCHANGED wants
      /\ e.op \in {"all", "one", "recv", "yield", "unknown", "output", "fail"}
  BY ProceedMoves
<1>2. wants \in [Parties -> BOOLEAN]
  BY DEF SimInv, TypeOK
<1>3. Len(s) \in Nat
  BY <1>1, Counts DEF SimInv
<1> HIDE DEF p, e
<1>4. CASE i # at
  <2>1. (i \in active' <=> i \in active) /\ wants'[i] = wants[i]
    BY <1>1, <1>2, <1>4
  <2>2. done'[i] = done[i]
    BY <1>1, <1>4
  <2>. QED
    BY <1>1, <2>1, <2>2 DEF Stands, Ends
<1>5. CASE i = at /\ e.op \in {"output", "fail"}
  <2>1. done'[i] = p /\ i \notin active'
    BY <1>1, <1>5
  <2>2. p = Len(script'[i]) \/ script'[i][p + 1].op = "fail"
    BY <1>1, <1>5
  <2>. QED
    BY <2>1, <2>2 DEF Stands, Ends
<1>6. CASE i = at /\ e.op = "recv"
  <2>1. done'[i] = p /\ i \in active'
    BY <1>1, <1>6
  <2>2. p < Len(script'[i]) /\ script'[i][p + 1].op = "recv"
    BY <1>1, <1>3, <1>6
  <2>. QED
    BY <2>1, <2>2 DEF Stands
<1>7. CASE i = at /\ e.op \in {"all", "one", "yield", "unknown"}
  <2>1. i \in active' /\ ~ wants'[i]
    BY <1>1, <1>7
  <2>. QED
    BY <2>1 DEF Stands
<1>. QED
  BY <1>1, <1>4, <1>5, <1>6, <1>7

\* Whether a cut is blocked is a matter of the scripts.
LEMMA CutsStay ==
    ASSUME script' = script
    PROVE  /\ Cuts' = Cuts
           /\ \A c : Blocked(c)' <=> Blocked(c)
           /\ \A i, c : Ends(i, c)' <=> Ends(i, c)
           /\ Finishable' <=> Finishable
<1>1. Cuts' = Cuts
  BY DEF Cuts
<1>2. \A i, c : Ends(i, c)' <=> Ends(i, c)
  BY DEF Ends
<1>3. \A i, c : /\ SentBefore(i, c)' = SentBefore(i, c)
                /\ ReceivedBefore(i, c)' = ReceivedBefore(i, c)
  BY DEF SentBefore, ReceivedBefore
<1>4. \A c : Blocked(c)' <=> Blocked(c)
  BY <1>2, <1>3 DEF Blocked
<1>5. Finishable' <=> Finishable
  BY <1>1, <1>4 DEF Finishable
<1>. QED
  BY <1>1, <1>2, <1>4, <1>5

\* CutInv is inductive.
LEMMA CutStep ==
    ASSUME SimInv, InboxFollowsSent, CutInv, [Next]_vars
    PROVE  CutInv'
<1>1. CASE UNCHANGED <<script, done, slot, active, wants, queue, got>>
           /\ (status' = status \/ status = "running")
  <2>1. ASSUME NEW i \in Parties
        PROVE  Counted(i)' /\ CanBeDone(i)' /\ Stands(i)'
    <3>1. Counted(i) /\ CanBeDone(i) /\ Stands(i)
      BY DEF CutInv
    <3>2. Counted(i)'
      BY <1>1, <3>1 DEF Counted, ReceivedBefore, SentBefore, Inbox, Held, NoMsg
    <3>3. CanBeDone(i)'
      BY <1>1, <3>1 DEF CanBeDone
    <3>4. Stands(i)'
      BY <1>1, <3>1 DEF Stands, Ends
    <3>. QED
      BY <3>2, <3>3, <3>4
  <2>2. NonePassed'
    BY <1>1, CutsStay DEF CutInv, NonePassed
  <2>. QED
    BY <2>1, <2>2 DEF CutInv
<1>2. CASE SkipFinished \/ NoMessage \/ UNCHANGED vars
  BY <1>1, <1>2 DEF SkipFinished, NoMessage, vars
<1>3. CASE Deliver
  <2>1. /\ at \in Parties
        /\ wants' = [wants EXCEPT ![at] = FALSE]
        /\ UNCHANGED <<script, done, active, status>>
    BY <1>3, DeliverFacts
  <2>2. wants \in [Parties -> BOOLEAN]
    BY DEF SimInv, TypeOK
  <2>3. ASSUME NEW i \in Parties
        PROVE  Counted(i)' /\ CanBeDone(i)' /\ Stands(i)'
    <3>1. Counted(i) /\ CanBeDone(i) /\ Stands(i)
      BY DEF CutInv
    <3>2. Counted(i)'
      BY <1>3, <3>1, DeliverCounts
    <3>3. CanBeDone(i)'
      BY <2>1, <3>1 DEF CanBeDone
    <3>4. wants'[i] => wants[i]
      BY <2>1, <2>2
    <3>5. Stands(i)'
      BY <2>1, <3>1, <3>4 DEF Stands, Ends
    <3>. QED
      BY <3>2, <3>3, <3>5
  <2>4. NonePassed'
    BY <2>1, CutsStay DEF CutInv, NonePassed
  <2>. QED
    BY <2>3, <2>4 DEF CutInv
<1>4. CASE Proceed
  <2>1. at \in Parties /\ script' = script
    BY <1>4, ProceedMoves
  <2>2. ASSUME NEW i \in Parties
        PROVE  Counted(i)' /\ CanBeDone(i)' /\ Stands(i)'
    <3>1. Counted(i) /\ CanBeDone(i) /\ Stands(i)
      BY DEF CutInv
    <3>2. Counted(i)'
      BY <1>4, <3>1, ProceedCountsReceived, ProceedCountsSent DEF Counted
    <3>. QED
      BY <1>4, <3>1, <3>2, ProceedDoes, ProceedStands
  <2>3. NonePassed'
    <3>1. ASSUME NEW c \in Cuts, Blocked(c)
          PROVE  \A i \in Parties : done'[i] <= c[i]
      <4>1. \A i \in Parties : done[i] <= c[i]
        BY <3>1 DEF CutInv, NonePassed
      <4>2. Counted(at)
        BY <2>1 DEF CutInv
      <4>. QED
        BY <1>4, <3>1, <4>1, <4>2, ProceedStaysBehind
    <3>. QED
      BY <2>1, <3>1, CutsStay DEF NonePassed
  <2>. QED
    BY <2>2, <2>3 DEF CutInv
<1>. QED
  BY <1>2, <1>3, <1>4 DEF Next

\* CutInv holds when run begins.
LEMMA InitCut ==
    ASSUME Init
    PROVE  CutInv
<1>1. TypeOK /\ \A i \in Parties : done[i] = 0
  BY InitSim DEF Init, SimInv
<1>2. ASSUME NEW i \in Parties
      PROVE  Counted(i) /\ CanBeDone(i) /\ Stands(i)
  <2>1. /\ done[i] = 0 /\ slot[i] = NoMsg /\ i \in active /\ ~ wants[i]
        /\ got[i] = << >> /\ queue[i] = << >>
    BY DEF Init
  <2>2. 1 .. done[i] = {}
    BY <2>1
  <2>3. ReceivedBefore(i, done) = 0
    BY <2>2, FS_EmptySet DEF ReceivedBefore
  <2>4. SentBefore(i, done) = 0
    <3>1. \A j \in Parties : SendsOf(j, i, done[j]) = {}
      <4>1. \A j \in Parties : 1 .. done[j] = {}
        BY <1>1
      <4>. QED
        BY <4>1 DEF SendsOf
    <3>2. SendsTo(i, done) = {}
      BY <3>1 DEF SendsTo
    <3>3. SentBefore(i, done) = Cardinality(SendsTo(i, done))
      BY DEF SentBefore, SendsTo, SendsOf
    <3>. QED
      BY <3>2, <3>3, FS_EmptySet
  <2>5. Len(got[i]) = 0 /\ Len(Inbox(i)) = 0
    <3>1. << >> \o << >> = << >>
      <4>1. << >> \in Seq(Messages)
        BY EmptySeq
      <4>. QED
        BY <4>1, ConcatEmptySeq
    <3>. QED
      BY <2>1, <3>1 DEF Inbox
  <2>6. Held(i) = 0
    BY <2>1 DEF Held
  <2>7. Counted(i)
    BY <2>3, <2>4, <2>5, <2>6 DEF Counted
  <2>8. CanBeDone(i)
    BY <2>2 DEF CanBeDone
  <2>9. Stands(i)
    BY <2>1 DEF Stands
  <2>. QED
    BY <2>7, <2>8, <2>9
<1>3. NonePassed
  <2> SUFFICES ASSUME NEW c \in Cuts, NEW i \in Parties
               PROVE  done[i] <= c[i]
    BY DEF NonePassed
  <2>1. c[i] \in Nat
    BY <1>1, CutFacts
  <2>. QED
    BY <1>1, <2>1
<1>. QED
  BY <1>2, <1>3 DEF CutInv

\* In every run: the counts of what was sent and received are right, and nobody
\* gets past a cut that cannot be passed.
LEMMA CutInvariant == Spec => []CutInv
<1>1. Init => CutInv
  BY InitCut
<1>2. SimInv /\ InboxFollowsSent /\ CutInv /\ [Next]_vars => CutInv'
  BY CutStep
<1>. QED
  BY <1>1, <1>2, SimInvariant, InboxCorrect, PTL DEF Spec

\* All parties have finished, so the scripts can be run to their ends: a
\* blocked cut would be behind one of them.
LEMMA AllFinished ==
    ASSUME SimInv, CutInv
    PROVE  ReturnsOnlyIfPossible
<1> SUFFICES ASSUME status = "ok"
             PROVE  Finishable
  BY DEF ReturnsOnlyIfPossible
<1>1. \A i \in Parties : Ends(i, done) /\ CanBeDone(i)
  BY DEF SimInv, OkMeansAllFinished, CutInv, Stands
<1>2. ASSUME NEW i \in Parties
      PROVE  /\ done[i] \in Nat /\ Len(script[i]) \in Nat
             /\ done[i] <= Len(script[i])
             /\ DOMAIN script[i] = 1 .. Len(script[i])
             /\ \A x \in DOMAIN script[i] :
                  script[i][x].op = "fail" => x = Len(script[i])
             /\ done[i] # Len(script[i]) => done[i] + 1 \in DOMAIN script[i]
  <2>1. script[i] \in Scripts /\ script[i] \in Seq(Ops)
    BY SimulationAssumption DEF SimInv, TypeOK
  <2>2. /\ done[i] \in Nat /\ Len(script[i]) \in Nat
        /\ done[i] <= Len(script[i])
    BY Counts DEF SimInv
  <2>3. DOMAIN script[i] = 1 .. Len(script[i])
    BY <2>1
  <2>4. done[i] # Len(script[i]) => done[i] + 1 \in DOMAIN script[i]
    BY <2>2, <2>3
  <2>. QED
    BY <2>1, <2>2, <2>3, <2>4, SimulationAssumption
<1>3. ASSUME NEW i \in Parties
      PROVE  \/ done[i] = Len(script[i])
             \/ /\ done[i] + 1 = Len(script[i])
                /\ script[i][Len(script[i])].op = "fail"
  BY <1>1, <1>2 DEF Ends
<1>4. ASSUME NEW i \in Parties, NEW x \in DOMAIN script[i]
      PROVE  /\ script[i][x].op # "unknown"
             /\ script[i][x].op = "one" => script[i][x].to \in Parties
  <2>1. x \in 1 .. done[i] \/ (x = Len(script[i]) /\ script[i][x].op = "fail")
    BY <1>2, <1>3
  <2>2. CASE x \in 1 .. done[i]
    BY <1>1, <2>2 DEF CanBeDone
  <2>3. CASE script[i][x].op = "fail"
    BY <2>3
  <2>. QED
    BY <2>1, <2>2, <2>3
<1>5. ASSUME NEW c \in Cuts, Blocked(c)
      PROVE  FALSE
  <2>1. PICK i \in Parties : ~ Ends(i, c)
    BY <1>5 DEF Blocked
  <2>2. done[i] <= c[i] /\ c[i] \in Nat /\ c[i] <= Len(script[i])
    BY <1>5, CutFacts DEF SimInv, CutInv, NonePassed
  <2>3. c[i] # Len(script[i])
    BY <2>1 DEF Ends
  <2>4. c[i] = done[i] /\ c[i] + 1 = Len(script[i])
        /\ script[i][Len(script[i])].op = "fail"
    BY <1>2, <1>3, <2>2, <2>3
  <2>. QED
    BY <2>1, <2>4 DEF Ends
<1>. QED
  BY <1>4, <1>5 DEF Finishable

\* run never claims a result of a protocol that cannot be run.
THEOREM ReturnsOnlyIfPossibleCorrect == Spec => []ReturnsOnlyIfPossible
<1>1. SimInv /\ CutInv => ReturnsOnlyIfPossible
  BY AllFinished
<1>. QED
  BY <1>1, SimInvariant, CutInvariant, PTL

\* Some party that is active can do a step: it does not wait, or there is a
\* message for it.
SomeoneCanGoOn ==
    status = "running" /\ active # {} /\ Finishable =>
        \E i \in active : ~ wants[i] \/ queue[i] # << >>

\* If all active parties waited for messages and none was left, the place where
\* they are would be a blocked cut.
LEMMA GoesOn ==
    ASSUME SimInv, CutInv
    PROVE  SomeoneCanGoOn
<1> SUFFICES ASSUME active # {}, Finishable,
                    \A i \in active : wants[i] /\ queue[i] = << >>
             PROVE  FALSE
  BY DEF SomeoneCanGoOn
<1> DEFINE c == [i \in Parties |-> done[i]]
<1>1. /\ TypeOK /\ active \subseteq Parties
      /\ \A i \in Parties : Counted(i) /\ Stands(i)
  BY DEF SimInv, TypeOK, CutInv
<1>2. \A i \in Parties :
        done[i] \in 0 .. Len(script[i]) /\ done[i] <= Len(script[i])
  BY <1>1, Counts
<1>3. c \in Cuts
  <2>1. \A i \in Parties :
          done[i] \in UNION {0 .. Len(script[j]) : j \in Parties}
    BY <1>2
  <2>2. c \in [Parties -> UNION {0 .. Len(script[j]) : j \in Parties}]
    BY <2>1
  <2>3. \A i \in Parties : c[i] <= Len(script[i])
    BY <1>2
  <2> HIDE DEF c
  <2>. QED
    BY <2>2, <2>3 DEF Cuts
<1>4. \A i \in Parties : c[i] = done[i]
  OBVIOUS
<1> HIDE DEF c
<1>5. ASSUME NEW i \in active
      PROVE  /\ ~ Ends(i, c) /\ script[i][c[i] + 1].op = "recv"
             /\ SentBefore(i, c) <= ReceivedBefore(i, c)
  <2>1. i \in Parties /\ wants[i] /\ queue[i] = << >>
    BY <1>1
  <2>2. /\ done[i] < Len(script[i]) /\ script[i][done[i] + 1].op = "recv"
        /\ c[i] = done[i] /\ done[i] # Len(script[i])
    BY <1>1, <1>2, <1>4, <2>1 DEF Stands
  <2>3. ~ Ends(i, c)
    BY <2>2 DEF Ends
  <2>4. Held(i) = 0
    BY <2>1 DEF SimInv, MessagesAreSaved, Held
  <2>5. Inbox(i) = got[i]
    <3>1. got[i] \in Seq(Messages)
      BY <1>1, <2>1, InboxTypes
    <3>. QED
      BY <2>1, <3>1, ConcatEmptySeq DEF Inbox
  <2>6. /\ SentBefore(i, c) = SentBefore(i, done)
        /\ ReceivedBefore(i, c) = ReceivedBefore(i, done)
    BY <1>4, <2>1, CountsAgree
  <2>7. SentBefore(i, done) \in Nat /\ ReceivedBefore(i, done) \in Nat
    BY <1>1, <2>1, Counts
  <2>8. SentBefore(i, done) = ReceivedBefore(i, done)
    BY <1>1, <2>1, <2>4, <2>5, <2>7 DEF Counted
  <2>. QED
    BY <2>2, <2>3, <2>6, <2>7, <2>8
<1>6. \A i \in Parties : i \notin active => Ends(i, c)
  BY <1>1, <1>4 DEF Stands, Ends
<1>7. Blocked(c)
  BY <1>1, <1>5, <1>6 DEF Blocked
<1>. QED
  BY <1>3, <1>7 DEF Finishable

\* While a protocol that can be run is running, run does not merely go round:
\* until all parties have finished, a pass finds one that does a step.
THEOREM GoesOnCorrect == Spec => []SomeoneCanGoOn
<1>1. SimInv /\ CutInv => SomeoneCanGoOn
  BY GoesOn
<1>. QED
  BY <1>1, SimInvariant, CutInvariant, PTL
=============================================================================
