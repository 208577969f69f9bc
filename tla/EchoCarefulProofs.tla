------------------------- MODULE EchoCarefulProofs -------------------------
(***************************************************************************)
(* What holds if the protocol of every honest party is careful: it sends   *)
(* once in a round, the way the round demands, then awaits the round.  Its *)
(* runs then implement the abstract reliable broadcast, whatever the       *)
(* dishonest parties do; and if there are none, and the network is         *)
(* faultless, nobody fails and nobody gets stuck.                          *)
(***************************************************************************)
EXTENDS EchoBroadcastProofs

\* Careful protocols only.
Careful == Careless = {}

-----------------------------------------------------------------------------
(***************************************************************************)
(* The order of the steps of a party.                                      *)
(***************************************************************************)
\* The party has passed the send of its message of round r.
MainSent(q, r) == r < rnd[q] \/ (r = rnd[q] /\ pc[q] # "idle")

\* What honest parties are quoted to have sent in a round.
Quotes(p, r, out) ==
    \A q \in Honest \ {p} : IsCast(q, r, out.messages[SlotOf(p, q)])

\* Messages are cast by parties that have passed their send; what was given to
\* the protocol are the messages of the rounds before the current one, and
\* honest senders have sent them.
OrderInv ==
    /\ \A c \in cast : MainSent(c.sender, c.round)
    /\ \A p \in Honest :
         /\ pc[p] = "done" => rnd[p] = R
         /\ DOMAIN exposed[p] = {r \in Rounds : r < rnd[p]}
         /\ \A r \in DOMAIN exposed[p] : Quotes(p, r, exposed[p][r])

\* The party stays in its round, past its send.
Stays(p) ==
    /\ rnd'[p] = rnd[p] /\ pc'[p] \notin {"idle", "done"}
    /\ exposed'[p] = exposed[p]

\* It is given the messages of the round it is in, and leaves the round; those
\* of a reliable round are the output of its check.
IsGiven(p, out) ==
    /\ exposed'[p] = With(exposed[p], rnd[p], out)
    /\ rnd[p] \in Rounds
    /\ rnd'[p] = rnd[p] + 1
    /\ pc'[p] = IF rnd[p] + 1 = R THEN "done" ELSE "idle"
    /\ Quotes(p, rnd[p], out)
    /\ rnd[p] \in Reliable =>
         /\ rnd[p] \in DOMAIN check[p]
         /\ out = check[p][rnd[p]].out

Moves(p) ==
    /\ DOMAIN exposed' = Honest
    /\ \A q \in Honest \ {p} :
         pc'[q] = pc[q] /\ rnd'[q] = rnd[q] /\ exposed'[q] = exposed[q]
    /\ Stays(p) \/ \E out : IsGiven(p, out)

\* Failing is a move of the party.
LEMMA FailMoves ==
    ASSUME Inv, NEW p \in Honest, NEW STATE kind, Fail(p, kind)
    PROVE  Moves(p)
  BY DEF Inv, Shapes, Fail, Moves, Stays

\* So is what complete does with the messages of a round.
LEMMA MainMoves ==
    ASSUME Inv, NEW p \in Honest, pc[p] \in Running,
           NEW STATE es, MainAt(p, es), TryCompleteMain(p, es)
    PROVE  Moves(p)
<1>1. Shapes /\ rnd[p] \in Rounds
  BY RoundsFacts DEF Inv, Local, Where, Rounds
<1>2. CASE es[rnd[p]].st = "Ongoing"
  BY <1>1, <1>2 DEF TryCompleteMain, Shapes, Moves, Stays
<1>3. CASE es[rnd[p]].st = "Failed"
  BY <1>3, FailMoves DEF TryCompleteMain
<1>4. CASE es[rnd[p]].st = "Collected" /\ rnd[p] \notin Reliable
  <2>1. Expose(p, es[rnd[p]].out)
    BY <1>4 DEF TryCompleteMain
  <2>2. Quotes(p, rnd[p], es[rnd[p]].out)
    <3> DEFINE r == rnd[p]
               e == es[r]
    <3>1. GoodMain(p, r, e) /\ MainAuthentic(p, r, e) /\ p \in Parties
      BY <1>1, EntriesNow DEF MainAt, MainEntries
    <3>2. e.out.messages \in [Slots(N) -> Values] /\ Held(e) = e.out.messages
      BY <1>4, <3>1, EntryCases DEF GoodMain, GoodEntry, Outputs, Held
    <3>3. \A q \in Honest \ {p} : SlotOf(p, q) \in Slots(N)
      BY <3>1, PartiesFacts, SlotsAndParties
    <3> HIDE DEF e
    <3>. QED
      BY <3>1, <3>2, <3>3 DEF Quotes, MainAuthentic, e
  <2>3. IsGiven(p, es[rnd[p]].out)
    BY <1>1, <1>4, <2>1, <2>2 DEF Expose, IsGiven, Shapes
  <2>. QED
    BY <1>1, <2>1, <2>3 DEF Expose, Moves, Shapes
<1>5. CASE es[rnd[p]].st = "Collected" /\ rnd[p] \in Reliable
  BY <1>1, <1>5 DEF TryCompleteMain, Shapes, Moves, Stays
<1>. QED
  BY <1>2, <1>3, <1>4, <1>5 DEF TryCompleteMain

\* So is what complete does with the hashes of a round.
LEMMA EchoMoves ==
    ASSUME Inv, NEW p \in Honest, pc[p] \in {"sendEcho", "echo"},
           NEW STATE es, TryCompleteEcho(p, es)
    PROVE  Moves(p)
<1>1. Shapes /\ rnd[p] \in Rounds
  BY RoundsFacts DEF Inv, Local, Where, Bookkeeping
<1>2. CASE es[rnd[p]].st = "Ongoing"
  BY <1>1, <1>2 DEF TryCompleteEcho, Shapes, Moves, Stays
<1>3. CASE \E kind \in {es[rnd[p]].err, "MismatchedHash"} : Fail(p, kind)
  BY <1>3, FailMoves
<1>4. CASE Expose(p, check[p][rnd[p]].out)
  <2>1. rnd[p] \in DOMAIN check[p]
    BY DEF Inv, Local, Where
  <2>2. Quotes(p, rnd[p], check[p][rnd[p]].out)
    BY <2>1 DEF Inv, Authentic, CheckAuthentic, Quotes
  <2>3. IsGiven(p, check[p][rnd[p]].out)
    BY <1>1, <1>4, <2>1, <2>2 DEF Expose, IsGiven, Shapes
  <2>. QED
    BY <1>1, <1>4, <2>3 DEF Expose, Moves, Shapes
<1>. QED
  BY <1>2, <1>3, <1>4 DEF TryCompleteEcho

\* A message is handed to the network: once in a round by a careful party.
HandsOver(p, v) ==
    \E some \in SUBSET Honest :
        Hand(p, rnd[p], IF rnd[p] \in Reliable THEN "Reliable" ELSE "All",
             v, some)

\* A careful party sends in the current round and before it completes it.
LEMMA SendMoves ==
    ASSUME Careful, Inv, NEW p \in Honest, NEW r \in Rounds,
           NEW dest \in Destinations, NEW v \in Values,
           Send(p, r, dest, v) \/ SendFails(p, r, dest, v)
    PROVE  /\ Moves(p) /\ HandsOver(p, v)
           /\ pc[p] = "idle" /\ r = rnd[p] /\ rnd'[p] = rnd[p]
           /\ pc'[p] # "idle" /\ UNCHANGED exposed
<1>1. Shapes
  BY DEF Inv
<1>2. /\ pc[p] = "idle" /\ r = rnd[p]
      /\ dest = IF rnd[p] \in Reliable THEN "Reliable" ELSE "All"
  BY DEF Careful, Send, SendFails, MaySend
<1>3. PICK some \in SUBSET Honest : Hand(p, r, dest, v, some)
  <2>1. PICK qs \in Recipients(p, dest) :
            \E some \in SUBSET qs : Hand(p, r, dest, v, some)
    BY DEF Send, SendFails
  <2>2. qs \subseteq Honest
    BY RecipientsFacts
  <2>. QED
    BY <2>1, <2>2
<1>4. HandsOver(p, v)
  BY <1>2, <1>3 DEF HandsOver
<1>5. pc' = [pc EXCEPT ![p] = "sent"] \/ pc' = [pc EXCEPT ![p] = "failed"]
  BY DEF Careful, Send, SendFails
<1>6. UNCHANGED <<rnd, exposed>>
  BY <1>3 DEF Hand
<1>7. Moves(p)
  BY <1>1, <1>5, <1>6 DEF Moves, Stays, Shapes
<1>. QED
  BY <1>1, <1>2, <1>4, <1>5, <1>6, <1>7 DEF Shapes


\* A message comes in.
LEMMA HandleMoves ==
    ASSUME Inv, NEW p \in Honest, pc[p] \in {"main", "echo"},
           NEW m, Comes(m), Handle(p, m)
    PROVE  Moves(p)
  BY FailMoves, MainMoves, EchoMoves, RouteKeeps DEF Handle, Running

\* A careful party hands over its message of the round it is in.
Sends(p, v) ==
    /\ HandsOver(p, v)
    /\ pc[p] = "idle" /\ rnd[p] \in Rounds
    /\ pc'[p] # "idle" /\ rnd'[p] = rnd[p]
    /\ UNCHANGED exposed

\* Every step moves one party; it casts a message only when it sends.
LEMMA NextMoves ==
    ASSUME Careful, Inv, Next
    PROVE  \E p \in Honest :
             /\ Moves(p)
             /\ UNCHANGED cast \/ \E v \in Values : Sends(p, v)
<1>1. PICK p \in Honest :
        \/ \E r \in Rounds, dest \in Destinations :
              \/ \E v \in Values :
                    Send(p, r, dest, v) \/ SendFails(p, r, dest, v)
              \/ SendRefused(p, r, dest)
        \/ Complete(p) \/ CancelComplete(p)
        \/ SendEcho(p) \/ SendEchoFails(p)
        \/ \E m \in {x \in net : x.to = p} : Receive(p, m)
        \/ \E m \in ByzPackets(p) : ReceiveByz(p, m)
  BY DEF Next
<1>2. ASSUME NEW r \in Rounds, NEW dest \in Destinations, NEW v \in Values,
             Send(p, r, dest, v) \/ SendFails(p, r, dest, v)
      PROVE  Moves(p) /\ Sends(p, v)
  <2>1. /\ Moves(p) /\ HandsOver(p, v)
        /\ pc[p] = "idle" /\ r = rnd[p] /\ rnd'[p] = rnd[p]
        /\ pc'[p] # "idle" /\ UNCHANGED exposed
    BY <1>2, SendMoves
  <2>. QED
    BY <2>1 DEF Sends
<1>3. ASSUME NEW r \in Rounds, NEW dest \in Destinations, SendRefused(p, r, dest)
      PROVE  Moves(p) /\ UNCHANGED cast
  <2>1. Fail(p, OnSendError(p, r, dest)) /\ UNCHANGED cast
    BY <1>3 DEF SendRefused
  <2>. QED
    BY <2>1, FailMoves
<1>4. CASE Complete(p)
  <2>1. TryCompleteMain(p, main[p]) /\ pc[p] \in Running /\ UNCHANGED cast
    BY <1>4 DEF Complete, Running
  <2>. QED
    BY <2>1, MainMoves, EntriesNow
<1>5. CASE SendEcho(p)
  <2>1. TryCompleteEcho(p, echo[p]) /\ pc[p] = "sendEcho" /\ UNCHANGED cast
    BY <1>5 DEF SendEcho
  <2>. QED
    BY <2>1, EchoMoves
<1>6. CASE SendEchoFails(p)
  <2>1. Fail(p, "Send") /\ UNCHANGED cast
    BY <1>6 DEF SendEchoFails
  <2>. QED
    BY <2>1, FailMoves
<1>7. ASSUME NEW m, \/ m \in net /\ Receive(p, m)
                    \/ m \in ByzPackets(p) /\ ReceiveByz(p, m)
      PROVE  Moves(p) /\ UNCHANGED cast
  <2>1. pc[p] \in {"main", "echo"} /\ Handle(p, m) /\ UNCHANGED cast
    BY <1>7 DEF Receive, ReceiveByz
  <2>2. Comes(m)
    BY <1>7, NetComes, ByzComes
  <2>. QED
    BY <2>1, <2>2, HandleMoves
<1>8. ~ CancelComplete(p)
  BY DEF Careful, CancelComplete
<1>. QED
  BY <1>1, <1>2, <1>3, <1>4, <1>5, <1>6, <1>7, <1>8

\* What a send adds to the messages that were cast.
LEMMA SendsCast ==
    ASSUME NEW p \in Honest, NEW v \in Values, Sends(p, v)
    PROVE  \/ UNCHANGED cast
           \/ cast' = cast \cup {[sender |-> p, round |-> rnd[p], msg |-> v]}
  BY DEF Sends, HandsOver, Hand

\* OrderInv holds at the start.
LEMMA OrderInit == Init => OrderInv
<1> SUFFICES ASSUME Init PROVE OrderInv
  OBVIOUS
<1>1. ASSUME NEW p \in Honest
      PROVE  /\ pc[p] = "done" => rnd[p] = R
             /\ DOMAIN exposed[p] = {} /\ rnd[p] = 0
  BY DEF Init, NoMessages
<1>2. {r \in Rounds : r < 0} = {}
  BY RoundsFacts DEF Rounds
<1>. QED
  BY <1>1, <1>2 DEF Init, OrderInv

\* The order of the steps of one party.
LEMMA GivenOrder ==
    ASSUME Inv, OrderInv, NEW p \in Honest, Moves(p), cast \subseteq cast'
    PROVE  /\ \A r \in Nat : MainSent(p, r) => MainSent(p, r)'
           /\ pc'[p] = "done" => rnd'[p] = R
           /\ DOMAIN exposed'[p] = {r \in Rounds : r < rnd'[p]}
           /\ \A r \in DOMAIN exposed'[p] : Quotes(p, r, exposed[p][r])'
<1>1. /\ rnd[p] \in Nat /\ Rounds \subseteq Nat
      /\ DOMAIN exposed[p] = {r \in Rounds : r < rnd[p]}
      /\ \A r \in DOMAIN exposed[p] : Quotes(p, r, exposed[p][r])
  BY RoundsFacts, EchoAssumption DEF Inv, Local, Where, OrderInv
<1>2. \A r, out : Quotes(p, r, out) =>
          \A q \in Honest \ {p} :
              [sender |-> q, round |-> r, msg |-> out.messages[SlotOf(p, q)]]
                  \in cast'
  BY DEF Quotes, IsCast
<1>3. CASE Stays(p)
  BY <1>1, <1>2, <1>3 DEF Stays, MainSent, Quotes, IsCast
<1>4. CASE \E out : IsGiven(p, out)
  <2>1. PICK out : IsGiven(p, out)
    BY <1>4
  <2>2. /\ DOMAIN exposed'[p] = DOMAIN exposed[p] \cup {rnd[p]}
        /\ exposed'[p][rnd[p]] = out
        /\ \A r \in DOMAIN exposed[p] :
             r # rnd[p] => exposed'[p][r] = exposed[p][r]
        /\ rnd'[p] = rnd[p] + 1 /\ rnd[p] \in Rounds
        /\ pc'[p] = "done" => rnd[p] + 1 = R
        /\ Quotes(p, rnd[p], out)
    BY <2>1 DEF IsGiven, With
  <2>3. DOMAIN exposed'[p] = {r \in Rounds : r < rnd'[p]}
    <3>1. \A r \in Rounds : r < rnd[p] + 1 <=> r < rnd[p] \/ r = rnd[p]
      <4>1. \A k, r \in Nat : r < k + 1 <=> r < k \/ r = k
        OBVIOUS
      <4>2. rnd[p] \in Nat /\ Rounds \subseteq Nat
        BY <1>1
      <4>. QED
        BY <4>1, <4>2
    <3>2. DOMAIN exposed'[p] = {r \in Rounds : r < rnd[p] \/ r = rnd[p]}
      BY <1>1, <2>2
    <3>. QED
      BY <2>2, <3>1, <3>2
  <2>4. \A r \in DOMAIN exposed'[p] : Quotes(p, r, exposed'[p][r])
    BY <1>1, <2>2
  <2>5. \A r \in DOMAIN exposed'[p] : Quotes(p, r, exposed[p][r])'
    BY <1>2, <2>4 DEF Quotes, IsCast
  <2>6. \A r \in Nat : MainSent(p, r) => MainSent(p, r)'
    BY <1>1, <2>2 DEF MainSent
  <2>. QED
    BY <2>2, <2>3, <2>5, <2>6
<1>. QED
  BY <1>3, <1>4 DEF Moves

\* Every step of careful parties keeps OrderInv.
LEMMA OrderStep == Careful /\ Inv /\ OrderInv /\ [Next]_vars => OrderInv'
<1> SUFFICES ASSUME Careful, Inv, OrderInv, [Next]_vars PROVE OrderInv'
  OBVIOUS
<1>1. CASE UNCHANGED vars
  BY <1>1 DEF vars, OrderInv, MainSent, Quotes, IsCast
<1>2. CASE Next
  <2>1. PICK p \in Honest :
          /\ Moves(p)
          /\ UNCHANGED cast \/ \E v \in Values : Sends(p, v)
    BY <1>2, NextMoves
  <2>2. cast \subseteq cast'
    BY <2>1, SendsCast
  <2>3. cast \subseteq [sender : Honest, round : Rounds, msg : Values]
        /\ Rounds \subseteq Nat
    BY EchoAssumption DEF Inv, Authentic, Rounds
  <2>4. /\ \A r \in Nat : MainSent(p, r) => MainSent(p, r)'
        /\ pc'[p] = "done" => rnd'[p] = R
        /\ DOMAIN exposed'[p] = {r \in Rounds : r < rnd'[p]}
        /\ \A r \in DOMAIN exposed'[p] : Quotes(p, r, exposed[p][r])'
    BY <2>1, <2>2, GivenOrder
  <2>5. ASSUME NEW c \in cast' PROVE MainSent(c.sender, c.round)'
    <3>1. CASE c \in cast
      <4>1. c.sender \in Honest /\ c.round \in Nat
            /\ MainSent(c.sender, c.round)
        BY <2>3, <3>1 DEF OrderInv
      <4>2. CASE c.sender = p
        BY <2>4, <4>1, <4>2
      <4>3. CASE c.sender # p
        BY <2>1, <4>1, <4>3 DEF MainSent, Moves
      <4>. QED
        BY <4>2, <4>3
    <3>2. CASE c \notin cast
      <4>1. PICK v \in Values : Sends(p, v)
        BY <2>1, <3>2
      <4>2. c = [sender |-> p, round |-> rnd[p], msg |-> v]
        BY <3>2, <4>1, SendsCast
      <4>. QED
        BY <4>1, <4>2 DEF MainSent, Sends
    <3>. QED
      BY <3>1, <3>2
  <2>6. ASSUME NEW q \in Honest, q # p
        PROVE  /\ pc'[q] = "done" => rnd'[q] = R
               /\ DOMAIN exposed'[q] = {r \in Rounds : r < rnd'[q]}
               /\ \A r \in DOMAIN exposed'[q] : Quotes(q, r, exposed[q][r])'
    <3>1. /\ pc'[q] = pc[q] /\ rnd'[q] = rnd[q] /\ exposed'[q] = exposed[q]
      BY <2>1, <2>6 DEF Moves
    <3>. QED
      BY <2>2, <3>1 DEF OrderInv, Quotes, IsCast
  <2>. QED
    BY <2>4, <2>5, <2>6 DEF OrderInv
<1>. QED
  BY <1>1, <1>2

-----------------------------------------------------------------------------
(***************************************************************************)
(* The parties implement a reliable broadcast.                             *)
(***************************************************************************)
\* The state of the reliable broadcast.
CastView == {c \in cast : c.round \in Reliable}

Row(p, out) == [s \in Parties \ {p} |-> out.messages[SlotOf(p, s)]]

OutView ==
    [p \in Honest |-> [r \in DOMAIN exposed[p] \cap Reliable |->
                         [s \in Parties \ {p} |->
                            exposed[p][r].messages[SlotOf(p, s)]]]]

\* The messages of a check, by sender, are authentic and consistent.
LEMMA CheckedRow ==
    ASSUME Inv, NEW p \in Honest, NEW r \in DOMAIN check[p]
    PROVE  LET vec == Row(p, check[p][r].out) IN
           /\ r \in Reliable
           /\ vec \in [Parties \ {p} -> Values]
           /\ RB!Authentic(p, r, vec)
           /\ RB!Consistent(p, r, vec)
<1> DEFINE vec == Row(p, check[p][r].out)
<1>1. /\ r \in Reliable /\ GoodCheck(p, r, check[p][r])
      /\ CheckAuthentic(p, r, check[p][r])
  BY DEF Inv, Local, Bookkeeping, Authentic
<1>2. /\ p \in Parties /\ p \in 0 .. (N - 1) /\ N \in Nat /\ N >= 2
      /\ Others(p, N) = Parties \ {p} /\ Honest \subseteq Parties
  BY EchoAssumption, PartiesFacts
<1>3. ASSUME NEW s \in Parties \ {p}
      PROVE  /\ vec[s] = check[p][r].out.messages[SlotOf(p, s)]
             /\ vec[s] = check[p][r].hash.msgs[s]
             /\ vec[s] \in Values
  <2>1. SlotOf(p, s) \in Slots(N)
    BY <1>2, SlotsAndParties
  <2>. QED
    BY <1>1, <1>2, <2>1 DEF Row, GoodCheck, Outputs
<1>4. vec \in [Parties \ {p} -> Values]
  BY <1>3 DEF Row
<1>5. RB!Authentic(p, r, vec)
  <2> SUFFICES ASSUME NEW s \in Honest \ {p}
               PROVE  [sender |-> s, round |-> r, msg |-> vec[s]]
                          \in {c \in cast : c.round \in Reliable}
    BY DEF RB!Authentic
  <2>1. [sender |-> s, round |-> r, msg |-> vec[s]] \in cast
    BY <1>1, <1>2, <1>3 DEF CheckAuthentic, IsCast
  <2>. QED
    BY <1>1, <2>1
<1>6. RB!Consistent(p, r, vec)
  <2> SUFFICES ASSUME NEW q \in Honest \ {p}, r \in DOMAIN exposed[q],
                      NEW s \in Parties \ {p, q}
               PROVE  exposed[q][r].messages[SlotOf(q, s)] = vec[s]
    BY <1>1 DEF RB!Consistent
  <2>1. /\ r \in DOMAIN check[q] /\ exposed[q][r] = check[q][r].out
        /\ check[q][r].hash = check[p][r].hash
    BY <1>1 DEF Inv, HashesAgree, Local, GoodExposed
  <2>2. GoodCheck(q, r, check[q][r])
    BY <2>1 DEF Inv, Local, Bookkeeping
  <2>3. s \in Others(q, N)
    BY <1>2, PartiesFacts
  <2>. QED
    BY <1>3, <2>1, <2>2, <2>3 DEF GoodCheck
<1> HIDE DEF vec
<1>. QED
  BY <1>1, <1>4, <1>5, <1>6 DEF vec

\* The abstract outputs, by sender.
LEMMA OutViewAt ==
    ASSUME NEW p \in Honest
    PROVE  /\ DOMAIN OutView[p] = DOMAIN exposed[p] \cap Reliable
           /\ \A r \in DOMAIN exposed[p] \cap Reliable :
                OutView[p][r] = Row(p, exposed[p][r])
  BY DEF OutView, Row

\* Nothing that was cast or given is seen by the reliable broadcast.
LEMMA SameView ==
    ASSUME NEW p \in Honest, Moves(p), exposed'[p] = exposed[p]
    PROVE  UNCHANGED OutView
<1>1. \A q \in Honest : exposed'[q] = exposed[q]
  BY DEF Moves
<1>. QED
  BY <1>1 DEF OutView

\* Giving a party the messages of a round is a delivery, or no step if the
\* round is not reliable.
LEMMA GivenView ==
    ASSUME Inv, OrderInv, NEW p \in Honest, Moves(p), UNCHANGED cast,
           NEW out, IsGiven(p, out)
    PROVE  RB!Next \/ UNCHANGED <<CastView, OutView>>
<1>0. PICK r : r = rnd[p]
  OBVIOUS
<1> DEFINE vec == Row(p, out)
<1>1. exposed'[p] = With(exposed[p], r, out)
  BY <1>0 DEF IsGiven
<1>2. \A q \in Honest \ {p} : exposed'[q] = exposed[q]
  BY DEF Moves
<1>3. /\ DOMAIN exposed'[p] = DOMAIN exposed[p] \cup {r}
      /\ exposed'[p][r] = out
      /\ \A k \in DOMAIN exposed[p] : k # r => exposed'[p][k] = exposed[p][k]
  BY <1>1 DEF With
<1>4. UNCHANGED CastView
  BY DEF CastView
<1>5. CASE r \notin Reliable
  <2>1. \A q \in Honest :
          /\ DOMAIN exposed'[q] \cap Reliable = DOMAIN exposed[q] \cap Reliable
          /\ \A k \in DOMAIN exposed[q] \cap Reliable :
               exposed'[q][k] = exposed[q][k]
    BY <1>2, <1>3, <1>5
  <2>2. UNCHANGED OutView
    BY <2>1 DEF OutView
  <2>. QED
    BY <1>4, <2>2
<1>6. CASE r \in Reliable
  <2>1. r \in DOMAIN check[p] /\ out = check[p][r].out
    BY <1>0, <1>6 DEF IsGiven
  <2>2. /\ vec \in [Parties \ {p} -> Values]
        /\ RB!Authentic(p, r, vec) /\ RB!Consistent(p, r, vec)
    BY <2>1, CheckedRow
  <2>3. r \notin DOMAIN exposed[p]
    <3>1. r = rnd[p] /\ rnd[p] \in Int
      BY <1>0, EchoAssumption DEF Inv, Local, Where
    <3>. QED
      BY <3>1 DEF OrderInv
  <2>4. OutView' = [OutView EXCEPT ![p] =
                     [k \in DOMAIN @ \cup {r} |->
                        IF k = r THEN vec ELSE @[k]]]
    <3>1. ASSUME NEW q \in Honest \ {p}
          PROVE  OutView'[q] = OutView[q]
      BY <1>2 DEF OutView
    <3>2. OutView'[p] = [k \in DOMAIN OutView[p] \cup {r} |->
                           IF k = r THEN vec ELSE OutView[p][k]]
      <4>1. OutView'[p] = [k \in DOMAIN exposed'[p] \cap Reliable |->
                             Row(p, exposed'[p][k])]
        BY DEF OutView, Row
      <4>2. /\ DOMAIN exposed'[p] \cap Reliable = DOMAIN OutView[p] \cup {r}
            /\ \A k \in DOMAIN OutView[p] :
                 OutView[p][k] = Row(p, exposed'[p][k]) /\ k # r
        BY <1>3, <1>6, <2>3, OutViewAt
      <4>. QED
        BY <1>3, <4>1, <4>2
    <3>3. DOMAIN OutView = Honest /\ DOMAIN OutView' = Honest
          /\ OutView = [q \in Honest |-> OutView[q]]
          /\ OutView' = [q \in Honest |-> OutView'[q]]
      BY DEF OutView
    <3> HIDE DEF vec
    <3>. QED
      BY <3>1, <3>2, <3>3
  <2>5. RB!Deliver(p, r, vec)
    <3>1. r \notin DOMAIN OutView[p]
      BY <2>3, OutViewAt
    <3> HIDE DEF vec
    <3>. QED
      BY <1>4, <2>2, <2>4, <3>1 DEF RB!Deliver, CastView, OutView
  <2> HIDE DEF vec
  <2>. QED
    BY <1>6, <2>2, <2>5 DEF RB!Next
<1>. QED
  BY <1>5, <1>6

\* A send in a reliable round is a cast, unless the message reached nobody.
LEMMA SentView ==
    ASSUME Inv, OrderInv, NEW p \in Honest, NEW v \in Values, Sends(p, v),
           ~ UNCHANGED cast
    PROVE  RB!Next \/ UNCHANGED <<CastView, OutView>>
<1>0. PICK r : r = rnd[p]
  OBVIOUS
<1> DEFINE c == [sender |-> p, round |-> r, msg |-> v]
<1>1. cast' = cast \cup {c}
  BY <1>0, SendsCast
<1>2. UNCHANGED OutView
  BY DEF Sends, OutView
<1>3. CASE r \notin Reliable
  BY <1>1, <1>2, <1>3 DEF CastView
<1>4. CASE r \in Reliable
  <2>1. CastView' = CastView \cup {c}
    BY <1>1, <1>4 DEF CastView
  <2>2. \A d \in CastView : ~ (d.sender = p /\ d.round = r)
    <3>1. r = rnd[p] /\ rnd[p] \in Int /\ pc[p] = "idle"
      BY <1>0, EchoAssumption DEF Inv, Local, Where, Sends
    <3>. QED
      BY <3>1 DEF CastView, OrderInv, MainSent
  <2>3. RB!Cast(p, r, v)
    BY <1>2, <2>1, <2>2 DEF RB!Cast, CastView, OutView
  <2>. QED
    BY <1>4, <2>3 DEF RB!Next
<1>. QED
  BY <1>3, <1>4

\* Every step is one of ReliableBroadcast, or a stutter.
LEMMA StepView ==
    ASSUME Careful, Inv, OrderInv, [Next]_vars
    PROVE  [RB!Next]_<<CastView, OutView>>
<1>1. CASE UNCHANGED vars
  BY <1>1 DEF vars, CastView, OutView
<1>2. CASE Next
  <2>1. PICK p \in Honest :
          /\ Moves(p)
          /\ UNCHANGED cast \/ \E v \in Values : Sends(p, v)
    BY <1>2, NextMoves
  <2>2. CASE UNCHANGED cast /\ exposed'[p] = exposed[p]
    BY <2>1, <2>2, SameView DEF CastView
  <2>3. CASE UNCHANGED cast /\ \E out : IsGiven(p, out)
    BY <2>1, <2>3, GivenView
  <2>4. CASE ~ UNCHANGED cast
    BY <2>1, <2>4, SentView
  <2>. QED
    BY <2>1, <2>2, <2>3, <2>4 DEF Moves, Stays
<1>. QED
  BY <1>1, <1>2

\* The parties of a careful protocol implement a reliable broadcast, whatever
\* the dishonest parties send: every step that gives a party the messages of a
\* reliable round delivers what honest parties broadcast, and nothing else
\* than what any other party was given; every other step of complete, of the
\* echoes and of the network is invisible.
THEOREM BroadcastImplemented ==
    ASSUME Careful
    PROVE  Spec => ImplementsReliableBroadcast
<1>1. Init => RB!Init
  <2> SUFFICES ASSUME Init PROVE RB!Init
    OBVIOUS
  <2>1. CastView = {}
    BY DEF Init, CastView
  <2>2. OutView = [p \in Honest |-> [r \in {} |-> 0]]
    BY DEF Init, OutView, NoMessages
  <2>. QED
    BY <2>1, <2>2 DEF RB!Init, CastView, OutView
<1>2. Inv /\ OrderInv /\ [Next]_vars => [RB!Next]_<<CastView, OutView>>
  BY StepView
<1>3. Inv /\ OrderInv /\ [Next]_vars => OrderInv'
  BY OrderStep
<1>4. Spec => RB!Init /\ [][RB!Next]_<<CastView, OutView>>
  BY <1>1, <1>2, <1>3, OrderInit, InvCorrect, PTL DEF Spec
<1>. QED
  BY <1>4, PTL DEF ImplementsReliableBroadcast, RB!Spec, CastView, OutView

-----------------------------------------------------------------------------
(***************************************************************************)
(* Without faults nobody fails.                                            *)
(***************************************************************************)
\* Nobody is dishonest or careless, and the network is faultless.
Faultless ==
    Byzantine = {} /\ ~ Duplicates /\ SendsFail = {} /\ Careless = {}

\* Every round takes the broadcasts that the protocol sends in it; a round
\* takes reliable ones only if the wrapper makes them reliable.
StoresExpectBroadcasts ==
    \A r \in Rounds :
        \/ Stores[r].type = "Broadcast"
        \/ Stores[r].type = "ReliableBroadcast" /\ r \in Reliable

\* The party has passed the send of its echo of round r.
EchoSent(q, r) == r < rnd[q] \/ (r = rnd[q] /\ pc[q] = "echo")

\* A message of q would be the second one for this round of p.
Has(p, e, q) ==
    /\ e.st = "Ongoing"
    /\ \/ q \in DOMAIN e.received
       \/ q # p /\ SlotOf(p, q) \in DOMAIN e.store.messages

\* Neither round of p has failed, and they hold what was sent only.
Unfailed(p) ==
    /\ pc[p] # "failed"
    /\ \A r \in Rounds :
         /\ main[p][r].st # "Failed"
         /\ \A q \in Honest : Has(p, main[p][r], q) => MainSent(q, r)
    /\ \A r \in Reliable :
         /\ echo[p][r].st # "Failed"
         /\ \A q \in Honest : Has(p, echo[p][r], q) => EchoSent(q, r)

\* A message is kept only after its round was begun, and until its check.
Ordered(p) ==
    /\ \A r \in DOMAIN check[p] :
         r < rnd[p] \/ (r = rnd[p] /\ pc[p] \in {"sendEcho", "echo"})
    /\ \A r \in DOMAIN sent[p] : MainSent(p, r)

\* A message on its way is a broadcast that was sent and has not arrived.
OnItsWay(m) ==
    /\ m.type = "Broadcast"
    /\ m.kind = "Main" => /\ MainSent(m.from, m.round)
                          /\ ~ Has(m.to, main[m.to][m.round], m.from)
    /\ m.kind = "Echo" => /\ EchoSent(m.from, m.round)
                          /\ ~ Has(m.to, echo[m.to][m.round], m.from)

SameKey(m, x) ==
    m.from = x.from /\ m.to = x.to /\ m.kind = x.kind /\ m.round = x.round

FaultlessInv ==
    /\ \A p \in Honest : Unfailed(p) /\ Ordered(p)
    /\ \A m \in net : OnItsWay(m)
    /\ \A m, x \in net : SameKey(m, x) => m = x
    /\ late = {}

\* The store of a round takes a first message of the expected type.
LEMMA StoreAccepts ==
    ASSUME NEW p \in Parties, NEW type, NEW M,
           NEW e, GoodEntry(p, type, M, e), e.st = "Ongoing",
           NEW m, m.from \in Parties, ~ Has(p, e, m.from),
           NEW in, in.sender = m.from, IsExpectedTypeOfMsg(type, in.type)
    PROVE  AddMessageError(e.store, in) = NoError
<1>1. e.store.i = p /\ e.store.n = N /\ e.store.expected = type
  BY EntryCases DEF GoodEntry, RoundInputs
<1>2. CASE m.from = p
  BY <1>1, <1>2 DEF AddMessageError
<1>3. CASE m.from # p
  <2>1. SlotOf(p, m.from) \in Slots(N)
    BY <1>3, PartiesFacts, SlotsAndParties
  <2>2. SlotOf(p, m.from) \notin DOMAIN e.store.messages
    BY <1>3 DEF Has
  <2>. QED
    BY <1>1, <1>3, <2>1, <2>2 DEF AddMessageError
<1>. QED
  BY <1>2, <1>3

\* An entry that has taken a message has not failed, and has no message more
\* than that one.
Takes(p, e, new, m) ==
    /\ new.st # "Failed"
    /\ \A q \in Parties : Has(p, new, q) => Has(p, e, q) \/ q = m.from

\* A store that accepts a message takes it.
LEMMA TakesSettled ==
    ASSUME NEW p \in Parties, NEW type, NEW M,
           NEW e, GoodEntry(p, type, M, e), e.st = "Ongoing",
           NEW m, m.from \in Parties, m.msg \in M,
           NEW in, in.id = 0, in.sender = m.from, in.msg = m.msg,
           AddMessageError(e.store, in) = NoError,
           NEW received \in Copies,
           DOMAIN received \subseteq DOMAIN e.received \cup {m.from}
    PROVE  Takes(p, e, Settled(AddMessage(e.store, in), received), m)
<1> DEFINE store == AddMessage(e.store, in)
           new == Settled(store, received)
<1>1. e.store \in RoundInputs(p, N, type, M) /\ Counted(e.store)
  BY EntryCases DEF GoodEntry
<1>2. /\ store \in RoundInputs(p, N, type, M) /\ Counted(store)
      /\ \A q \in Others(p, N) :
           SlotOf(p, q) \in DOMAIN store.messages
             <=> SlotOf(p, q) \in DOMAIN e.store.messages \/ q = m.from
  BY <1>1, StoreTakes
<1> HIDE DEF store
<1>3. /\ new.st \in {"Ongoing", "Collected"} /\ new.received = received
      /\ Held(new) = store.messages
  BY <1>2, SettledEntry
<1> HIDE DEF new
<1>4. Others(p, N) = Parties \ {p}
  BY PartiesFacts
<1>5. ASSUME NEW q \in Parties, Has(p, new, q)
      PROVE  Has(p, e, q) \/ q = m.from
  BY <1>2, <1>3, <1>4, <1>5 DEF Has, Held
<1>6. Takes(p, e, new, m)
  BY <1>3, <1>5 DEF Takes
<1>. QED
  BY <1>6 DEF new, store

\* A plain store takes a broadcast of a party it has nothing of.
LEMMA PlainAccepts ==
    ASSUME NEW p \in Parties, NEW M,
           NEW e, GoodEntry(p, "Broadcast", M, e), e.st = "Ongoing",
           NEW m, m.from \in Parties, m.msg \in M, m.type = "Broadcast",
           ~ Has(p, e, m.from)
    PROVE  Takes(p, e, AddPlain(e, m), m)
<1> DEFINE in == AsIncoming(m)
<1>1. in.id = 0 /\ in.sender = m.from /\ in.msg = m.msg /\ in.type = "Broadcast"
  BY IncomingFields
<1>2. e.received \in Copies
  BY EntryCases DEF GoodEntry
<1> HIDE DEF in
<1>3. AddMessageError(e.store, in) = NoError
  BY <1>1, StoreAccepts DEF IsExpectedTypeOfMsg
<1>4. AddPlain(e, m) = Settled(AddMessage(e.store, in), e.received)
  BY <1>3 DEF AddPlain, in
<1>. QED
  BY <1>1, <1>2, <1>3, <1>4, TakesSettled

\* So does the store of a reliable round.
LEMMA ReliableAccepts ==
    ASSUME NEW p \in Parties, NEW type \in {"Broadcast", "ReliableBroadcast"},
           NEW e, GoodEntry(p, type, Values, e), e.st = "Ongoing",
           NEW m, m.from \in Parties, m.msg \in Values,
           ~ Has(p, e, m.from)
    PROVE  Takes(p, e, AddReliable(e, m), m)
<1> DEFINE in == [AsIncoming(m) EXCEPT !.type = "ReliableBroadcast"]
           copy == With(e.received, m.from, m.msg)
<1>1. /\ in.id = 0 /\ in.sender = m.from /\ in.msg = m.msg
      /\ in.type = "ReliableBroadcast"
  BY IncomingFields
<1>2. e.received \in Copies
  BY EntryCases DEF GoodEntry
<1> HIDE DEF in
<1>3. AddMessageError(e.store, in) = NoError
  BY <1>1, StoreAccepts DEF IsExpectedTypeOfMsg
<1>4. m.from \notin DOMAIN e.received
  BY DEF Has
<1>5. AddReliable(e, m) = Settled(AddMessage(e.store, in), copy)
  BY <1>3, <1>4 DEF AddReliable, in
<1>6. DOMAIN copy = DOMAIN e.received \cup {m.from} /\ copy \in Copies
  <2>1. /\ DOMAIN copy = DOMAIN e.received \cup {m.from}
        /\ copy[m.from] = m.msg
        /\ \A z \in DOMAIN e.received : z # m.from => copy[z] = e.received[z]
        /\ copy = [z \in DOMAIN copy |-> copy[z]]
    BY DEF With
  <2> HIDE DEF copy
  <2>2. DOMAIN e.received \subseteq Parties
        /\ \A z \in DOMAIN e.received : e.received[z] \in Values
    BY <1>2, PartialFunctions DEF Copies
  <2>3. DOMAIN copy \subseteq Parties /\ \A z \in DOMAIN copy : copy[z] \in Values
    BY <2>1, <2>2
  <2>4. copy \in Copies
    <3>1. copy = [z \in DOMAIN copy |-> copy[z]]
      BY <2>1
    <3>2. copy \in UNION {[T -> Values] : T \in SUBSET Parties}
      BY <2>3, <3>1, PartialFunctions
    <3>. QED
      BY <3>2 DEF Copies
  <2>. QED
    BY <2>1, <2>4
<1> HIDE DEF copy
<1>. QED
  BY <1>1, <1>3, <1>5, <1>6, TakesSettled

-----------------------------------------------------------------------------
\* The entries of p have not failed, and have no more messages than before
\* and the message that has come from the network.
MainMore(p, es) ==
    \A r \in Rounds :
        /\ es[r].st # "Failed"
        /\ \A q \in Honest :
             Has(p, es[r], q) =>
                 \/ Has(p, main[p][r], q)
                 \/ \E m \in net \ net' : m.from = q /\ m.to = p
                                          /\ m.kind = "Main" /\ m.round = r

EchoMore(p, es) ==
    \A r \in Reliable :
        /\ es[r].st # "Failed"
        /\ \A q \in Honest :
             Has(p, es[r], q) =>
                 \/ Has(p, echo[p][r], q)
                 \/ \E m \in net \ net' : m.from = q /\ m.to = p
                                          /\ m.kind = "Echo" /\ m.round = r

\* Entries that do not change lose nothing.
LEMMA MoreAsBefore ==
    ASSUME FaultlessInv, NEW p \in Honest
    PROVE  MainMore(p, main[p]) /\ EchoMore(p, echo[p])
  BY DEF FaultlessInv, Unfailed, MainMore, EchoMore

\* Party p goes on and does not fail.
Onward(p) ==
    /\ pc'[p] # "failed"
    /\ \A q \in Honest \ {p} : /\ pc'[q] = pc[q] /\ rnd'[q] = rnd[q]
                               /\ check'[q] = check[q] /\ sent'[q] = sent[q]
    /\ \A r \in Rounds : /\ MainSent(p, r) => MainSent(p, r)'
                         /\ EchoSent(p, r) => EchoSent(p, r)'
    /\ Ordered(p)'

\* A round that was completed has not failed.
LEMMA HasGone ==
    ASSUME NEW p, NEW q
    PROVE  ~ Has(p, Gone, q) /\ Gone.st # "Failed"
  BY DEF Has, Gone

\* A party that leaves its round has passed all it had to send in it.
LEMMA LeavesRound ==
    ASSUME NEW p, rnd[p] \in Nat, rnd'[p] = rnd[p] + 1, Ordered(p),
           DOMAIN check[p] \subseteq Nat, DOMAIN sent[p] \subseteq Nat,
           Rounds \subseteq Nat,
           check'[p] = check[p], sent'[p] = sent[p]
    PROVE  /\ \A r \in Rounds : /\ MainSent(p, r) => MainSent(p, r)'
                                /\ EchoSent(p, r) => EchoSent(p, r)'
           /\ Ordered(p)'
<1>1. \A r \in Nat : r < rnd[p] \/ r = rnd[p] => r < rnd'[p]
  OBVIOUS
<1>2. ASSUME NEW r \in DOMAIN check[p] PROVE r < rnd'[p]
  BY <1>1 DEF Ordered
<1>3. ASSUME NEW r \in DOMAIN sent[p] PROVE r < rnd'[p]
  BY <1>1 DEF Ordered, MainSent
<1>4. Ordered(p)'
  BY <1>2, <1>3 DEF Ordered, MainSent
<1>5. ASSUME NEW r \in Rounds
      PROVE  /\ MainSent(p, r) => MainSent(p, r)'
             /\ EchoSent(p, r) => EchoSent(p, r)'
  BY <1>1 DEF MainSent, EchoSent
<1>. QED
  BY <1>4, <1>5

\* The main part of a round is looked at.
LEMMA MainOnward ==
    ASSUME Inv, FaultlessInv, NEW p \in Honest, pc[p] \in {"sent", "main"},
           NEW STATE es, DOMAIN es = Rounds, MainMore(p, es),
           TryCompleteMain(p, es)
    PROVE  /\ Onward(p) /\ MainMore(p, main'[p])
           /\ \A q \in Honest \ {p} : main'[q] = main[q]
<1> DEFINE r == rnd[p]
           gone == [es EXCEPT ![r] = Gone]
<1>1. Shapes /\ r \in Rounds /\ r \in Nat /\ Rounds \subseteq Nat /\ R \in Nat
  BY RoundsFacts, EchoAssumption DEF Inv, Local, Where, Running, Rounds
<1>2. es[r].st # "Failed"
  BY <1>1 DEF MainMore
<1>3. MainMore(p, gone)
  <2>1. \A k \in Rounds : gone[k] = Gone \/ gone[k] = es[k]
    OBVIOUS
  <2> HIDE DEF gone
  <2>. QED
    BY <2>1, HasGone DEF MainMore
<1>4. Ordered(p) /\ DOMAIN check[p] \subseteq Rounds
      /\ DOMAIN sent[p] \subseteq Rounds
  BY RoundsFacts DEF FaultlessInv, Inv, Local, Bookkeeping
<1>5. CASE /\ es[r].st = "Ongoing"
           /\ main' = [main EXCEPT ![p] = es]
           /\ pc' = [pc EXCEPT ![p] = "main"]
           /\ UNCHANGED <<rnd, exposed, error, check, sent, slots>>
  <2>1. /\ pc'[p] = "main" /\ rnd'[p] = r /\ check'[p] = check[p]
        /\ sent'[p] = sent[p] /\ main'[p] = es
        /\ \A q \in Honest \ {p} :
             /\ pc'[q] = pc[q] /\ rnd'[q] = rnd[q] /\ check'[q] = check[q]
             /\ sent'[q] = sent[q] /\ main'[q] = main[q]
    BY <1>1, <1>5 DEF Shapes
  <2>2. Onward(p)
    BY <1>1, <1>4, <2>1 DEF Onward, Ordered, MainSent, EchoSent
  <2>. QED
    BY <2>1, <2>2
<1>6. CASE /\ es[r].st = "Collected" /\ r \notin Reliable
           /\ main' = [main EXCEPT ![p] = gone]
           /\ Expose(p, es[r].out)
  <2>1. /\ pc'[p] \in {"done", "idle"} /\ rnd'[p] = r + 1
        /\ check'[p] = check[p] /\ sent'[p] = sent[p] /\ main'[p] = gone
        /\ \A q \in Honest \ {p} :
             /\ pc'[q] = pc[q] /\ rnd'[q] = rnd[q] /\ check'[q] = check[q]
             /\ sent'[q] = sent[q] /\ main'[q] = main[q]
    BY <1>1, <1>6 DEF Shapes, Expose
  <2> HIDE DEF gone
  <2>2. Onward(p)
    BY <1>1, <1>4, <2>1, LeavesRound DEF Onward
  <2>. QED
    BY <1>3, <2>1, <2>2
<1>7. CASE /\ es[r].st = "Collected" /\ r \in Reliable
           /\ main' = [main EXCEPT ![p] = gone]
           /\ sent' = [sent EXCEPT ![p] = [q \in DOMAIN @ \ {r} |-> @[q]]]
           /\ \E c : check' = [check EXCEPT ![p] = With(@, r, c)]
           /\ pc' = [pc EXCEPT ![p] = "sendEcho"]
           /\ UNCHANGED <<rnd, exposed, error>>
  <2>1. /\ pc'[p] = "sendEcho" /\ rnd'[p] = r
        /\ DOMAIN check'[p] = DOMAIN check[p] \cup {r}
        /\ DOMAIN sent'[p] = DOMAIN sent[p] \ {r} /\ main'[p] = gone
        /\ \A q \in Honest \ {p} :
             /\ pc'[q] = pc[q] /\ rnd'[q] = rnd[q] /\ check'[q] = check[q]
             /\ sent'[q] = sent[q] /\ main'[q] = main[q]
    BY <1>1, <1>7 DEF Shapes, With
  <2> HIDE DEF gone
  <2>2. Onward(p)
    BY <1>1, <1>4, <2>1 DEF Onward, Ordered, MainSent, EchoSent
  <2>. QED
    BY <1>3, <2>1, <2>2
<1> HIDE DEF gone
<1>. QED
  BY <1>2, <1>5, <1>6, <1>7 DEF TryCompleteMain, gone

\* The echoes of a round are looked at.
LEMMA EchoOnward ==
    ASSUME Faultless, Inv, Inv', FaultlessInv, NEW p \in Honest,
           pc[p] \in {"sendEcho", "echo"},
           NEW STATE es, DOMAIN es = Reliable, EchoMore(p, es),
           TryCompleteEcho(p, es), UNCHANGED late
    PROVE  /\ Onward(p) /\ EchoMore(p, echo'[p])
           /\ \A q \in Honest \ {p} : echo'[q] = echo[q]
<1> DEFINE r == rnd[p]
           gone == [es EXCEPT ![r] = Gone]
<1>1. Shapes /\ r \in Reliable /\ r \in Nat /\ Rounds \subseteq Nat /\ R \in Nat
  BY RoundsFacts, EchoAssumption DEF Inv, Local, Where, Bookkeeping, Rounds
<1>2. es[r].st # "Failed"
  BY <1>1 DEF EchoMore
<1>3. EchoMore(p, gone)
  <2>1. \A k \in Reliable : gone[k] = Gone \/ gone[k] = es[k]
    OBVIOUS
  <2> HIDE DEF gone
  <2>. QED
    BY <2>1, HasGone DEF EchoMore
<1>4. Ordered(p) /\ DOMAIN check[p] \subseteq Rounds
      /\ DOMAIN sent[p] \subseteq Rounds
  BY RoundsFacts DEF FaultlessInv, Inv, Local, Bookkeeping
<1>5. CASE /\ es[r].st = "Ongoing"
           /\ echo' = [echo EXCEPT ![p] = es]
           /\ pc' = [pc EXCEPT ![p] = "echo"]
           /\ UNCHANGED <<rnd, exposed, error, check, sent, slots>>
  <2>1. /\ pc'[p] = "echo" /\ rnd'[p] = r /\ check'[p] = check[p]
        /\ sent'[p] = sent[p] /\ echo'[p] = es
        /\ \A q \in Honest \ {p} :
             /\ pc'[q] = pc[q] /\ rnd'[q] = rnd[q] /\ check'[q] = check[q]
             /\ sent'[q] = sent[q] /\ echo'[q] = echo[q]
    BY <1>1, <1>5 DEF Shapes
  <2>2. Onward(p)
    BY <1>1, <1>4, <2>1 DEF Onward, Ordered, MainSent, EchoSent
  <2>. QED
    BY <2>1, <2>2
<1>6. CASE /\ echo' = [echo EXCEPT ![p] = gone]
           /\ Expose(p, check[p][r].out)
  <2>1. /\ pc'[p] \in {"done", "idle"} /\ rnd'[p] = r + 1
        /\ check'[p] = check[p] /\ sent'[p] = sent[p] /\ echo'[p] = gone
        /\ \A q \in Honest \ {p} :
             /\ pc'[q] = pc[q] /\ rnd'[q] = rnd[q] /\ check'[q] = check[q]
             /\ sent'[q] = sent[q] /\ echo'[q] = echo[q]
    BY <1>1, <1>6 DEF Shapes, Expose
  <2> HIDE DEF gone
  <2>2. Onward(p)
    BY <1>1, <1>4, <2>1, LeavesRound DEF Onward
  <2>. QED
    BY <1>3, <2>1, <2>2
<1>7. ~ Fail(p, "MismatchedHash")
  <2> SUFFICES ASSUME Fail(p, "MismatchedHash") PROVE FALSE
    OBVIOUS
  <2>1. error'[p] = "MismatchedHash"
    BY <1>1 DEF Fail, Shapes
  <2>2. late' = {} /\ Byzantine = {}
    BY DEF FaultlessInv, Faultless
  <2>. QED
    BY <2>1, <2>2 DEF Inv, MismatchMeansDishonest
<1> HIDE DEF gone
<1>. QED
  BY <1>2, <1>5, <1>6, <1>7 DEF TryCompleteEcho, gone

\* A message that its sender had not passed before.
Fresh(m) ==
    /\ m.type = "Broadcast"
    /\ m.kind = "Main" => /\ ~ MainSent(m.from, m.round)
                          /\ MainSent(m.from, m.round)'
    /\ m.kind = "Echo" => /\ ~ EchoSent(m.from, m.round)
                          /\ EchoSent(m.from, m.round)'

\* What a step of p has to do to keep the invariant.
LEMMA OnwardKeeps ==
    ASSUME Inv, Inv', FaultlessInv, NEW p \in Honest, Onward(p),
           MainMore(p, main'[p]), EchoMore(p, echo'[p]),
           \A q \in Honest \ {p} : main'[q] = main[q] /\ echo'[q] = echo[q],
           \A m \in net' : m \in net \/ Fresh(m),
           \A m, x \in net' \ net : SameKey(m, x) => m = x,
           UNCHANGED late
    PROVE  FaultlessInv'
<1>1. ASSUME NEW q \in Honest, NEW r \in Rounds
      PROVE  /\ MainSent(q, r) => MainSent(q, r)'
             /\ EchoSent(q, r) => EchoSent(q, r)'
  BY DEF Onward, MainSent, EchoSent
<1>2. Reliable \subseteq Rounds
  BY RoundsFacts
<1>4. ASSUME NEW m \in net'
      PROVE  /\ m.from \in Honest /\ m.to \in Honest
             /\ m.kind \in {"Main", "Echo"}
             /\ m.kind = "Main" => m.round \in Rounds
             /\ m.kind = "Echo" => m.round \in Reliable
  <2>1. GoodPacket(m)' /\ \A q \in Honest : DOMAIN check'[q] \subseteq Reliable
    BY DEF Inv, Authentic, Local, Bookkeeping
  <2>. QED
    BY <2>1 DEF GoodPacket, IsEchoOf
<1>6. ASSUME NEW q \in Honest PROVE Unfailed(q)' /\ Ordered(q)'
  <2>1. Unfailed(q) /\ Ordered(q)
    BY DEF FaultlessInv
  <2>2. CASE q # p
    <3>1. /\ pc'[q] = pc[q] /\ rnd'[q] = rnd[q] /\ check'[q] = check[q]
          /\ sent'[q] = sent[q] /\ main'[q] = main[q] /\ echo'[q] = echo[q]
      BY <2>2 DEF Onward
    <3>2. Ordered(q)'
      BY <2>1, <3>1 DEF Ordered, MainSent
    <3>3. ASSUME NEW r \in Rounds, NEW s \in Honest, Has(q, main'[q][r], s)
          PROVE  MainSent(s, r)'
      BY <1>1, <2>1, <3>1, <3>3 DEF Unfailed
    <3>4. ASSUME NEW r \in Reliable, NEW s \in Honest, Has(q, echo'[q][r], s)
          PROVE  EchoSent(s, r)'
      BY <1>1, <1>2, <2>1, <3>1, <3>4 DEF Unfailed
    <3>5. /\ pc'[q] # "failed"
          /\ \A r \in Rounds : main'[q][r].st # "Failed"
          /\ \A r \in Reliable : echo'[q][r].st # "Failed"
      BY <2>1, <3>1 DEF Unfailed
    <3>. QED
      BY <3>2, <3>3, <3>4, <3>5 DEF Unfailed, Has
  <2>3. CASE q = p
    <3>1. ASSUME NEW r \in Rounds, NEW s \in Honest, Has(p, main'[p][r], s)
          PROVE  MainSent(s, r)'
      <4>1. CASE Has(p, main[p][r], s)
        BY <1>1, <2>1, <2>3, <4>1 DEF Unfailed
      <4>2. CASE \E m \in net \ net' : m.from = s /\ m.to = p
                                       /\ m.kind = "Main" /\ m.round = r
        BY <1>1, <4>2 DEF FaultlessInv, OnItsWay
      <4>. QED
        BY <3>1, <4>1, <4>2 DEF MainMore
    <3>2. ASSUME NEW r \in Reliable, NEW s \in Honest, Has(p, echo'[p][r], s)
          PROVE  EchoSent(s, r)'
      <4>1. CASE Has(p, echo[p][r], s)
        BY <1>1, <1>2, <2>1, <2>3, <4>1 DEF Unfailed
      <4>2. CASE \E m \in net \ net' : m.from = s /\ m.to = p
                                       /\ m.kind = "Echo" /\ m.round = r
        BY <1>1, <1>2, <4>2 DEF FaultlessInv, OnItsWay
      <4>. QED
        BY <3>2, <4>1, <4>2 DEF EchoMore
    <3>3. /\ pc'[p] # "failed" /\ Ordered(p)'
          /\ \A r \in Rounds : main'[p][r].st # "Failed"
          /\ \A r \in Reliable : echo'[p][r].st # "Failed"
      BY DEF Onward, MainMore, EchoMore
    <3>. QED
      BY <2>3, <3>1, <3>2, <3>3 DEF Unfailed, Has
  <2>. QED
    BY <2>2, <2>3
<1>7. ASSUME NEW m \in net', m.kind = "Main"
      PROVE  MainSent(m.from, m.round)' /\ ~ Has(m.to, main'[m.to][m.round], m.from)
  <2>1. m.from \in Honest /\ m.to \in Honest /\ m.round \in Rounds
    BY <1>4, <1>7
  <2>2. MainSent(m.from, m.round)'
    BY <1>1, <1>7, <2>1 DEF FaultlessInv, OnItsWay, Fresh
  <2>3. ASSUME Has(m.to, main[m.to][m.round], m.from) PROVE FALSE
    <3>1. MainSent(m.from, m.round)
      BY <2>1, <2>3 DEF FaultlessInv, Unfailed
    <3>. QED
      BY <1>7, <2>3, <3>1 DEF FaultlessInv, OnItsWay, Fresh
  <2>4. ASSUME NEW x \in net \ net', SameKey(x, m) PROVE FALSE
    <3>1. CASE m \in net
      BY <2>4, <3>1 DEF FaultlessInv
    <3>2. CASE Fresh(m)
      BY <1>7, <2>4, <3>2 DEF FaultlessInv, OnItsWay, Fresh, SameKey
    <3>. QED
      BY <3>1, <3>2
  <2>5. CASE m.to # p
    BY <2>1, <2>2, <2>3, <2>5
  <2>6. CASE m.to = p
    BY <1>7, <2>1, <2>2, <2>3, <2>4, <2>6 DEF MainMore, SameKey
  <2>. QED
    BY <2>5, <2>6
<1>8. ASSUME NEW m \in net', m.kind = "Echo"
      PROVE  EchoSent(m.from, m.round)' /\ ~ Has(m.to, echo'[m.to][m.round], m.from)
  <2>1. m.from \in Honest /\ m.to \in Honest /\ m.round \in Reliable
        /\ m.round \in Rounds
    BY <1>2, <1>4, <1>8
  <2>2. EchoSent(m.from, m.round)'
    BY <1>1, <1>8, <2>1 DEF FaultlessInv, OnItsWay, Fresh
  <2>3. ASSUME Has(m.to, echo[m.to][m.round], m.from) PROVE FALSE
    <3>1. EchoSent(m.from, m.round)
      BY <2>1, <2>3 DEF FaultlessInv, Unfailed
    <3>. QED
      BY <1>8, <2>3, <3>1 DEF FaultlessInv, OnItsWay, Fresh
  <2>4. ASSUME NEW x \in net \ net', SameKey(x, m) PROVE FALSE
    <3>1. CASE m \in net
      BY <2>4, <3>1 DEF FaultlessInv
    <3>2. CASE Fresh(m)
      BY <1>8, <2>4, <3>2 DEF FaultlessInv, OnItsWay, Fresh, SameKey
    <3>. QED
      BY <3>1, <3>2
  <2>5. CASE m.to # p
    BY <2>1, <2>2, <2>3, <2>5
  <2>6. CASE m.to = p
    BY <1>8, <2>1, <2>2, <2>3, <2>4, <2>6 DEF EchoMore, SameKey
  <2>. QED
    BY <2>5, <2>6
<1>9. ASSUME NEW m \in net' PROVE OnItsWay(m)'
  <2>1. m.type = "Broadcast"
    BY DEF FaultlessInv, OnItsWay, Fresh
  <2>. QED
    BY <1>7, <1>8, <2>1 DEF OnItsWay, Has
<1>10. ASSUME NEW m \in net', NEW x \in net', SameKey(m, x) PROVE m = x
  <2>1. CASE m \in net /\ x \in net
    BY <1>10, <2>1 DEF FaultlessInv
  <2>2. CASE m \notin net /\ x \notin net
    BY <1>10, <2>2
  <2>3. CASE (m \in net) # (x \in net)
    <3>1. ASSUME NEW y \in net, NEW z \in net', z \notin net, SameKey(y, z)
          PROVE  FALSE
      <4>1. OnItsWay(y) /\ Fresh(z) /\ z.kind \in {"Main", "Echo"}
        BY <1>4, <3>1 DEF FaultlessInv
      <4>. QED
        BY <3>1, <4>1 DEF OnItsWay, Fresh, SameKey
    <3>2. SameKey(x, m)
      BY <1>10 DEF SameKey
    <3>. QED
      BY <1>10, <2>3, <3>1, <3>2
  <2>. QED
    BY <2>1, <2>2, <2>3
<1>. QED
  BY <1>6, <1>9, <1>10 DEF FaultlessInv, SameKey

\* A message comes from the network: the round it is for takes it.
LEMMA RouteTakes ==
    ASSUME Faultless, StoresExpectBroadcasts, Inv, FaultlessInv,
           NEW p \in Honest, NEW m \in net, m.to = p, net' = net \ {m}
    PROVE  /\ MainMore(p, RouteMain(main[p], m))
           /\ DOMAIN RouteMain(main[p], m) = Rounds
           /\ EchoMore(p, RouteEcho(echo[p], m))
           /\ DOMAIN RouteEcho(echo[p], m) = Reliable
           /\ ~ Overflows(m) /\ IsRegistered(RouterRound(m))
<1>1. /\ p \in Parties /\ MainEntries(p, main[p]) /\ EchoEntries(p, echo[p])
      /\ DOMAIN main[p] = Rounds /\ DOMAIN echo[p] = Reliable
  BY EntriesNow DEF MainAt, EchoAt, MainEntries, EchoEntries
<1>2. GoodPacket(m) /\ OnItsWay(m) /\ Valid(m) /\ m \in net \ net'
  BY NetComes DEF Inv, Authentic, FaultlessInv, Comes
<1>3. MainMore(p, main[p]) /\ EchoMore(p, echo[p])
  BY MoreAsBefore
<1>4. Honest \subseteq Parties /\ Reliable \subseteq Rounds /\ Rounds \subseteq Nat
  BY RoundsFacts, EchoAssumption
<1>5. CASE m.kind = "Main"
  <2> DEFINE r == m.round
             es == main[p]
             new == RouteMain(es, m)
             e == ProcessMain(es[r], m)
  <2>1. r \in Rounds /\ m.msg \in Values /\ m.from \in Parties /\ r \in Nat
    BY <1>2, <1>4, <1>5 DEF Valid
  <2>2. RouteEcho(echo[p], m) = echo[p]
    BY <1>5 DEF RouteEcho
  <2>3. ~ Overflows(m) /\ IsRegistered(RouterRound(m))
    BY <1>5, <2>1 DEF Overflows, RouterRound, IsRegistered
  <2>4. CASE es[r].st # "Ongoing"
    <3>1. new = es
      BY <2>4 DEF RouteMain
    <3>. QED
      BY <1>1, <1>3, <2>2, <2>3, <3>1
  <2>5. CASE es[r].st = "Ongoing"
    <3>1. new = [es EXCEPT ![r] = e]
      BY <1>5, <2>5 DEF RouteMain
    <3>2. GoodMain(p, r, es[r]) /\ ~ Has(p, es[r], m.from) /\ m.type = "Broadcast"
      BY <1>1, <1>2, <1>5, <2>1 DEF MainEntries, OnItsWay
    <3>3. Takes(p, es[r], e, m)
      <4>1. CASE r \in Reliable
        <5>1. Stores[r].type \in {"Broadcast", "ReliableBroadcast"}
          BY <2>1 DEF StoresExpectBroadcasts
        <5>2. e = AddReliable(es[r], m)
          BY <4>1 DEF ProcessMain
        <5> HIDE DEF e
        <5>. QED
          BY <1>1, <2>1, <2>5, <3>2, <5>1, <5>2, ReliableAccepts DEF GoodMain
      <4>2. CASE r \notin Reliable
        <5>1. Stores[r].type = "Broadcast"
          BY <2>1, <4>2 DEF StoresExpectBroadcasts
        <5>2. e = AddPlain(es[r], m)
          BY <4>2 DEF ProcessMain
        <5> HIDE DEF e
        <5>. QED
          BY <1>1, <2>1, <2>5, <3>2, <5>1, <5>2, PlainAccepts DEF GoodMain
      <4>. QED
        BY <4>1, <4>2
    <3> HIDE DEF e, new
    <3>4. DOMAIN new = Rounds /\ new[r] = e
          /\ \A k \in Rounds : k # r => new[k] = es[k]
      BY <1>1, <2>1, <3>1
    <3>5. MainMore(p, new)
      BY <1>2, <1>3, <1>4, <1>5, <3>3, <3>4 DEF MainMore, Takes
    <3>. QED
      BY <1>1, <1>3, <2>2, <2>3, <3>4, <3>5 DEF new
  <2>. QED
    BY <2>4, <2>5
<1>6. CASE m.kind = "Echo"
  <2> DEFINE r == m.round
             es == echo[p]
             new == RouteEcho(es, m)
             e == ProcessEcho(es[r], r, m)
  <2>1. /\ r \in Reliable /\ r \in Nat /\ m.msg \in EchoHashes
        /\ m.from \in Parties /\ 2 * r + 1 < U16 /\ U16 \in Nat
    <3>1. r \in Reliable
      BY <1>2, <1>6 DEF GoodPacket, IsEchoOf, Inv, Local, Bookkeeping
    <3>. QED
      BY <1>2, <1>6, <3>1, RoundsFacts, EchoAssumption DEF Valid
  <2>2. RouteMain(main[p], m) = main[p]
    BY <1>6 DEF RouteMain
  <2>3. RouterRound(m) = 2 * r + 1
    BY <1>6, <2>1 DEF RouterRound
  <2>4. (RouterRound(m) - 1) \div 2 = r
    BY <2>1, <2>3
  <2>5. ~ Overflows(m) /\ IsRegistered(RouterRound(m))
    BY <1>4, <1>6, <2>1, <2>3 DEF Overflows, IsRegistered
  <2>6. CASE es[r].st # "Ongoing"
    <3>1. new = es
      BY <2>4, <2>6 DEF RouteEcho
    <3>. QED
      BY <1>1, <1>3, <2>2, <2>5, <3>1
  <2>7. CASE es[r].st = "Ongoing"
    <3>1. new = [es EXCEPT ![r] = e]
      BY <1>6, <2>4, <2>7 DEF RouteEcho
    <3>2. GoodEcho(p, es[r]) /\ ~ Has(p, es[r], m.from) /\ m.type = "Broadcast"
      BY <1>1, <1>2, <1>6, <2>1 DEF EchoEntries, OnItsWay
    <3>3. e = AddPlain(es[r], m)
      BY DEF ProcessEcho
    <3> HIDE DEF e, new
    <3>4. Takes(p, es[r], e, m)
      BY <1>1, <2>1, <2>7, <3>2, <3>3, PlainAccepts DEF GoodEcho
    <3>5. DOMAIN new = Reliable /\ new[r] = e
          /\ \A k \in Reliable : k # r => new[k] = es[k]
      BY <1>1, <2>1, <3>1
    <3>6. EchoMore(p, new)
      BY <1>2, <1>3, <1>4, <1>6, <3>4, <3>5 DEF EchoMore, Takes
    <3>. QED
      BY <1>1, <1>3, <2>2, <2>5, <3>5, <3>6 DEF new
  <2>. QED
    BY <2>6, <2>7
<1>. QED
  BY <1>2, <1>5, <1>6 DEF Valid

\* Nobody sends in a round twice, so that on_send refuses nothing.
LEMMA NothingRefused ==
    ASSUME Faultless, Inv, FaultlessInv, NEW p \in Honest, NEW r,
           NEW dest \in Destinations, MaySend(p, r, dest)
    PROVE  /\ pc[p] = "idle" /\ r = rnd[p]
           /\ dest = IF r \in Reliable THEN "Reliable" ELSE "All"
           /\ r \in Reliable => r \in slots[p]
           /\ OnSendError(p, r, dest) = "none"
<1>1. /\ pc[p] = "idle" /\ r = rnd[p]
      /\ dest = IF r \in Reliable THEN "Reliable" ELSE "All"
  BY DEF Faultless, MaySend
<1>2. rnd[p] \in Nat
  BY EchoAssumption DEF Inv, Local, Where
<1>3. r \notin DOMAIN check[p] /\ r \notin DOMAIN sent[p]
  BY <1>1, <1>2 DEF FaultlessInv, Ordered, MainSent
<1>4. slots[p] = Reliable \ DOMAIN check[p]
  BY DEF Inv, Local, Bookkeeping
<1>. QED
  BY <1>1, <1>3, <1>4 DEF OnSendError

\* Sending a message keeps FaultlessInv.
LEMMA SendOnward ==
    ASSUME Faultless, Inv, Inv', FaultlessInv, NEW p \in Honest,
           NEW r \in Rounds, NEW dest \in Destinations, NEW v \in Values,
           Send(p, r, dest, v)
    PROVE  FaultlessInv'
<1>1. PICK qs \in Recipients(p, dest) : Hand(p, r, dest, v, qs)
  BY DEF Send
<1>2. /\ pc[p] = "idle" /\ r = rnd[p]
      /\ dest = IF r \in Reliable THEN "Reliable" ELSE "All"
      /\ r \in Reliable => r \in slots[p]
  BY NothingRefused DEF Send
<1>3. Shapes /\ r \in Nat /\ Rounds \subseteq Nat /\ Ordered(p)
  BY RoundsFacts DEF Inv, FaultlessInv
<1>4. /\ pc' = [pc EXCEPT ![p] = "sent"]
      /\ UNCHANGED <<rnd, main, echo, slots, check, exposed>>
      /\ sent' = IF r \in slots[p] THEN [sent EXCEPT ![p] = With(@, r, v)]
                                   ELSE sent
  BY <1>1 DEF Send, Hand
<1>5. /\ pc'[p] = "sent" /\ rnd'[p] = rnd[p] /\ check'[p] = check[p]
      /\ DOMAIN sent'[p] \subseteq DOMAIN sent[p] \cup {r}
      /\ \A q \in Honest \ {p} :
           /\ pc'[q] = pc[q] /\ rnd'[q] = rnd[q]
           /\ check'[q] = check[q] /\ sent'[q] = sent[q]
  BY <1>3, <1>4 DEF Shapes, With
<1>6. Onward(p)
  BY <1>2, <1>3, <1>5 DEF Onward, Ordered, MainSent, EchoSent
<1>7. MainMore(p, main'[p]) /\ EchoMore(p, echo'[p])
  BY <1>4, MoreAsBefore
<1>8. UNCHANGED late
  BY <1>1, <1>2 DEF Hand
<1>9. \A m \in net' : m \in net \/ \E q \in qs :
          m = Packet(p, q, "Main", r, "Broadcast", v)
  BY <1>1, <1>2 DEF Hand, WireType
<1>10. ASSUME NEW q, NEW m, m = Packet(p, q, "Main", r, "Broadcast", v)
       PROVE  /\ m.type = "Broadcast" /\ m.kind = "Main" /\ m.from = p
              /\ m.to = q /\ m.round = r
  BY <1>10 DEF Packet
<1>11. ASSUME NEW m \in net', m \notin net PROVE Fresh(m)
  <2>1. m.type = "Broadcast" /\ m.kind = "Main" /\ m.from = p /\ m.round = r
    BY <1>9, <1>10, <1>11
  <2>. QED
    BY <1>2, <1>3, <1>5, <2>1 DEF Fresh, MainSent
<1>12. ASSUME NEW m \in net' \ net, NEW x \in net' \ net, SameKey(m, x)
       PROVE  m = x
  BY <1>9, <1>10, <1>12 DEF SameKey
<1>13. \A q \in Honest \ {p} : main'[q] = main[q] /\ echo'[q] = echo[q]
  BY <1>4
<1>. QED
  BY <1>6, <1>7, <1>8, <1>11, <1>12, <1>13, OnwardKeeps

\* The first poll of complete keeps FaultlessInv.
LEMMA CompleteOnward ==
    ASSUME Faultless, Inv, Inv', FaultlessInv, NEW p \in Honest, Complete(p)
    PROVE  FaultlessInv'
<1>1. /\ pc[p] \in {"sent", "main"} /\ TryCompleteMain(p, main[p])
      /\ UNCHANGED <<echo, net, late>>
  BY DEF Complete, Faultless
<1>2. DOMAIN main[p] = Rounds
  BY DEF Inv, Local, MainEntries
<1>3. MainMore(p, main[p]) /\ EchoMore(p, echo[p])
  BY MoreAsBefore
<1>4. /\ Onward(p) /\ MainMore(p, main'[p])
      /\ \A q \in Honest \ {p} : main'[q] = main[q]
  BY <1>1, <1>2, <1>3, MainOnward
<1>5. EchoMore(p, echo'[p]) /\ \A q \in Honest \ {p} : echo'[q] = echo[q]
  BY <1>1, <1>3
<1>. QED
  BY <1>1, <1>4, <1>5, OnwardKeeps

\* Sending the hash keeps FaultlessInv.
LEMMA SendEchoOnward ==
    ASSUME Faultless, Inv, Inv', FaultlessInv, NEW p \in Honest, SendEcho(p)
    PROVE  FaultlessInv'
<1>1. PICK r : r = rnd[p]
  OBVIOUS
<1>2. PICK h : h = check[p][rnd[p]].hash
  OBVIOUS
<1>3. /\ pc[p] = "sendEcho" /\ TryCompleteEcho(p, echo[p])
      /\ UNCHANGED <<main, late>>
      /\ net' = net \cup Broadcast(p, "Echo", r, h)
  BY <1>1, <1>2 DEF SendEcho
<1>4. DOMAIN echo[p] = Reliable /\ Shapes /\ r \in Nat
  BY <1>1, EchoAssumption DEF Inv, Local, EchoEntries, Where
<1>5. MainMore(p, main[p]) /\ EchoMore(p, echo[p])
  BY MoreAsBefore
<1>6. /\ Onward(p) /\ EchoMore(p, echo'[p])
      /\ \A q \in Honest \ {p} : echo'[q] = echo[q]
  BY <1>3, <1>4, <1>5, EchoOnward
<1>7. MainMore(p, main'[p]) /\ \A q \in Honest \ {p} : main'[q] = main[q]
  BY <1>3, <1>5
<1>8. EchoSent(p, r)' /\ ~ EchoSent(p, r)
  <2>1. ~ Fail(p, "MismatchedHash") /\ ~ \E k : Fail(p, k)
    BY <1>4, <1>6 DEF Onward, Fail, Shapes
  <2>2. \/ pc' = [pc EXCEPT ![p] = "echo"] /\ rnd' = rnd
        \/ rnd' = [rnd EXCEPT ![p] = @ + 1]
    BY <1>3, <2>1 DEF TryCompleteEcho, Expose
  <2>. QED
    BY <1>1, <1>3, <1>4, <2>2 DEF EchoSent, Shapes
<1>9. ASSUME NEW m \in net', m \notin net
      PROVE  \E q : m = Packet(p, q, "Echo", r, "Broadcast", h)
  BY <1>3, <1>9 DEF Broadcast
<1>10. ASSUME NEW q, NEW m, m = Packet(p, q, "Echo", r, "Broadcast", h)
       PROVE  /\ m.type = "Broadcast" /\ m.kind = "Echo" /\ m.from = p
              /\ m.to = q /\ m.round = r
  BY <1>10 DEF Packet
<1>11. ASSUME NEW m \in net', m \notin net PROVE Fresh(m)
  <2>1. m.type = "Broadcast" /\ m.kind = "Echo" /\ m.from = p /\ m.round = r
    BY <1>9, <1>10, <1>11
  <2>. QED
    BY <1>8, <2>1 DEF Fresh, EchoSent
<1>12. ASSUME NEW m \in net' \ net, NEW x \in net' \ net, SameKey(m, x)
       PROVE  m = x
  BY <1>9, <1>10, <1>12 DEF SameKey
<1>. QED
  BY <1>3, <1>6, <1>7, <1>11, <1>12, OnwardKeeps

\* Receiving a message keeps FaultlessInv: it is accepted.
LEMMA ReceiveOnward ==
    ASSUME Faultless, StoresExpectBroadcasts, Inv, Inv', FaultlessInv,
           NEW p \in Honest, NEW m \in net, m.to = p, Receive(p, m)
    PROVE  FaultlessInv'
<1>1. /\ pc[p] \in {"main", "echo"} /\ Handle(p, m) /\ net' = net \ {m}
      /\ UNCHANGED late
  BY DEF Receive, Faultless
<1>2. /\ MainMore(p, RouteMain(main[p], m))
      /\ DOMAIN RouteMain(main[p], m) = Rounds
      /\ EchoMore(p, RouteEcho(echo[p], m))
      /\ DOMAIN RouteEcho(echo[p], m) = Reliable
      /\ ~ Overflows(m) /\ IsRegistered(RouterRound(m))
  BY <1>1, RouteTakes
<1>3. Shapes
  BY DEF Inv
<1>4. CASE /\ pc[p] = "main"
           /\ TryCompleteMain(p, RouteMain(main[p], m))
           /\ echo' = [echo EXCEPT ![p] = RouteEcho(@, m)]
  <2>1. /\ echo'[p] = RouteEcho(echo[p], m)
        /\ \A q \in Honest \ {p} : echo'[q] = echo[q]
    BY <1>3, <1>4 DEF Shapes
  <2>2. /\ Onward(p) /\ MainMore(p, main'[p])
        /\ \A q \in Honest \ {p} : main'[q] = main[q]
    BY <1>2, <1>4, MainOnward
  <2>. QED
    BY <1>1, <1>2, <2>1, <2>2, OnwardKeeps
<1>5. CASE /\ pc[p] = "echo"
           /\ TryCompleteEcho(p, RouteEcho(echo[p], m))
           /\ main' = [main EXCEPT ![p] = RouteMain(@, m)]
  <2>1. /\ main'[p] = RouteMain(main[p], m)
        /\ \A q \in Honest \ {p} : main'[q] = main[q]
    BY <1>3, <1>5 DEF Shapes
  <2>2. /\ Onward(p) /\ EchoMore(p, echo'[p])
        /\ \A q \in Honest \ {p} : echo'[q] = echo[q]
    BY <1>1, <1>2, <1>5, EchoOnward
  <2>. QED
    BY <1>1, <1>2, <2>1, <2>2, OnwardKeeps
<1>. QED
  BY <1>1, <1>2, <1>4, <1>5 DEF Handle

\* FaultlessInv holds at the start.
LEMMA FaultlessInit == Init => FaultlessInv
<1> SUFFICES ASSUME Init PROVE FaultlessInv
  OBVIOUS
<1>1. ASSUME NEW p \in Honest, NEW q, NEW type
      PROVE  LET e == Ongoing(RoundInputNew(p, N, type), NoMessages)
             IN  e.st # "Failed" /\ ~ Has(p, e, q)
  <2> DEFINE e == Ongoing(RoundInputNew(p, N, type), NoMessages)
  <2>1. /\ e.st = "Ongoing" /\ DOMAIN e.received = {}
        /\ DOMAIN e.store.messages = {}
    BY DEF Ongoing, NoMessages, RoundInputNew
  <2> HIDE DEF e
  <2>2. e.st # "Failed" /\ ~ Has(p, e, q)
    BY <2>1 DEF Has
  <2>. QED
    BY <2>2 DEF e
<1>2. ASSUME NEW p \in Honest PROVE Unfailed(p) /\ Ordered(p)
  <2>1. /\ pc[p] # "failed" /\ check[p] = NoMessages /\ sent[p] = NoMessages
        /\ \A r \in Rounds : main[p][r] = NewMain(p, r)
        /\ \A r \in Reliable : echo[p][r] = NewEcho(p)
    BY DEF Init
  <2>2. Unfailed(p)
    BY <1>1, <2>1 DEF Unfailed, NewMain, NewEcho
  <2>. QED
    BY <2>1, <2>2 DEF Ordered, NoMessages
<1>. QED
  BY <1>2 DEF Init, FaultlessInv

\* Every step keeps FaultlessInv.
LEMMA FaultlessStep ==
    ASSUME Faultless, StoresExpectBroadcasts, Inv, Inv', FaultlessInv,
           [Next]_vars
    PROVE  FaultlessInv'
<1>1. CASE UNCHANGED vars
  BY <1>1 DEF vars, FaultlessInv, Unfailed, Ordered, OnItsWay, SameKey, Has,
              MainSent, EchoSent
<1>2. CASE Next
  <2>1. PICK p \in Honest :
          \/ \E r \in Rounds, dest \in Destinations :
                \/ \E v \in Values :
                      Send(p, r, dest, v) \/ SendFails(p, r, dest, v)
                \/ SendRefused(p, r, dest)
          \/ Complete(p) \/ CancelComplete(p)
          \/ SendEcho(p) \/ SendEchoFails(p)
          \/ \E m \in {x \in net : x.to = p} : Receive(p, m)
          \/ \E m \in ByzPackets(p) : ReceiveByz(p, m)
    BY <1>2 DEF Next
  <2>2. ~ CancelComplete(p) /\ ~ SendEchoFails(p) /\ ByzPackets(p) = {}
    BY DEF Faultless, CancelComplete, SendEchoFails, ByzPackets
  <2>3. ASSUME NEW r \in Rounds, NEW dest \in Destinations
        PROVE  /\ ~ SendRefused(p, r, dest)
               /\ \A v \in Values : ~ SendFails(p, r, dest, v)
    BY NothingRefused DEF Faultless, SendRefused, SendFails
  <2>. QED
    BY <2>1, <2>2, <2>3, SendOnward, CompleteOnward, SendEchoOnward,
       ReceiveOnward
<1>. QED
  BY <1>1, <1>2

\* If everybody is honest and careful, sends succeed and nothing is duplicated,
\* then no party fails in a protocol of broadcasts: whatever overtakes
\* whatever, every message and every echo finds its place in a round, which it
\* finds empty, and all hashes agree.
THEOREM HonestNeverFailCorrect ==
    ASSUME StoresExpectBroadcasts
    PROVE  Spec => []HonestNeverFail
<1>1. CASE Faultless
  <2>1. Inv /\ Inv' /\ FaultlessInv /\ [Next]_vars => FaultlessInv'
    BY <1>1, FaultlessStep
  <2>2. FaultlessInv => HonestNeverFail
    BY DEF FaultlessInv, Unfailed, HonestNeverFail
  <2>. QED
    BY <2>1, <2>2, FaultlessInit, InvCorrect, PTL DEF Spec
<1>2. CASE ~ Faultless
  <2>1. HonestNeverFail
    BY <1>2 DEF Faultless, HonestNeverFail
  <2>. QED
    BY <2>1, PTL
<1>. QED
  BY <1>1, <1>2

-----------------------------------------------------------------------------
(***************************************************************************)
(* Without faults nobody gets stuck.                                       *)
(***************************************************************************)
\* A message of this kind and round is on its way from q to p.
Coming(q, p, kind, r) ==
    \E m \in net : m.from = q /\ m.to = p /\ m.kind = kind /\ m.round = r

\* The round of p has the message of q.
Filled(p, e, q) == SlotOf(p, q) \in DOMAIN e.store.messages

\* A round of p that is ongoing wants more messages; what the others have sent
\* to it has arrived or is on its way.
MainFed(p, r) ==
    main[p][r].st = "Ongoing" =>
        /\ WantsMore(main[p][r].store)
        /\ \A q \in Honest \ {p} :
             MainSent(q, r) =>
                 Filled(p, main[p][r], q) \/ Coming(q, p, "Main", r)

EchoFed(p, r) ==
    echo[p][r].st = "Ongoing" =>
        /\ WantsMore(echo[p][r].store)
        /\ \A q \in Honest \ {p} :
             EchoSent(q, r) =>
                 Filled(p, echo[p][r], q) \/ Coming(q, p, "Echo", r)

\* A party awaits a round that is ongoing only.
Awaiting(p) ==
    /\ pc[p] = "main" => main[p][rnd[p]].st = "Ongoing"
    /\ pc[p] = "echo" => echo[p][rnd[p]].st = "Ongoing"

ArrivesInv ==
    \A p \in Honest :
        /\ Awaiting(p)
        /\ \A r \in Rounds : MainFed(p, r)
        /\ \A r \in Reliable : EchoFed(p, r)

\* An entry that is still ongoing has what it had, and the message that came.
Fills(p, e, new, m) ==
    new.st = "Ongoing" =>
        /\ WantsMore(new.store)
        /\ \A q \in Others(p, N) :
             Filled(p, e, q) \/ q = m.from => Filled(p, new, q)

\* A store that accepts a message has it then.
LEMMA SettledFills ==
    ASSUME NEW p \in Parties, NEW type, NEW M,
           NEW e, GoodEntry(p, type, M, e), e.st = "Ongoing",
           NEW m, m.from \in Parties, m.msg \in M,
           NEW in, in.id = 0, in.sender = m.from, in.msg = m.msg,
           AddMessageError(e.store, in) = NoError, NEW received
    PROVE  Fills(p, e, Settled(AddMessage(e.store, in), received), m)
<1> DEFINE store == AddMessage(e.store, in)
           new == Settled(store, received)
<1>1. e.store \in RoundInputs(p, N, type, M) /\ Counted(e.store)
  BY EntryCases DEF GoodEntry
<1>2. \A q \in Others(p, N) :
        SlotOf(p, q) \in DOMAIN store.messages
          <=> SlotOf(p, q) \in DOMAIN e.store.messages \/ q = m.from
  BY <1>1, StoreTakes
<1> HIDE DEF store
<1>3. CASE WantsMore(store)
  <2>1. new.store = store
    BY <1>3 DEF Settled, Ongoing
  <2>. QED
    BY <1>2, <1>3, <2>1 DEF Fills, Filled, store
<1>4. CASE ~ WantsMore(store)
  <2>1. new.st = "Collected"
    BY <1>4 DEF Settled, Collected
  <2>. QED
    BY <2>1 DEF Fills, store
<1>. QED
  BY <1>3, <1>4

\* An entry that failed is not ongoing.
LEMMA FailedFills ==
    ASSUME NEW p, NEW e, NEW m, NEW kind
    PROVE  Fills(p, e, Failed(kind), m)
  BY DEF Fills, Failed

\* So a round without reliability check, and one of echoes, has the message.
LEMMA PlainFills ==
    ASSUME NEW p \in Parties, NEW type, NEW M,
           NEW e, GoodEntry(p, type, M, e), e.st = "Ongoing",
           NEW m, m.from \in Parties, m.msg \in M
    PROVE  Fills(p, e, AddPlain(e, m), m)
<1> DEFINE in == AsIncoming(m)
<1>1. in.id = 0 /\ in.sender = m.from /\ in.msg = m.msg
  BY IncomingFields
<1> HIDE DEF in
<1>2. CASE AddMessageError(e.store, in) = NoError
  <2>1. AddPlain(e, m) = Settled(AddMessage(e.store, in), e.received)
    BY <1>2 DEF AddPlain, in
  <2>. QED
    BY <1>1, <1>2, <2>1, SettledFills
<1>3. CASE AddMessageError(e.store, in) # NoError
  BY <1>3, FailedFills DEF AddPlain, in
<1>. QED
  BY <1>2, <1>3

\* And so does a reliable round.
LEMMA ReliableFills ==
    ASSUME NEW p \in Parties, NEW type, NEW M,
           NEW e, GoodEntry(p, type, M, e), e.st = "Ongoing",
           NEW m, m.from \in Parties, m.msg \in M
    PROVE  Fills(p, e, AddReliable(e, m), m)
<1> DEFINE in == [AsIncoming(m) EXCEPT !.type = "ReliableBroadcast"]
           copy == With(e.received, m.from, m.msg)
<1>1. in.id = 0 /\ in.sender = m.from /\ in.msg = m.msg
  BY IncomingFields
<1> HIDE DEF in
<1>2. CASE AddMessageError(e.store, in) = NoError /\ m.from \notin DOMAIN e.received
  <2>1. AddReliable(e, m) = Settled(AddMessage(e.store, in), copy)
    BY <1>2 DEF AddReliable, in
  <2> HIDE DEF copy
  <2>. QED
    BY <1>1, <1>2, <2>1, SettledFills
<1>3. CASE \/ AddMessageError(e.store, in) # NoError
           \/ m.from \in DOMAIN e.received
  <2>1. \E kind : AddReliable(e, m) = Failed(kind)
    BY <1>3 DEF AddReliable, in
  <2>. QED
    BY <2>1, FailedFills
<1>. QED
  BY <1>2, <1>3

\* The entries of p that are still ongoing have what they had, and the message
\* that has come from the network.
MainKept(p, es) ==
    \A r \in Rounds :
        es[r].st = "Ongoing" =>
            /\ main[p][r].st = "Ongoing" /\ WantsMore(es[r].store)
            /\ \A q \in Honest \ {p} :
                 \/ Filled(p, main[p][r], q)
                 \/ \E m \in net \ net' :
                       m.from = q /\ m.kind = "Main" /\ m.round = r
                 => Filled(p, es[r], q)

EchoKept(p, es) ==
    \A r \in Reliable :
        es[r].st = "Ongoing" =>
            /\ echo[p][r].st = "Ongoing" /\ WantsMore(es[r].store)
            /\ \A q \in Honest \ {p} :
                 \/ Filled(p, echo[p][r], q)
                 \/ \E m \in net \ net' :
                       m.from = q /\ m.kind = "Echo" /\ m.round = r
                 => Filled(p, es[r], q)

\* Entries that do not change have what they had.
LEMMA KeptAsBefore ==
    ASSUME ArrivesInv, NEW p \in Honest, net \subseteq net'
    PROVE  MainKept(p, main[p]) /\ EchoKept(p, echo[p])
  BY DEF ArrivesInv, MainFed, EchoFed, MainKept, EchoKept

\* A message of an honest party finds the round it was sent for.
LEMMA EchoFindsRound ==
    ASSUME Inv, NEW m \in net, m.kind = "Echo"
    PROVE  /\ m.round \in Reliable /\ m.msg \in EchoHashes
           /\ (RouterRound(m) - 1) \div 2 = m.round
<1>1. GoodPacket(m) /\ Valid(m)
  BY NetComes DEF Inv, Authentic, Comes
<1>2. m.round \in Reliable
  BY <1>1 DEF GoodPacket, IsEchoOf, Inv, Local, Bookkeeping
<1>3. 2 * m.round + 1 < U16 /\ m.round \in Nat /\ U16 \in Nat
  BY <1>2, RoundsFacts, EchoAssumption
<1>4. RouterRound(m) = 2 * m.round + 1
  BY <1>3 DEF RouterRound
<1>5. (RouterRound(m) - 1) \div 2 = m.round
  BY <1>3, <1>4
<1>. QED
  BY <1>1, <1>2, <1>5 DEF Valid

\* A message comes from the network: the round it is for has it then.
LEMMA RouteFills ==
    ASSUME Inv, ArrivesInv, NEW p \in Honest, NEW m \in net,
           net' = net \ {m}
    PROVE  /\ MainKept(p, RouteMain(main[p], m))
           /\ EchoKept(p, RouteEcho(echo[p], m))
<1>1. /\ p \in Parties /\ MainEntries(p, main[p]) /\ EchoEntries(p, echo[p])
      /\ DOMAIN main[p] = Rounds /\ DOMAIN echo[p] = Reliable
      /\ Honest \ {p} \subseteq Others(p, N)
  BY EntriesNow, PartiesFacts DEF MainAt, EchoAt, MainEntries, EchoEntries
<1>2. GoodPacket(m) /\ Valid(m) /\ m.from \in Parties
  BY NetComes DEF Inv, Authentic, Comes, Valid
<1>3. \A x \in net \ net' : x = m
  OBVIOUS
<1>4. ASSUME NEW r \in Rounds, RouteMain(main[p], m)[r].st = "Ongoing"
      PROVE  LET e == RouteMain(main[p], m)[r] IN
             /\ main[p][r].st = "Ongoing" /\ WantsMore(e.store)
             /\ \A q \in Honest \ {p} :
                  \/ Filled(p, main[p][r], q)
                  \/ m.from = q /\ m.kind = "Main" /\ m.round = r
                  => Filled(p, e, q)
  <2>1. CASE m.kind = "Main" /\ m.round = r /\ main[p][r].st = "Ongoing"
    <3>1. RouteMain(main[p], m)[r] = ProcessMain(main[p][r], m)
      BY <1>1, <2>1 DEF RouteMain
    <3>2. GoodEntry(p, Stores[r].type, Values, main[p][r]) /\ m.msg \in Values
      BY <1>1, <1>2, <2>1 DEF MainEntries, GoodMain, GoodPacket
    <3>3. Fills(p, main[p][r], ProcessMain(main[p][r], m), m)
      BY <1>1, <1>2, <2>1, <3>2, PlainFills, ReliableFills DEF ProcessMain
    <3>. QED
      BY <1>1, <1>4, <2>1, <3>1, <3>3 DEF Fills
  <2>2. CASE ~ (m.kind = "Main" /\ m.round = r /\ main[p][r].st = "Ongoing")
    <3>1. RouteMain(main[p], m)[r] = main[p][r]
      BY <1>1, <2>2 DEF RouteMain
    <3>. QED
      BY <1>4, <2>2, <3>1 DEF ArrivesInv, MainFed
  <2>. QED
    BY <2>1, <2>2
<1>5. ASSUME NEW r \in Reliable, RouteEcho(echo[p], m)[r].st = "Ongoing"
      PROVE  LET e == RouteEcho(echo[p], m)[r] IN
             /\ echo[p][r].st = "Ongoing" /\ WantsMore(e.store)
             /\ \A q \in Honest \ {p} :
                  \/ Filled(p, echo[p][r], q)
                  \/ m.from = q /\ m.kind = "Echo" /\ m.round = r
                  => Filled(p, e, q)
  <2>1. CASE m.kind = "Echo" /\ m.round = r /\ echo[p][r].st = "Ongoing"
    <3>1. (RouterRound(m) - 1) \div 2 = r /\ m.msg \in EchoHashes
      BY <2>1, EchoFindsRound
    <3>2. RouteEcho(echo[p], m)[r] = AddPlain(echo[p][r], m)
      BY <1>1, <2>1, <3>1 DEF RouteEcho, ProcessEcho
    <3>3. GoodEntry(p, "Broadcast", EchoHashes, echo[p][r])
      BY <1>1 DEF EchoEntries, GoodEcho
    <3>4. Fills(p, echo[p][r], AddPlain(echo[p][r], m), m)
      BY <1>1, <1>2, <2>1, <3>1, <3>3, PlainFills
    <3>. QED
      BY <1>1, <1>5, <2>1, <3>2, <3>4 DEF Fills
  <2>2. CASE ~ (m.kind = "Echo" /\ m.round = r /\ echo[p][r].st = "Ongoing")
    <3>1. m.kind = "Echo" => (RouterRound(m) - 1) \div 2 = m.round
      BY EchoFindsRound
    <3>2. RouteEcho(echo[p], m)[r] = echo[p][r]
      BY <1>1, <2>2, <3>1 DEF RouteEcho
    <3>. QED
      BY <1>5, <2>2, <3>2 DEF ArrivesInv, EchoFed
  <2>. QED
    BY <2>1, <2>2
<1>6. MainKept(p, RouteMain(main[p], m))
  BY <1>3, <1>4 DEF MainKept
<1>7. EchoKept(p, RouteEcho(echo[p], m))
  BY <1>3, <1>5 DEF EchoKept
<1>. QED
  BY <1>6, <1>7

\* Of the others, p does not touch anything.
OnlyOf(p) ==
    \A q \in Honest \ {p} : /\ pc'[q] = pc[q] /\ rnd'[q] = rnd[q]
                            /\ main'[q] = main[q] /\ echo'[q] = echo[q]

\* What p has passed the send of by a step, it has sent to all the others.
SentToAll(p) ==
    /\ \A r \in Rounds :
         MainSent(p, r)' =>
             \/ MainSent(p, r)
             \/ \A q \in Honest \ {p} : Coming(p, q, "Main", r)'
    /\ \A r \in Reliable :
         EchoSent(p, r)' =>
             \/ EchoSent(p, r)
             \/ \A q \in Honest \ {p} : Coming(p, q, "Echo", r)'

\* What a step of p has to do to keep the invariant.
LEMMA ArrivesKept ==
    ASSUME ArrivesInv, NEW p \in Honest, OnlyOf(p), SentToAll(p),
           MainKept(p, main'[p]), EchoKept(p, echo'[p]), Awaiting(p)',
           \A m \in net \ net' : m.to = p
    PROVE  ArrivesInv'
<1>1. ASSUME NEW q \in Honest PROVE Awaiting(q)'
  <2>1. CASE q = p
    BY <2>1
  <2>2. CASE q # p
    BY <2>2 DEF ArrivesInv, Awaiting, OnlyOf
  <2>. QED
    BY <2>1, <2>2
<1>2. ASSUME NEW q \in Honest, NEW s, NEW kind, NEW r,
             Coming(s, q, kind, r), ~ Coming(s, q, kind, r)'
      PROVE  /\ q = p
             /\ \E m \in net \ net' : m.from = s /\ m.kind = kind /\ m.round = r
  BY <1>2 DEF Coming
<1>3. ASSUME NEW q \in Honest, NEW r \in Rounds, main'[q][r].st = "Ongoing",
             NEW s \in Honest \ {q}, MainSent(s, r)'
      PROVE  Filled(q, main'[q][r], s) \/ Coming(s, q, "Main", r)'
  <2>1. CASE q = p
    <3>1. main[p][r].st = "Ongoing" /\ MainSent(s, r)
      BY <1>3, <2>1 DEF MainKept, OnlyOf, MainSent
    <3>2. Filled(p, main[p][r], s) \/ Coming(s, p, "Main", r)
      BY <1>3, <2>1, <3>1 DEF ArrivesInv, MainFed
    <3>. QED
      BY <1>2, <1>3, <2>1, <3>2 DEF MainKept
  <2>2. CASE q # p
    <3>1. main'[q] = main[q]
      BY <2>2 DEF OnlyOf
    <3>2. MainSent(s, r) \/ Coming(s, q, "Main", r)'
      BY <1>3, <2>2 DEF SentToAll, OnlyOf, MainSent
    <3>3. MainSent(s, r) =>
            Filled(q, main[q][r], s) \/ Coming(s, q, "Main", r)
      BY <1>3, <3>1 DEF ArrivesInv, MainFed
    <3>. QED
      BY <1>2, <2>2, <3>1, <3>2, <3>3
  <2>. QED
    BY <2>1, <2>2
<1>4. ASSUME NEW q \in Honest, NEW r \in Reliable, echo'[q][r].st = "Ongoing",
             NEW s \in Honest \ {q}, EchoSent(s, r)'
      PROVE  Filled(q, echo'[q][r], s) \/ Coming(s, q, "Echo", r)'
  <2>1. CASE q = p
    <3>1. echo[p][r].st = "Ongoing" /\ EchoSent(s, r)
      BY <1>4, <2>1 DEF EchoKept, OnlyOf, EchoSent
    <3>2. Filled(p, echo[p][r], s) \/ Coming(s, p, "Echo", r)
      BY <1>4, <2>1, <3>1 DEF ArrivesInv, EchoFed
    <3>. QED
      BY <1>2, <1>4, <2>1, <3>2 DEF EchoKept
  <2>2. CASE q # p
    <3>1. echo'[q] = echo[q]
      BY <2>2 DEF OnlyOf
    <3>2. EchoSent(s, r) \/ Coming(s, q, "Echo", r)'
      BY <1>4, <2>2 DEF SentToAll, OnlyOf, EchoSent
    <3>3. EchoSent(s, r) =>
            Filled(q, echo[q][r], s) \/ Coming(s, q, "Echo", r)
      BY <1>4, <3>1 DEF ArrivesInv, EchoFed
    <3>. QED
      BY <1>2, <2>2, <3>1, <3>2, <3>3
  <2>. QED
    BY <2>1, <2>2
<1>5. ASSUME NEW q \in Honest, NEW r \in Rounds, main'[q][r].st = "Ongoing"
      PROVE  WantsMore(main'[q][r].store)
  BY <1>5 DEF MainKept, OnlyOf, ArrivesInv, MainFed
<1>6. ASSUME NEW q \in Honest, NEW r \in Reliable, echo'[q][r].st = "Ongoing"
      PROVE  WantsMore(echo'[q][r].store)
  BY <1>6 DEF EchoKept, OnlyOf, ArrivesInv, EchoFed
<1>7. ASSUME NEW q \in Honest, NEW r \in Rounds PROVE MainFed(q, r)'
  BY <1>3, <1>5 DEF MainFed, Filled
<1>8. ASSUME NEW q \in Honest, NEW r \in Reliable PROVE EchoFed(q, r)'
  BY <1>4, <1>6 DEF EchoFed, Filled
<1>. QED
  BY <1>1, <1>7, <1>8 DEF ArrivesInv

\* Completing a round takes its entry.
LEMMA TakenIsKept ==
    ASSUME NEW p \in Honest, NEW es, NEW r
    PROVE  /\ DOMAIN es = Rounds /\ MainKept(p, es)
                => MainKept(p, [es EXCEPT ![r] = Gone])
           /\ DOMAIN es = Reliable /\ EchoKept(p, es)
                => EchoKept(p, [es EXCEPT ![r] = Gone])
<1> DEFINE new == [es EXCEPT ![r] = Gone]
<1>1. \A k \in DOMAIN es : new[k] = es[k] \/ new[k].st # "Ongoing"
  BY DEF Gone
<1> HIDE DEF new
<1>2. DOMAIN es = Rounds /\ MainKept(p, es) => MainKept(p, new)
  BY <1>1 DEF MainKept
<1>3. DOMAIN es = Reliable /\ EchoKept(p, es) => EchoKept(p, new)
  BY <1>1 DEF EchoKept
<1>. QED
  BY <1>2, <1>3 DEF new

\* What complete does with the messages of a round.
LEMMA MainArrives ==
    ASSUME Inv, NEW p \in Honest, pc[p] \in {"sent", "main"},
           NEW STATE es, DOMAIN es = Rounds, MainKept(p, es),
           TryCompleteMain(p, es)
    PROVE  /\ MainKept(p, main'[p]) /\ SentToAll(p) /\ Awaiting(p)'
           /\ \A q \in Honest \ {p} : /\ pc'[q] = pc[q] /\ rnd'[q] = rnd[q]
                                      /\ main'[q] = main[q]
<1> DEFINE r == rnd[p]
           gone == [es EXCEPT ![r] = Gone]
<1>1. Shapes /\ r \in Nat /\ Rounds = 0 .. (R - 1) /\ Reliable \subseteq Rounds
      /\ R \in Nat
  BY RoundsFacts, EchoAssumption DEF Inv, Local, Where, Rounds
<1>2. MainKept(p, gone)
  BY TakenIsKept
<1> HIDE DEF gone
<1>3. CASE /\ es[r].st = "Ongoing"
           /\ main' = [main EXCEPT ![p] = es]
           /\ pc' = [pc EXCEPT ![p] = "main"]
           /\ UNCHANGED rnd
  <2>1. /\ main'[p] = es /\ pc'[p] = "main" /\ rnd'[p] = r
        /\ \A q \in Honest \ {p} : /\ pc'[q] = pc[q] /\ rnd'[q] = rnd[q]
                                   /\ main'[q] = main[q]
    BY <1>1, <1>3 DEF Shapes
  <2>. QED
    BY <1>1, <1>3, <2>1 DEF SentToAll, MainSent, EchoSent, Awaiting
<1>4. CASE /\ main' = [main EXCEPT ![p] = gone]
           /\ pc' = [pc EXCEPT ![p] = "failed"]
               \/ pc' = [pc EXCEPT ![p] = "sendEcho"]
           /\ UNCHANGED rnd
  <2>1. /\ main'[p] = gone /\ pc'[p] \in {"failed", "sendEcho"} /\ rnd'[p] = r
        /\ \A q \in Honest \ {p} : /\ pc'[q] = pc[q] /\ rnd'[q] = rnd[q]
                                   /\ main'[q] = main[q]
    BY <1>1, <1>4 DEF Shapes
  <2>. QED
    BY <1>1, <1>2, <2>1 DEF SentToAll, MainSent, EchoSent, Awaiting
<1>5. CASE /\ main' = [main EXCEPT ![p] = gone]
           /\ r \notin Reliable
           /\ Expose(p, es[r].out)
  <2>1. /\ main'[p] = gone /\ rnd'[p] = r + 1
        /\ pc'[p] = IF r + 1 = R THEN "done" ELSE "idle"
        /\ \A q \in Honest \ {p} : /\ pc'[q] = pc[q] /\ rnd'[q] = rnd[q]
                                   /\ main'[q] = main[q]
    BY <1>1, <1>5 DEF Shapes, Expose
  <2>2. \A k \in Rounds : MainSent(p, k)' => MainSent(p, k)
    BY <1>1, <2>1 DEF MainSent
  <2>3. \A k \in Reliable : EchoSent(p, k)' => EchoSent(p, k)
    BY <1>1, <1>5, <2>1 DEF EchoSent
  <2>. QED
    BY <1>2, <2>1, <2>2, <2>3 DEF SentToAll, Awaiting
<1>6. \/ /\ es[r].st = "Ongoing"
         /\ main' = [main EXCEPT ![p] = es]
         /\ pc' = [pc EXCEPT ![p] = "main"]
         /\ UNCHANGED rnd
      \/ /\ main' = [main EXCEPT ![p] = gone]
         /\ pc' = [pc EXCEPT ![p] = "failed"]
             \/ pc' = [pc EXCEPT ![p] = "sendEcho"]
         /\ UNCHANGED rnd
      \/ /\ main' = [main EXCEPT ![p] = gone]
         /\ r \notin Reliable
         /\ Expose(p, es[r].out)
  BY DEF TryCompleteMain, Fail, gone
<1>. QED
  BY <1>3, <1>4, <1>5, <1>6

\* What complete does with the echoes of a round, which are sent to all.
LEMMA EchoArrives ==
    ASSUME Inv, NEW p \in Honest, pc[p] \in {"sendEcho", "echo"},
           NEW STATE es, DOMAIN es = Reliable, EchoKept(p, es),
           TryCompleteEcho(p, es), NEW r, r = rnd[p],
           EchoSent(p, r) \/ \A q \in Honest \ {p} : Coming(p, q, "Echo", r)'
    PROVE  /\ EchoKept(p, echo'[p]) /\ SentToAll(p) /\ Awaiting(p)'
           /\ \A q \in Honest \ {p} : /\ pc'[q] = pc[q] /\ rnd'[q] = rnd[q]
                                      /\ echo'[q] = echo[q]
<1> DEFINE gone == [es EXCEPT ![r] = Gone]
<1>1. Shapes /\ r \in Nat /\ Rounds = 0 .. (R - 1) /\ Reliable \subseteq Rounds
      /\ R \in Nat
  BY RoundsFacts, EchoAssumption DEF Inv, Local, Where, Rounds
<1>2. EchoKept(p, gone)
  BY TakenIsKept
<1> HIDE DEF gone
<1>3. CASE /\ es[r].st = "Ongoing"
           /\ echo' = [echo EXCEPT ![p] = es]
           /\ pc' = [pc EXCEPT ![p] = "echo"]
           /\ UNCHANGED rnd
  <2>1. /\ echo'[p] = es /\ pc'[p] = "echo" /\ rnd'[p] = r
        /\ \A q \in Honest \ {p} : /\ pc'[q] = pc[q] /\ rnd'[q] = rnd[q]
                                   /\ echo'[q] = echo[q]
    BY <1>1, <1>3 DEF Shapes
  <2>2. \A k \in Rounds : MainSent(p, k)' => MainSent(p, k)
    BY <2>1 DEF MainSent
  <2>3. \A k \in Reliable : EchoSent(p, k)' => EchoSent(p, k) \/ k = r
    BY <2>1 DEF EchoSent
  <2>4. SentToAll(p)
    BY <2>2, <2>3 DEF SentToAll
  <2>5. Awaiting(p)'
    BY <1>3, <2>1 DEF Awaiting
  <2>. QED
    BY <2>1, <2>4, <2>5
<1>4. CASE /\ echo' = [echo EXCEPT ![p] = gone]
           /\ \E kind : Fail(p, kind)
  <2>1. /\ echo'[p] = gone /\ pc'[p] = "failed" /\ rnd'[p] = r
        /\ \A q \in Honest \ {p} : /\ pc'[q] = pc[q] /\ rnd'[q] = rnd[q]
                                   /\ echo'[q] = echo[q]
    BY <1>1, <1>4 DEF Shapes, Fail
  <2>. QED
    BY <1>1, <1>2, <2>1 DEF SentToAll, MainSent, EchoSent, Awaiting
<1>5. CASE /\ echo' = [echo EXCEPT ![p] = gone]
           /\ Expose(p, check[p][r].out)
  <2>1. /\ echo'[p] = gone /\ rnd'[p] = r + 1
        /\ pc'[p] = IF r + 1 = R THEN "done" ELSE "idle"
        /\ \A q \in Honest \ {p} : /\ pc'[q] = pc[q] /\ rnd'[q] = rnd[q]
                                   /\ echo'[q] = echo[q]
    BY <1>1, <1>5 DEF Shapes, Expose
  <2>2. \A k \in Rounds : MainSent(p, k)' => MainSent(p, k)
    BY <1>1, <2>1 DEF MainSent
  <2>3. \A k \in Reliable : EchoSent(p, k)' => EchoSent(p, k) \/ k = r
    BY <1>1, <2>1 DEF EchoSent
  <2>4. SentToAll(p)
    BY <2>2, <2>3 DEF SentToAll
  <2>5. Awaiting(p)'
    BY <2>1 DEF Awaiting
  <2>. QED
    BY <1>2, <2>1, <2>4, <2>5
<1>6. \/ /\ es[r].st = "Ongoing"
         /\ echo' = [echo EXCEPT ![p] = es]
         /\ pc' = [pc EXCEPT ![p] = "echo"]
         /\ UNCHANGED rnd
      \/ /\ echo' = [echo EXCEPT ![p] = gone]
         /\ \E kind : Fail(p, kind)
      \/ /\ echo' = [echo EXCEPT ![p] = gone]
         /\ Expose(p, check[p][r].out)
  BY DEF TryCompleteEcho, gone
<1>. QED
  BY <1>3, <1>4, <1>5, <1>6

\* A message sent in a round is on its way to all the others.
LEMMA SendArrives ==
    ASSUME Faultless, Inv, FaultlessInv, ArrivesInv, NEW p \in Honest,
           NEW r \in Rounds, NEW dest \in Destinations, NEW v \in Values,
           Send(p, r, dest, v)
    PROVE  ArrivesInv'
<1>1. /\ pc[p] = "idle" /\ r = rnd[p]
      /\ dest = IF r \in Reliable THEN "Reliable" ELSE "All"
  BY NothingRefused DEF Send
<1>2. PICK qs \in Recipients(p, dest) : Hand(p, r, dest, v, qs)
  BY DEF Send
<1>3. Honest \ {p} \subseteq qs
  BY <1>1, <1>2 DEF Recipients
<1>4. Shapes
  BY DEF Inv
<1>5. /\ pc' = [pc EXCEPT ![p] = "sent"] /\ UNCHANGED <<rnd, main, echo>>
      /\ net \subseteq net'
      /\ \A q \in qs : Packet(p, q, "Main", r, WireType(dest), v) \in net'
  BY <1>2 DEF Send, Hand
<1>6. ASSUME NEW q \in Honest \ {p} PROVE Coming(p, q, "Main", r)'
  <2> DEFINE m == Packet(p, q, "Main", r, WireType(dest), v)
  <2>1. m.from = p /\ m.to = q /\ m.kind = "Main" /\ m.round = r
    BY DEF Packet
  <2>2. m \in net'
    BY <1>3, <1>5
  <2> HIDE DEF m
  <2>. QED
    BY <2>1, <2>2 DEF Coming
<1>7. /\ pc'[p] = "sent" /\ rnd'[p] = rnd[p]
      /\ OnlyOf(p)
  BY <1>4, <1>5 DEF Shapes, OnlyOf
<1>8. SentToAll(p)
  <2>1. \A k \in Rounds : MainSent(p, k)' => MainSent(p, k) \/ k = r
    BY <1>1, <1>7 DEF MainSent
  <2>2. \A k \in Reliable : EchoSent(p, k)' => EchoSent(p, k)
    BY <1>7 DEF EchoSent
  <2>. QED
    BY <1>6, <2>1, <2>2 DEF SentToAll
<1>9. MainKept(p, main'[p]) /\ EchoKept(p, echo'[p])
  BY <1>5, KeptAsBefore
<1>10. Awaiting(p)'
  BY <1>7 DEF Awaiting
<1>11. \A m \in net \ net' : m.to = p
  BY <1>5
<1>. QED
  BY <1>7, <1>8, <1>9, <1>10, <1>11, ArrivesKept

\* The first poll of complete loses nothing.
LEMMA CompleteArrives ==
    ASSUME Faultless, Inv, ArrivesInv, NEW p \in Honest, Complete(p)
    PROVE  ArrivesInv'
<1>1. /\ pc[p] \in {"sent", "main"} /\ TryCompleteMain(p, main[p])
      /\ UNCHANGED <<echo, net>>
  BY DEF Complete, Faultless
<1>2. DOMAIN main[p] = Rounds
  BY DEF Inv, Local, MainEntries
<1>3. MainKept(p, main[p]) /\ EchoKept(p, echo'[p])
  BY <1>1, KeptAsBefore
<1>4. /\ MainKept(p, main'[p]) /\ SentToAll(p) /\ Awaiting(p)'
      /\ \A q \in Honest \ {p} : /\ pc'[q] = pc[q] /\ rnd'[q] = rnd[q]
                                 /\ main'[q] = main[q]
  BY <1>1, <1>2, <1>3, MainArrives
<1>5. OnlyOf(p)
  BY <1>1, <1>4 DEF OnlyOf
<1>6. \A m \in net \ net' : m.to = p
  BY <1>1
<1>. QED
  BY <1>3, <1>4, <1>5, <1>6, ArrivesKept

\* The hash of a round is on its way to all the others.
LEMMA SendEchoArrives ==
    ASSUME Inv, ArrivesInv, NEW p \in Honest, SendEcho(p)
    PROVE  ArrivesInv'
<1>1. PICK r : r = rnd[p]
  OBVIOUS
<1>2. PICK h : h = check[p][rnd[p]].hash
  OBVIOUS
<1>3. /\ pc[p] = "sendEcho" /\ TryCompleteEcho(p, echo[p])
      /\ UNCHANGED main
      /\ net' = net \cup Broadcast(p, "Echo", r, h)
  BY <1>1, <1>2 DEF SendEcho
<1>4. ASSUME NEW q \in Honest \ {p} PROVE Coming(p, q, "Echo", r)'
  <2> DEFINE m == Packet(p, q, "Echo", r, "Broadcast", h)
  <2>1. m.from = p /\ m.to = q /\ m.kind = "Echo" /\ m.round = r
    BY DEF Packet
  <2>2. q \in UNION Recipients(p, "All")
    BY DEF Recipients
  <2>3. m \in net'
    BY <1>3, <2>2 DEF Broadcast
  <2> HIDE DEF m
  <2>. QED
    BY <2>1, <2>3 DEF Coming
<1>5. DOMAIN echo[p] = Reliable
  BY DEF Inv, Local, EchoEntries
<1>6. net \subseteq net'
  BY <1>3
<1>7. MainKept(p, main'[p]) /\ EchoKept(p, echo[p])
  BY <1>3, <1>6, KeptAsBefore
<1>8. /\ EchoKept(p, echo'[p]) /\ SentToAll(p) /\ Awaiting(p)'
      /\ \A q \in Honest \ {p} : /\ pc'[q] = pc[q] /\ rnd'[q] = rnd[q]
                                 /\ echo'[q] = echo[q]
  BY <1>1, <1>3, <1>4, <1>5, <1>7, EchoArrives
<1>9. OnlyOf(p)
  BY <1>3, <1>8 DEF OnlyOf
<1>. QED
  BY <1>6, <1>7, <1>8, <1>9, ArrivesKept

\* A message that is received is in its round then.
LEMMA ReceiveArrives ==
    ASSUME Faultless, StoresExpectBroadcasts, Inv, FaultlessInv, ArrivesInv,
           NEW p \in Honest, NEW m \in net, m.to = p, Receive(p, m)
    PROVE  ArrivesInv'
<1>1. pc[p] \in {"main", "echo"} /\ Handle(p, m) /\ net' = net \ {m}
  BY DEF Receive, Faultless
<1>2. /\ DOMAIN RouteMain(main[p], m) = Rounds
      /\ DOMAIN RouteEcho(echo[p], m) = Reliable
      /\ ~ Overflows(m) /\ IsRegistered(RouterRound(m))
  BY <1>1, RouteTakes
<1>3. /\ MainKept(p, RouteMain(main[p], m))
      /\ EchoKept(p, RouteEcho(echo[p], m))
  BY <1>1, RouteFills
<1>4. Shapes /\ \A x \in net \ net' : x.to = p
  BY <1>1 DEF Inv
<1>5. CASE /\ pc[p] = "main"
           /\ TryCompleteMain(p, RouteMain(main[p], m))
           /\ echo' = [echo EXCEPT ![p] = RouteEcho(@, m)]
  <2>1. /\ echo'[p] = RouteEcho(echo[p], m)
        /\ \A q \in Honest \ {p} : echo'[q] = echo[q]
    BY <1>4, <1>5 DEF Shapes
  <2>2. /\ MainKept(p, main'[p]) /\ SentToAll(p) /\ Awaiting(p)'
        /\ \A q \in Honest \ {p} : /\ pc'[q] = pc[q] /\ rnd'[q] = rnd[q]
                                   /\ main'[q] = main[q]
    BY <1>2, <1>3, <1>5, MainArrives
  <2>3. OnlyOf(p) /\ EchoKept(p, echo'[p])
    BY <1>3, <2>1, <2>2 DEF OnlyOf
  <2>. QED
    BY <1>4, <2>2, <2>3, ArrivesKept
<1>6. CASE /\ pc[p] = "echo"
           /\ TryCompleteEcho(p, RouteEcho(echo[p], m))
           /\ main' = [main EXCEPT ![p] = RouteMain(@, m)]
  <2>1. /\ main'[p] = RouteMain(main[p], m)
        /\ \A q \in Honest \ {p} : main'[q] = main[q]
    BY <1>4, <1>6 DEF Shapes
  <2>2. PICK r : r = rnd[p]
    OBVIOUS
  <2>3. EchoSent(p, r)
    BY <1>6, <2>2 DEF EchoSent
  <2>4. /\ EchoKept(p, echo'[p]) /\ SentToAll(p) /\ Awaiting(p)'
        /\ \A q \in Honest \ {p} : /\ pc'[q] = pc[q] /\ rnd'[q] = rnd[q]
                                   /\ echo'[q] = echo[q]
    BY <1>2, <1>3, <1>6, <2>2, <2>3, EchoArrives
  <2>5. OnlyOf(p) /\ MainKept(p, main'[p])
    BY <1>3, <2>1, <2>4 DEF OnlyOf
  <2>. QED
    BY <1>4, <2>4, <2>5, ArrivesKept
<1>. QED
  BY <1>1, <1>2, <1>5, <1>6 DEF Handle

\* ArrivesInv holds at the start.
LEMMA ArrivesInit == Init => ArrivesInv
<1> SUFFICES ASSUME Init PROVE ArrivesInv
  OBVIOUS
<1>1. ASSUME NEW p \in Honest, NEW type
      PROVE  WantsMore(Ongoing(RoundInputNew(p, N, type), NoMessages).store)
  <2>1. WantsMore(RoundInputNew(p, N, type))
    BY EchoAssumption DEF WantsMore, RoundInputNew
  <2>. QED
    BY <2>1 DEF Ongoing
<1>2. ASSUME NEW q \in Honest, NEW r \in Rounds
      PROVE  ~ MainSent(q, r) /\ ~ EchoSent(q, r)
  <2>1. r \in Nat /\ R # 0 /\ rnd[q] = 0
    BY EchoAssumption DEF Init, Rounds
  <2>2. pc[q] = "idle"
    BY <2>1 DEF Init
  <2>. QED
    BY <2>1, <2>2 DEF MainSent, EchoSent
<1>3. ASSUME NEW p \in Honest, NEW r \in Rounds PROVE MainFed(p, r)
  <2>1. main[p][r] = NewMain(p, r)
    BY DEF Init
  <2>. QED
    BY <1>1, <1>2, <2>1 DEF MainFed, NewMain
<1>4. ASSUME NEW p \in Honest, NEW r \in Reliable PROVE EchoFed(p, r)
  <2>1. echo[p][r] = NewEcho(p) /\ r \in Rounds
    BY RoundsFacts DEF Init
  <2>. QED
    BY <1>1, <1>2, <2>1 DEF EchoFed, NewEcho
<1>5. ASSUME NEW p \in Honest PROVE Awaiting(p)
  BY DEF Init, Awaiting
<1>. QED
  BY <1>3, <1>4, <1>5 DEF ArrivesInv

\* Every step keeps ArrivesInv.
LEMMA ArrivesStep ==
    ASSUME Faultless, StoresExpectBroadcasts, Inv, FaultlessInv, ArrivesInv,
           [Next]_vars
    PROVE  ArrivesInv'
<1>1. CASE UNCHANGED vars
  BY <1>1 DEF vars, ArrivesInv, Awaiting, MainFed, EchoFed, Filled, Coming,
              MainSent, EchoSent
<1>2. CASE Next
  <2>1. PICK p \in Honest :
          \/ \E r \in Rounds, dest \in Destinations :
                \/ \E v \in Values :
                      Send(p, r, dest, v) \/ SendFails(p, r, dest, v)
                \/ SendRefused(p, r, dest)
          \/ Complete(p) \/ CancelComplete(p)
          \/ SendEcho(p) \/ SendEchoFails(p)
          \/ \E m \in {x \in net : x.to = p} : Receive(p, m)
          \/ \E m \in ByzPackets(p) : ReceiveByz(p, m)
    BY <1>2 DEF Next
  <2>2. ~ CancelComplete(p) /\ ~ SendEchoFails(p) /\ ByzPackets(p) = {}
    BY DEF Faultless, CancelComplete, SendEchoFails, ByzPackets
  <2>3. ASSUME NEW r \in Rounds, NEW dest \in Destinations
        PROVE  /\ ~ SendRefused(p, r, dest)
               /\ \A v \in Values : ~ SendFails(p, r, dest, v)
    BY NothingRefused DEF Faultless, SendRefused, SendFails
  <2>. QED
    BY <2>1, <2>2, <2>3, SendArrives, CompleteArrives, SendEchoArrives,
       ReceiveArrives
<1>. QED
  BY <1>1, <1>2

\* A set of round numbers has a least one.
LEMMA LeastRound ==
    ASSUME NEW T \in SUBSET Nat, T # {}
    PROVE  \E x \in T : \A y \in T : x <= y
<1> DEFINE less == {ss \in Nat \X Nat : ss[1] < ss[2]}
<1>1. IsWellFoundedOn(less, Nat)
  BY NatLessThanWellFounded DEF OpToRel
<1>2. \A x, y \in T : x < y => <<x, y>> \in less
  OBVIOUS
<1> HIDE DEF less
<1>3. PICK x \in T : \A y \in T : ~ (<<y, x>> \in less)
  BY <1>1, WFMin
<1>4. ASSUME NEW y \in T
      PROVE  x <= y
  <2>1. x \in Nat /\ y \in Nat
    OBVIOUS
  <2>2. ~ (y < x)
    BY <1>2, <1>3
  <2>. QED
    BY <2>1, <2>2
<1>. QED
  BY <1>4

\* Some party sends or polls by itself, or one that waits has a message coming.
SomeoneCanGoOn ==
    Faultless =>
        \/ \A p \in Honest : pc[p] = "done"
        \/ \E p \in Honest : pc[p] \in {"idle", "sent", "sendEcho"}
        \/ \E m \in net : pc[m.to] \in {"main", "echo"}

\* A party that awaits the messages of a round which all the others have sent
\* has one of them coming.
LEMMA MainComes ==
    ASSUME Faultless, Inv, ArrivesInv, NEW p \in Honest, pc[p] = "main",
           \A q \in Honest \ {p} : MainSent(q, rnd[p])
    PROVE  \E m \in net : m.to = p
<1>1. rnd[p] \in Rounds /\ main[p][rnd[p]].st = "Ongoing"
  BY RoundsFacts, EchoAssumption
     DEF Inv, Local, Where, Running, ArrivesInv, Awaiting, Rounds
<1>2. PICK r \in Rounds : r = rnd[p]
  BY <1>1
<1>3. PICK e : e = main[p][r]
  OBVIOUS
<1>4. /\ e.st = "Ongoing" /\ WantsMore(e.store)
      /\ \A q \in Honest \ {p} : Filled(p, e, q) \/ Coming(q, p, "Main", r)
  BY <1>1, <1>2, <1>3 DEF ArrivesInv, MainFed
<1>5. p \in Parties /\ Others(p, N) = Honest \ {p} /\ N \in Nat /\ N >= 2
      /\ p \in 0 .. (N - 1)
  BY PartiesFacts, EchoAssumption DEF Faultless, Byzantine
<1>6. GoodEntry(p, Stores[r].type, Values, e)
  BY <1>3 DEF Inv, Local, MainEntries, GoodMain
<1>7. e.store \in RoundInputs(p, N, Stores[r].type, Values) /\ Counted(e.store)
  BY <1>4, <1>6, EntryCases DEF GoodEntry
<1>8. PICK j \in Others(p, N) : ~ Filled(p, e, j)
  BY <1>4, <1>5, <1>7, VacantSlot DEF Filled
<1>. QED
  BY <1>4, <1>5, <1>8 DEF Coming

\* So has one that awaits the echoes of a round that all have sent.
LEMMA EchoComes ==
    ASSUME Faultless, Inv, ArrivesInv, NEW p \in Honest, pc[p] = "echo",
           \A q \in Honest \ {p} : EchoSent(q, rnd[p])
    PROVE  \E m \in net : m.to = p
<1>1. rnd[p] \in Reliable /\ echo[p][rnd[p]].st = "Ongoing"
  BY DEF Inv, Local, Where, Bookkeeping, ArrivesInv, Awaiting
<1>2. PICK r \in Reliable : r = rnd[p]
  BY <1>1
<1>3. PICK e : e = echo[p][r]
  OBVIOUS
<1>4. /\ e.st = "Ongoing" /\ WantsMore(e.store)
      /\ \A q \in Honest \ {p} : Filled(p, e, q) \/ Coming(q, p, "Echo", r)
  BY <1>1, <1>2, <1>3 DEF ArrivesInv, EchoFed
<1>5. p \in Parties /\ Others(p, N) = Honest \ {p} /\ N \in Nat /\ N >= 2
      /\ p \in 0 .. (N - 1)
  BY PartiesFacts, EchoAssumption DEF Faultless, Byzantine
<1>6. GoodEntry(p, "Broadcast", EchoHashes, e)
  BY <1>3 DEF Inv, Local, EchoEntries, GoodEcho
<1>7. e.store \in RoundInputs(p, N, "Broadcast", EchoHashes) /\ Counted(e.store)
  BY <1>4, <1>6, EntryCases DEF GoodEntry
<1>8. PICK j \in Others(p, N) : ~ Filled(p, e, j)
  BY <1>4, <1>5, <1>7, VacantSlot DEF Filled
<1>. QED
  BY <1>4, <1>5, <1>8 DEF Coming

\* Of the parties that are not done, take one in the earliest round.
LEMMA NobodyStuck ==
    Inv /\ OrderInv /\ FaultlessInv /\ ArrivesInv => SomeoneCanGoOn
<1> SUFFICES ASSUME Inv, OrderInv, FaultlessInv, ArrivesInv, Faultless,
                    \E p \in Honest : pc[p] # "done",
                    \A p \in Honest : pc[p] \notin {"idle", "sent", "sendEcho"}
             PROVE  \E m \in net : pc[m.to] \in {"main", "echo"}
  BY DEF SomeoneCanGoOn
<1>1. ASSUME NEW p \in Honest
      PROVE  /\ pc[p] \in {"main", "echo", "done"} /\ rnd[p] \in Nat
             /\ pc[p] = "done" => rnd[p] = R
             /\ pc[p] # "done" => rnd[p] < R
             /\ R \in Nat
  BY EchoAssumption
     DEF Inv, Local, Where, Running, FaultlessInv, Unfailed, OrderInv
<1>2. PICK p \in Honest :
        /\ pc[p] # "done"
        /\ \A q \in Honest : pc[q] # "done" => rnd[p] <= rnd[q]
  <2> DEFINE T == {rnd[q] : q \in {x \in Honest : pc[x] # "done"}}
  <2>1. T \in SUBSET Nat /\ T # {}
    BY <1>1
  <2>2. PICK x \in T : \A y \in T : x <= y
    BY <2>1, LeastRound
  <2>. QED
    BY <2>2
<1>3. \A q \in Honest : rnd[p] <= rnd[q]
  BY <1>1, <1>2
<1>4. CASE \E q \in Honest : pc[q] = "main" /\ rnd[q] = rnd[p]
  <2>1. PICK q \in Honest : pc[q] = "main" /\ rnd[q] = rnd[p]
    BY <1>4
  <2>2. \A s \in Honest \ {q} : MainSent(s, rnd[q])
    BY <1>1, <1>3, <2>1 DEF MainSent
  <2>. QED
    BY <2>1, <2>2, MainComes
<1>5. CASE \A q \in Honest : rnd[q] = rnd[p] => pc[q] # "main"
  <2>1. pc[p] = "echo"
    BY <1>1, <1>2, <1>5
  <2>2. \A s \in Honest \ {p} : EchoSent(s, rnd[p])
    <3>1. ASSUME NEW s \in Honest PROVE rnd[p] < rnd[s] \/ pc[s] = "echo"
      BY <1>1, <1>2, <1>3, <1>5
    <3>. QED
      BY <1>1, <1>3, <3>1 DEF EchoSent
  <2>. QED
    BY <2>1, <2>2, EchoComes
<1>. QED
  BY <1>4, <1>5

\* Echo broadcast does not deadlock: if everybody is honest and careful, sends
\* succeed and nothing is duplicated, then in a protocol of broadcasts, as long
\* as not all are done, some party can send, or some party that awaits a round
\* has a message on its way.  With its fairness this is what makes all of them
\* complete their rounds (EveryoneFinishes).
THEOREM NeverStuckCorrect ==
    ASSUME StoresExpectBroadcasts
    PROVE  Spec => []SomeoneCanGoOn
<1>1. CASE Faultless
  <2>1. Careful
    BY <1>1 DEF Faultless, Careful
  <2>2. Inv /\ OrderInv /\ [Next]_vars => OrderInv'
    BY <2>1, OrderStep
  <2>3. Inv /\ Inv' /\ FaultlessInv /\ [Next]_vars => FaultlessInv'
    BY <1>1, FaultlessStep
  <2>4. Inv /\ FaultlessInv /\ ArrivesInv /\ [Next]_vars => ArrivesInv'
    BY <1>1, ArrivesStep
  <2>. QED
    BY <2>2, <2>3, <2>4, OrderInit, FaultlessInit, ArrivesInit, InvCorrect,
       NobodyStuck, PTL DEF Spec
<1>2. CASE ~ Faultless
  <2>1. SomeoneCanGoOn
    BY <1>2 DEF SomeoneCanGoOn
  <2>. QED
    BY <2>1, PTL
<1>. QED
  BY <1>1, <1>2
=============================================================================
