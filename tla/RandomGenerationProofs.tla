----------------------- MODULE RandomGenerationProofs -----------------------
(***************************************************************************)
(* The random generation example over the echo broadcast, for any number   *)
(* of parties of which any are dishonest, whatever they commit to, open    *)
(* and echo: the randomness is the same for all who end with Ok, nobody    *)
(* honest is blamed, and it is fixed before anything of it is opened.      *)
(***************************************************************************)
EXTENDS RandomGeneration, EchoCarefulProofs

\* What an honest party has to send in a round.
Own(p, r) == IF r = 0 THEN Digest(Rand[p]) ELSE Rand[p]

\* An honest party sends its own commitment and opening only, and hashes its
\* own commitment with those of the others.
RGInv ==
    /\ \A c \in cast : c.msg = Own(c.sender, c.round)
    /\ \A p \in Honest : MainSent(p, 0) => IsOwn(p, 0, Digest(Rand[p]))

\* The two rounds of the example; the first one is reliable.
LEMMA RGRounds ==
    /\ Careful /\ R = 2 /\ Rounds = {0, 1} /\ Reliable = {0}
    /\ \A p \in Honest : Rand[p] \in Values /\ Digest(Rand[p]) \in Values
<1>1. R = 2 /\ Careful
  BY RandomGenerationAssumption DEF Careful
<1>2. Rounds = {0, 1}
  BY <1>1 DEF Rounds
<1>3. ReadProp(Stores[0]) /\ ~ ReadProp(Stores[1])
  BY RandomGenerationAssumption DEF ReadProp, RequiresReliableBroadcast
<1>. QED
  BY <1>1, <1>2, <1>3, RandomGenerationAssumption DEF Reliable

\* A send of a party, whether it succeeds or not.
Sending(p) == SendOwn(p) \/ SendOwnFails(p)

\* What a party sends in each of them.
LEMMA SendingCases ==
    ASSUME NEW p, Sending(p)
    PROVE  \/ \/ Send(p, 0, "Reliable", Own(p, 0))
              \/ SendFails(p, 0, "Reliable", Own(p, 0))
           \/ \/ Send(p, 1, "All", Own(p, 1))
              \/ SendFails(p, 1, "All", Own(p, 1))
  BY DEF Sending, SendOwn, SendOwnFails, Own

\* The steps of the example are steps of a protocol over WithEchoBroadcast.
LEMMA RGStepIsStep == RGNext => Next
<1> SUFFICES ASSUME RGNext PROVE Next
  OBVIOUS
<1>1. PICK p \in Honest :
        \/ Sending(p)
        \/ Complete(p) \/ SendEcho(p) \/ SendEchoFails(p)
        \/ \E m \in {x \in net : x.to = p} : Receive(p, m)
        \/ \E m \in ByzPackets(p) : ReceiveByz(p, m)
  BY DEF RGNext, Sending
<1>2. CASE Sending(p)
  <2>1. /\ Own(p, 0) \in Values /\ Own(p, 1) \in Values
        /\ 0 \in Rounds /\ 1 \in Rounds
    BY RGRounds DEF Own
  <2>2. "Reliable" \in Destinations /\ "All" \in Destinations
    BY DEF Destinations
  <2>3. \E r \in Rounds, dest \in Destinations, v \in Values :
            Send(p, r, dest, v) \/ SendFails(p, r, dest, v)
    BY <1>2, <2>1, <2>2, SendingCases
  <2>. QED
    BY <2>3 DEF Next
<1>. QED
  BY <1>1, <1>2 DEF Next

\* The example is a protocol over WithEchoBroadcast, so that all that is proved
\* of EchoBroadcast holds for it.
THEOREM RGImplementsProtocol == RGSpec => Spec
  BY RGStepIsStep, PTL DEF RGSpec, Spec

-----------------------------------------------------------------------------
\* RGInv holds at the start.
LEMMA RGInit == Init => RGInv
<1> SUFFICES ASSUME Init PROVE RGInv
  OBVIOUS
<1>1. \A p \in Honest : pc[p] = "idle" /\ rnd[p] = 0
  BY RGRounds DEF Init
<1>. QED
  BY <1>1 DEF Init, RGInv, MainSent

\* A party sends.
LEMMA SendingKeeps ==
    ASSUME Inv, RGInv, NEW p \in Honest, NEW r \in {0, 1},
           NEW dest, dest = IF r = 0 THEN "Reliable" ELSE "All",
           \/ Send(p, r, dest, Own(p, r))
           \/ SendFails(p, r, dest, Own(p, r))
    PROVE  RGInv'
<1>1. PICK v : v = Own(p, r)
  OBVIOUS
<1>2. PICK some : Hand(p, r, dest, v, some)
  BY <1>1 DEF Send, SendFails
<1>3. /\ pc[p] = "idle" /\ r = rnd[p] /\ OnSendError(p, r, dest) = "none"
  BY RGRounds DEF Send, SendFails, MaySend, Careful
<1>4. Shapes /\ slots[p] \subseteq {0}
  BY RGRounds DEF Inv, Local, Bookkeeping
<1>5. r = 0 => r \in slots[p]
  BY <1>3 DEF OnSendError
<1>6. /\ UNCHANGED <<rnd, check>>
      /\ cast' = cast \/ cast' = cast \cup {[sender |-> p, round |-> r, msg |-> v]}
      /\ sent' = IF r = 0 THEN [sent EXCEPT ![p] = With(@, r, v)] ELSE sent
  BY <1>2, <1>4, <1>5 DEF Hand
<1>7. \A c \in cast' : c.msg = Own(c.sender, c.round)
  BY <1>1, <1>6 DEF RGInv
<1>8. ASSUME NEW q \in Honest, MainSent(q, 0)'
      PROVE  IsOwn(q, 0, Digest(Rand[q]))'
  <2>1. CASE q = p /\ r = 0
    <3>1. 0 \in DOMAIN sent'[p] /\ sent'[p][0] = Digest(Rand[p])
      BY <1>1, <1>4, <1>6, <2>1 DEF Shapes, With, Own
    <3>. QED
      BY <2>1, <3>1 DEF IsOwn
  <2>2. CASE q # p \/ r = 1
    <3>1. sent'[q] = sent[q] /\ check'[q] = check[q]
      BY <1>4, <1>6, <2>2 DEF Shapes
    <3>2. MainSent(q, 0)
      <4>1. CASE q = p
        BY <1>3, <2>2, <4>1 DEF MainSent
      <4>2. CASE q # p
        <5>1. pc'[q] = pc[q] /\ rnd'[q] = rnd[q]
          BY <1>4, <1>6, <4>2 DEF Send, SendFails, Shapes
        <5>. QED
          BY <1>8, <5>1 DEF MainSent
      <4>. QED
        BY <4>1, <4>2
    <3>. QED
      BY <3>1, <3>2 DEF RGInv, IsOwn
  <2>. QED
    BY <2>1, <2>2
<1>. QED
  BY <1>7, <1>8 DEF RGInv

\* Any other step of a party that has sent its commitment.
LEMMA OtherStepKeeps ==
    ASSUME Inv, RGInv, NEW p \in Honest, pc[p] # "idle", Progressed(p),
           UNCHANGED cast
    PROVE  RGInv'
<1>1. rnd[p] \in Nat
  BY EchoAssumption DEF Inv, Local, Where
<1>2. IsOwn(p, 0, Digest(Rand[p]))'
  <2>1. MainSent(p, 0)
    BY <1>1 DEF MainSent
  <2>. QED
    BY <2>1 DEF RGInv, Progressed, ChecksStay
<1>3. ASSUME NEW q \in Honest \ {p}, MainSent(q, 0)'
      PROVE  IsOwn(q, 0, Digest(Rand[q]))'
  <2>1. /\ pc'[q] = pc[q] /\ rnd'[q] = rnd[q] /\ sent'[q] = sent[q]
        /\ check'[q] = check[q]
    BY DEF Progressed, OthersKeep
  <2>. QED
    BY <1>3, <2>1 DEF RGInv, MainSent, IsOwn
<1>. QED
  BY <1>2, <1>3 DEF RGInv

\* Every step of the example keeps RGInv.
LEMMA RGStep == Inv /\ RGInv /\ [RGNext]_vars => RGInv'
<1> SUFFICES ASSUME Inv, RGInv, [RGNext]_vars PROVE RGInv'
  OBVIOUS
<1>1. CASE UNCHANGED vars
  BY <1>1 DEF vars, RGInv, MainSent, IsOwn
<1>2. CASE RGNext
  <2>1. PICK p \in Honest :
          \/ Sending(p)
          \/ Complete(p) \/ SendEcho(p) \/ SendEchoFails(p)
          \/ \E m \in {x \in net : x.to = p} : Receive(p, m)
          \/ \E m \in ByzPackets(p) : ReceiveByz(p, m)
    BY <1>2 DEF RGNext, Sending
  <2>2. CASE Sending(p)
    BY <2>2, SendingCases, SendingKeeps
  <2>3. CASE Complete(p)
    <3>1. pc[p] # "idle" /\ UNCHANGED cast
      BY <2>3, RGRounds DEF Complete, Careful
    <3>. QED
      BY <2>3, <3>1, CompleteStep, OtherStepKeeps
  <2>4. CASE SendEcho(p) \/ SendEchoFails(p)
    <3>1. pc[p] # "idle" /\ UNCHANGED cast
      BY <2>4 DEF SendEcho, SendEchoFails
    <3>. QED
      BY <2>4, <3>1, SendEchoStep, OtherStepKeeps
  <2>5. ASSUME NEW m, \/ m \in net /\ Receive(p, m)
                      \/ m \in ByzPackets(p) /\ ReceiveByz(p, m)
        PROVE  RGInv'
    <3>1. pc[p] \in {"main", "echo"} /\ Handle(p, m) /\ UNCHANGED cast
      BY <2>5 DEF Receive, ReceiveByz
    <3>2. Comes(m)
      BY <2>5, NetComes, ByzComes
    <3>. QED
      BY <3>1, <3>2, HandleStep, OtherStepKeeps
  <2>. QED
    BY <2>1, <2>2, <2>3, <2>4, <2>5
<1>. QED
  BY <1>1, <1>2

\* The invariants of the echo broadcast and of the example hold together.
RGIndInv == Inv /\ OrderInv /\ RGInv

\* The example runs over echo broadcast, whose invariants it inherits.
LEMMA RGInvariant == RGSpec => []RGIndInv
<1>1. Init => RGIndInv
  BY InvInit, OrderInit, RGInit DEF RGIndInv
<1>2. RGIndInv /\ [RGNext]_vars => RGIndInv'
  <2> SUFFICES ASSUME RGIndInv, [RGNext]_vars PROVE RGIndInv'
    OBVIOUS
  <2>1. [Next]_vars
    BY RGStepIsStep
  <2>2. Inv' /\ OrderInv'
    BY <2>1, RGRounds, InvStep, OrderStep DEF RGIndInv
  <2>. QED
    BY <2>2, RGStep DEF RGIndInv
<1>. QED
  BY <1>1, <1>2, PTL DEF RGSpec

-----------------------------------------------------------------------------
(***************************************************************************)
(* What the protocol computes.                                             *)
(***************************************************************************)
\* What a party has read in both rounds when it has finished.
LEMMA Outcome ==
    ASSUME RGIndInv, NEW p \in Honest, Finished(p)
    PROVE  /\ p \in Parties /\ MainSent(p, 0)
           /\ 0 \in DOMAIN exposed[p] /\ 1 \in DOMAIN exposed[p]
           /\ \A k \in Slots(N) :
                /\ Commitments(p)[k].party = PartyOf(p, k)
                /\ Commitments(p)[k].msg = exposed[p][0].messages[k]
                /\ Openings(p)[k].msg = exposed[p][1].messages[k]
<1>1. p \in Parties
  BY EchoAssumption
<1>2. rnd[p] = 2
  BY RGRounds DEF RGIndInv, OrderInv, Finished
<1>3. 0 \in DOMAIN exposed[p] /\ 1 \in DOMAIN exposed[p] /\ MainSent(p, 0)
  BY <1>2, RGRounds DEF RGIndInv, OrderInv, MainSent
<1>4. exposed[p][0] \in Outputs(p, Values) /\ exposed[p][1] \in Outputs(p, Values)
  BY <1>3 DEF RGIndInv, Inv, Local, GoodExposed
<1>5. ASSUME NEW out \in Outputs(p, Values), NEW k \in Slots(N)
      PROVE  /\ IterIndexed(out)[k].party = PartyOf(p, k)
             /\ IterIndexed(out)[k].msg = out.messages[k]
  BY DEF Outputs, IterIndexed
<1>. QED
  BY <1>1, <1>3, <1>4, <1>5 DEF Commitments, Openings

\* What honest parties have sent to p.
LEMMA HonestSent ==
    ASSUME RGIndInv, NEW p \in Honest, NEW r \in DOMAIN exposed[p],
           NEW h \in Honest \ {p}
    PROVE  exposed[p][r].messages[SlotOf(p, h)] = Own(h, r)
<1>1. IsCast(h, r, exposed[p][r].messages[SlotOf(p, h)])
  BY DEF RGIndInv, OrderInv, Quotes
<1>. QED
  BY <1>1 DEF IsCast, RGIndInv, RGInv

\* A party that ran the protocol honestly is blamed by nobody, whatever the
\* dishonest parties have committed to and opened: its opening and its
\* commitment are read from the same slot.
THEOREM NoHonestBlameCorrect == RGSpec => []NoHonestBlame
<1>1. ASSUME RGIndInv PROVE NoHonestBlame
  <2> SUFFICES ASSUME NEW p \in Honest, Finished(p),
                      NEW h \in Honest, h \in GuiltyParties(p)
               PROVE  FALSE
    BY DEF NoHonestBlame
  <2>1. PICK k \in Slots(N) :
            /\ h = Commitments(p)[k].party
            /\ Commitments(p)[k].msg # Digest(Openings(p)[k].msg)
    BY DEF GuiltyParties
  <2>2. /\ p \in Parties
        /\ 0 \in DOMAIN exposed[p] /\ 1 \in DOMAIN exposed[p]
        /\ h = PartyOf(p, k)
        /\ exposed[p][0].messages[k] # Digest(exposed[p][1].messages[k])
    BY <1>1, <2>1, Outcome
  <2>3. h # p /\ SlotOf(p, h) = k
    BY <2>1, <2>2, PartiesFacts, SlotsAndParties
  <2>4. /\ exposed[p][0].messages[k] = Digest(Rand[h])
        /\ exposed[p][1].messages[k] = Rand[h]
    BY <1>1, <2>2, <2>3, HonestSent DEF Own
  <2>. QED
    BY <2>2, <2>4
<1>. QED
  BY <1>1, RGInvariant, PTL

\* Who ends with Ok adds up what the hashed commitments commit to.
LEMMA Committed ==
    ASSUME RGIndInv, NEW p \in Honest, Succeeds(p), NEW s \in Parties
    PROVE  /\ 0 \in DOMAIN check[p] /\ 0 \in DOMAIN exposed[p]
           /\ Digest(Contributions(p)[s]) = check[p][0].hash.msgs[s]
<1>1. /\ p \in Parties /\ MainSent(p, 0) /\ 0 \in DOMAIN exposed[p]
      /\ \A k \in Slots(N) :
           /\ Commitments(p)[k].party = PartyOf(p, k)
           /\ Commitments(p)[k].msg = exposed[p][0].messages[k]
  BY Outcome DEF Succeeds
<1>2. 0 \in DOMAIN check[p] /\ exposed[p][0] = check[p][0].out
  BY <1>1, RGRounds DEF RGIndInv, Inv, Local, GoodExposed
<1>3. /\ GoodCheck(p, 0, check[p][0]) /\ DOMAIN sent[p] \subseteq slots[p]
      /\ slots[p] = Reliable \ DOMAIN check[p]
  BY <1>2 DEF RGIndInv, Inv, Local, Bookkeeping
<1>4. CASE s = p
  <2>1. check[p][0].hash.msgs[p] = Digest(Rand[p])
    BY <1>1, <1>2, <1>3 DEF RGIndInv, RGInv, IsOwn
  <2>2. Contributions(p)[p] = Rand[p]
    BY <1>1 DEF Contributions
  <2>. QED
    BY <1>1, <1>2, <1>4, <2>1, <2>2
<1>5. CASE s # p
  <2> DEFINE k == SlotOf(p, s)
  <2>1. s \in Others(p, N) /\ k \in Slots(N)
    BY <1>1, <1>5, PartiesFacts, SlotsAndParties
  <2>2. Contributions(p)[s] = Openings(p)[k].msg
    BY <1>5 DEF Contributions
  <2>3. Commitments(p)[k].msg = Digest(Openings(p)[k].msg)
    BY <2>1 DEF Succeeds, GuiltyParties
  <2>4. check[p][0].hash.msgs[s] = exposed[p][0].messages[k]
    BY <1>2, <1>3, <2>1 DEF GoodCheck
  <2> HIDE DEF k
  <2>. QED
    BY <1>1, <1>2, <2>1, <2>2, <2>3, <2>4
<1>. QED
  BY <1>4, <1>5

\* Parties that end with Ok have the same randomness: the hashes that the echo
\* broadcast has compared fix the commitments, and the commitments the
\* openings.
THEOREM SameOutputCorrect == RGSpec => []SameOutput
<1>1. ASSUME RGIndInv PROVE SameOutput
  <2> SUFFICES ASSUME NEW p \in Honest, NEW q \in Honest,
                      Succeeds(p), Succeeds(q)
               PROVE  OutputOf(p) = OutputOf(q)
    BY DEF SameOutput
  <2>1. ASSUME NEW s \in Parties
        PROVE  Contributions(p)[s] = Contributions(q)[s]
    <3>1. /\ 0 \in DOMAIN exposed[p]
          /\ Digest(Contributions(p)[s]) = check[p][0].hash.msgs[s]
          /\ Digest(Contributions(q)[s]) = check[q][0].hash.msgs[s]
      BY <1>1, Committed
    <3>2. check[q][0].hash = check[p][0].hash
      BY <1>1, <3>1, RGRounds DEF RGIndInv, Inv, HashesAgree
    <3>3. Digest(Contributions(p)[s]) = Digest(Contributions(q)[s])
      BY <3>1, <3>2
    <3>4. \A v, w : Digest(v) = Digest(w) => v = w
      BY DEF Digest
    <3>. QED
      BY <3>3, <3>4
  <2>2. \A v \in Values : {s \in Parties : Contributions(p)[s] = v}
                            = {s \in Parties : Contributions(q)[s] = v}
    BY <2>1
  <2>. QED
    BY <2>2 DEF OutputOf
<1>. QED
  BY <1>1, RGInvariant, PTL

\* When an honest party opens its randomness, the contributions of all,
\* dishonest parties included, are fixed: it sends its opening only after
\* complete has compared the hashes of the commitments.
THEOREM FixedBeforeOpenedCorrect == RGSpec => []FixedBeforeOpened
<1>1. ASSUME RGIndInv PROVE FixedBeforeOpened
  <2> SUFFICES ASSUME NEW p \in Honest,
                      [sender |-> p, round |-> 1, msg |-> Rand[p]] \in cast,
                      NEW q \in Honest
               PROVE  /\ 0 \in DOMAIN check[q]
                      /\ check[q][0].hash = check[p][0].hash
                      /\ Succeeds(q) => \A s \in Parties :
                           Digest(Contributions(q)[s]) = check[p][0].hash.msgs[s]
    BY DEF FixedBeforeOpened
  <2>1. MainSent(p, 1) /\ rnd[p] \in Nat
    BY <1>1, EchoAssumption DEF RGIndInv, OrderInv, Inv, Local, Where
  <2>2. 0 \in DOMAIN exposed[p]
    BY <1>1, <2>1, RGRounds DEF RGIndInv, OrderInv, MainSent
  <2>3. 0 \in DOMAIN check[q] /\ check[q][0].hash = check[p][0].hash
    BY <1>1, <2>2, RGRounds DEF RGIndInv, Inv, HashesAgree
  <2>. QED
    BY <1>1, <2>3, Committed
<1>. QED
  BY <1>1, RGInvariant, PTL

\* The first round of the example is a reliable broadcast.
THEOREM RGBroadcastImplemented == RGSpec => ImplementsReliableBroadcast
  BY RGRounds, RGImplementsProtocol, BroadcastImplemented, PTL


-----------------------------------------------------------------------------
\* A run of the example among honest parties over a faultless network: no party
\* fails, who ends has succeeded with the randomness of the others, and until
\* all have ended some party can go on.
HonestRun ==
    /\ Faultless => \A p \in Honest : /\ pc[p] # "failed"
                                      /\ Finished(p) => Succeeds(p)
    /\ SomeoneCanGoOn
    /\ SameOutput

\* Among honest parties the example neither fails nor gets stuck nor blames
\* anybody, whatever order the network delivers in.
THEOREM HonestRunCorrect == RGSpec => []HonestRun
<1>1. StoresExpectBroadcasts
  BY RGRounds, RandomGenerationAssumption DEF StoresExpectBroadcasts
<1>2. ASSUME RGIndInv, HonestNeverFail, NoHonestBlame, SomeoneCanGoOn,
             SameOutput
      PROVE  HonestRun
  <2>1. ASSUME Faultless, NEW p \in Honest
        PROVE  /\ pc[p] # "failed"
               /\ Finished(p) => Succeeds(p)
    <3>1. pc[p] # "failed"
      BY <1>2, <2>1 DEF HonestNeverFail, Faultless
    <3>2. Honest = Parties
      BY <2>1, EchoAssumption DEF Faultless, Byzantine
    <3>3. ASSUME Finished(p) PROVE GuiltyParties(p) \subseteq Parties
      <4>1. \A k \in Slots(N) : PartyOf(p, k) \in Parties
        BY <3>2, PartiesFacts, SlotsAndParties
      <4>. QED
        BY <1>2, <3>3, <4>1, Outcome DEF GuiltyParties
    <3>. QED
      BY <1>2, <3>1, <3>2, <3>3 DEF NoHonestBlame, Succeeds
  <2>. QED
    BY <1>2, <2>1 DEF HonestRun
<1>. QED
  BY <1>1, <1>2, RGInvariant, RGImplementsProtocol, HonestNeverFailCorrect,
     NeverStuckCorrect, NoHonestBlameCorrect, SameOutputCorrect, PTL
=============================================================================
