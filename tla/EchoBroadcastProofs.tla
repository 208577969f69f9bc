------------------------ MODULE EchoBroadcastProofs ------------------------
(***************************************************************************)
(* Types, agreement and the meaning of a mismatch of hashes, for any       *)
(* number of parties and rounds, any set of dishonest parties and whatever *)
(* they send, with failing sends, duplicated messages and careless         *)
(* protocols.                                                              *)
(***************************************************************************)
EXTENDS EchoBroadcast, RoundInputProofs

-----------------------------------------------------------------------------
(***************************************************************************)
(* The inductive invariant.                                                *)
(***************************************************************************)
\* The messages a round has collected so far, by slot.
Held(e) ==
    IF e.st = "Ongoing" THEN e.store.messages
    ELSE IF e.st = "Collected" THEN e.out.messages
    ELSE NoMessages

Copies == UNION {[S -> Values] : S \in SUBSET Parties}

\* What may be in an echo.
EchoHashes == Hashes \cup {e.hash : e \in ByzEchoes}

\* An entry is what it should be, and its store counts the vacant slots.
GoodEntry(p, type, M, e) ==
    /\ e \in Entries(p, type, M)
    /\ e.st = "Ongoing" => Counted(e.store)

\* The messages kept for the hash are those the store has.
CopiesAgree(p, e) ==
    e.st \in {"Ongoing", "Collected"} =>
        \A s \in Others(p, N) :
            /\ s \in DOMAIN e.received <=> SlotOf(p, s) \in DOMAIN Held(e)
            /\ s \in DOMAIN e.received =>
                 e.received[s] = Held(e)[SlotOf(p, s)]

GoodMain(p, r, e) ==
    /\ GoodEntry(p, Stores[r].type, Values, e)
    /\ r \in Reliable => CopiesAgree(p, e)

GoodEcho(p, e) == GoodEntry(p, "Broadcast", EchoHashes, e)

Running == {"idle", "sent", "main", "sendEcho", "echo"}

\* The variables are functions on the honest parties.
Shapes ==
    /\ pc = [p \in Honest |-> pc[p]] /\ rnd = [p \in Honest |-> rnd[p]]
    /\ DOMAIN main = Honest /\ DOMAIN echo = Honest
    /\ DOMAIN sent = Honest /\ DOMAIN slots = Honest
    /\ DOMAIN check = Honest /\ DOMAIN exposed = Honest
    /\ DOMAIN error = Honest

\* Where a party is.
Where(p) ==
    /\ pc[p] \in Running \cup {"done", "failed"}
    /\ rnd[p] \in 0 .. R
    /\ pc[p] \in Running => rnd[p] < R
    /\ pc[p] \in {"sendEcho", "echo"} => rnd[p] \in DOMAIN check[p]

MainEntries(p, es) ==
    /\ DOMAIN es = Rounds
    /\ \A r \in Rounds : GoodMain(p, r, es[r])

EchoEntries(p, es) ==
    /\ DOMAIN es = Reliable
    /\ \A r \in Reliable : GoodEcho(p, es[r])

\* A check of a round: the output that waits for the echoes, and its hash.
GoodCheck(p, r, c) ==
    /\ c \in [out : Outputs(p, Values), hash : Hashes]
    /\ c.hash.round = r
    /\ DOMAIN c.hash.msgs \ {p} = Others(p, N)
    /\ \A s \in Others(p, N) : c.hash.msgs[s] = c.out.messages[SlotOf(p, s)]

\* The main part of a round is registered, then collected and gone, once.
Bookkeeping(p) ==
    /\ DOMAIN check[p] \subseteq Reliable
    /\ \A r \in DOMAIN check[p] : GoodCheck(p, r, check[p][r])
                                  /\ main[p][r] = Gone
    /\ slots[p] = Reliable \ DOMAIN check[p]
    /\ DOMAIN sent[p] \subseteq slots[p]
    /\ \A r \in DOMAIN sent[p] : sent[p][r] \in Values

GoodExposed(p) ==
    /\ DOMAIN exposed[p] \subseteq Rounds
    /\ \A r \in DOMAIN exposed[p] : exposed[p][r] \in Outputs(p, Values)
    /\ \A r \in DOMAIN exposed[p] \cap Reliable :
         r \in DOMAIN check[p] /\ exposed[p][r] = check[p][r].out

Local(p) ==
    /\ Where(p)
    /\ MainEntries(p, main[p])
    /\ EchoEntries(p, echo[p])
    /\ Bookkeeping(p)
    /\ GoodExposed(p)

\* An honest party casts a message under its name only.
IsCast(q, r, v) == [sender |-> q, round |-> r, msg |-> v] \in cast

\* An honest party sends the hash of its check only.
IsEchoOf(q, r, h) == r \in DOMAIN check[q] /\ h = check[q][r].hash

\* Messages of honest parties on their way.
GoodPacket(m) ==
    /\ m.from \in Honest /\ m.to \in Honest
    /\ m.kind \in {"Main", "Echo"}
    /\ m.kind = "Main" => m.round \in Rounds /\ m.msg \in Values
                          /\ IsCast(m.from, m.round, m.msg)
    /\ m.kind = "Echo" => IsEchoOf(m.from, m.round, m.msg)

\* What is held for an honest party was sent by it.
MainAuthentic(p, r, e) ==
    \A q \in Honest \ {p} :
        SlotOf(p, q) \in DOMAIN Held(e) => IsCast(q, r, Held(e)[SlotOf(p, q)])

EchoAuthentic(p, r, e) ==
    \A q \in Honest \ {p} :
        SlotOf(p, q) \in DOMAIN Held(e)
            => IsEchoOf(q, r, Held(e)[SlotOf(p, q)])

CheckAuthentic(p, r, c) ==
    \A q \in Honest \ {p} : IsCast(q, r, c.out.messages[SlotOf(p, q)])

Authentic ==
    /\ \A m \in net : GoodPacket(m)
    /\ cast \subseteq [sender : Honest, round : Rounds, msg : Values]
    /\ late \subseteq Honest
    /\ \A p \in Honest :
         /\ \A r \in Rounds : MainAuthentic(p, r, main[p][r])
         /\ \A r \in Reliable : EchoAuthentic(p, r, echo[p][r])
         /\ \A r \in DOMAIN check[p] : CheckAuthentic(p, r, check[p][r])

\* A party that was given the messages of a reliable round has the hash of
\* every honest party, and they are the same.
HashesAgree ==
    \A p, q \in Honest : \A r \in DOMAIN exposed[p] \cap Reliable :
        r \in DOMAIN check[q] /\ check[q][r].hash = check[p][r].hash

\* What a party has sent in a reliable round is what it hashes itself.
IsOwn(q, r, v) ==
    \/ r \in DOMAIN sent[q] /\ sent[q][r] = v
    \/ /\ r \in DOMAIN check[q]
       /\ q \in DOMAIN check[q][r].hash.msgs
       /\ check[q][r].hash.msgs[q] = v

OwnIsHashed ==
    \A c \in cast :
        c.round \in Reliable /\ c.sender \notin late
            => IsOwn(c.sender, c.round, c.msg)

Inv ==
    /\ Shapes
    /\ \A p \in Honest : Local(p)
    /\ Authentic
    /\ HashesAgree
    /\ OwnIsHashed
    /\ MismatchMeansDishonest

-----------------------------------------------------------------------------
(***************************************************************************)
(* Entries of the router.                                                  *)
(***************************************************************************)
\* Parties, and the ones other than p.
LEMMA PartiesFacts ==
    ASSUME NEW p \in Parties
    PROVE  /\ N \in Nat /\ N >= 2 /\ p \in 0 .. (N - 1) /\ p \in Nat
           /\ Others(p, N) = Parties \ {p}
           /\ Honest \subseteq Parties
           /\ Honest \ {p} \subseteq Others(p, N)
  BY EchoAssumption DEF Parties, Others

\* The kinds of entries have different fields.
LEMMA EntryCases ==
    ASSUME NEW p, NEW type, NEW M, NEW e \in Entries(p, type, M)
    PROVE  /\ e.st \in {"Gone", "Failed", "Ongoing", "Collected"}
           /\ e.st = "Gone" => e = Gone
           /\ e.st = "Failed" => e.err \in RoundErrors
           /\ e.st = "Ongoing" => /\ e.store \in RoundInputs(p, N, type, M)
                                  /\ e.received \in Copies
                                  /\ e = Ongoing(e.store, e.received)
           /\ e.st = "Collected" => /\ e.out \in Outputs(p, M)
                                    /\ e.received \in Copies
  BY DEF Entries, Gone, Copies, Ongoing

\* An entry that was taken holds nothing.
LEMMA GoneIsGood ==
    ASSUME NEW p, NEW type, NEW M
    PROVE  /\ GoodEntry(p, type, M, Gone)
           /\ CopiesAgree(p, Gone)
           /\ DOMAIN Held(Gone) = {}
  BY DEF GoodEntry, Entries, Gone, CopiesAgree, Held, NoMessages

\* An entry that failed holds nothing.
LEMMA FailedIsGood ==
    ASSUME NEW p, NEW type, NEW M, NEW kind \in RoundErrors
    PROVE  /\ GoodEntry(p, type, M, Failed(kind))
           /\ CopiesAgree(p, Failed(kind))
           /\ DOMAIN Held(Failed(kind)) = {}
           /\ Failed(kind).st = "Failed"
  BY DEF GoodEntry, Entries, Failed, CopiesAgree, Held, NoMessages

\* A store becomes the output of its round when it wants no more messages; no
\* message moves.
LEMMA SettledEntry ==
    ASSUME NEW p \in Parties, NEW type, NEW M,
           NEW store \in RoundInputs(p, N, type, M), Counted(store),
           NEW received \in Copies
    PROVE  LET e == Settled(store, received) IN
           /\ GoodEntry(p, type, M, e)
           /\ e.st \in {"Ongoing", "Collected"}
           /\ e.received = received
           /\ Held(e) = store.messages
<1> DEFINE e == Settled(store, received)
<1>1. CASE WantsMore(store)
  <2>1. e = Ongoing(store, received)
    BY <1>1 DEF Settled
  <2>2. e \in Entries(p, type, M) /\ e.st = "Ongoing"
        /\ e.store = store /\ e.received = received
    BY <2>1 DEF Ongoing, Entries, Copies
  <2>. QED
    BY <2>2 DEF GoodEntry, Held
<1>2. CASE ~ WantsMore(store)
  <2>1. /\ store.messages \in [Slots(N) -> M]
        /\ Output(store) = [i |-> p, ids |-> store.ids,
                            messages |-> store.messages]
    BY <1>2, FullStore, PartiesFacts
  <2>2. Output(store) \in Outputs(p, M)
    BY <2>1 DEF RoundInputs, Outputs
  <2>3. e = Collected(Output(store), received)
    BY <1>2 DEF Settled
  <2>4. e \in Entries(p, type, M) /\ e.st = "Collected"
        /\ e.out = Output(store) /\ e.received = received
    BY <2>2, <2>3 DEF Collected, Entries, Copies
  <2>. QED
    BY <2>1, <2>4 DEF GoodEntry, Held
<1>. QED
  BY <1>1, <1>2

\* The errors of a store have the kinds of add_message.
LEMMA ErrorKinds ==
    ASSUME NEW store, NEW m, AddMessageError(store, m) # NoError
    PROVE  AddMessageError(store, m).kind \in RoundErrors
<1> DEFINE slot == SlotOf(store.i, m.sender)
           e1 == MismatchedMessageType(m.id, store.expected, m.type)
           e2 == SenderIndexOutOfRange(m.id, m.sender, store.n)
           e3 == AttemptToOverwriteReceivedMsg(store.ids[slot], m.id, m.sender)
<1>1. /\ e1.kind = "MismatchedMessageType"
      /\ e2.kind = "SenderIndexOutOfRange"
      /\ e3.kind = "AttemptToOverwriteReceivedMsg"
  BY DEF MismatchedMessageType, SenderIndexOutOfRange,
         AttemptToOverwriteReceivedMsg
<1>2. \/ AddMessageError(store, m) = e1
      \/ AddMessageError(store, m) = e2
      \/ AddMessageError(store, m) = e3
  BY DEF AddMessageError
<1> HIDE DEF e1, e2, e3
<1>. QED
  BY <1>1, <1>2 DEF RoundErrors

\* A message that an entry holds afterwards is one it held before, or the
\* message of the sender, in the slot of the sender.
Gains(p, e, new, m) ==
    \A q \in Others(p, N) :
        SlotOf(p, q) \in DOMAIN Held(new) =>
            \/ /\ SlotOf(p, q) \in DOMAIN Held(e)
               /\ Held(new)[SlotOf(p, q)] = Held(e)[SlotOf(p, q)]
            \/ q = m.from /\ Held(new)[SlotOf(p, q)] = m.msg

\* The store of an entry takes a message.
LEMMA StoreTakes ==
    ASSUME NEW p \in Parties, NEW type, NEW M,
           NEW store \in RoundInputs(p, N, type, M), Counted(store),
           NEW from \in Parties,
           NEW in, in.id = 0, in.sender = from, in.msg \in M,
           AddMessageError(store, in) = NoError
    PROVE  LET new == AddMessage(store, in) IN
           /\ new \in RoundInputs(p, N, type, M)
           /\ Counted(new)
           /\ \A q \in Others(p, N) :
                /\ SlotOf(p, q) \in DOMAIN new.messages
                     <=> SlotOf(p, q) \in DOMAIN store.messages \/ q = from
                /\ SlotOf(p, q) \in DOMAIN store.messages =>
                     /\ q # from
                     /\ new.messages[SlotOf(p, q)]
                          = store.messages[SlotOf(p, q)]
                /\ q = from => new.messages[SlotOf(p, q)] = in.msg
<1>0. from \in Nat /\ p \in Nat
  BY PartiesFacts
<1>1. CASE from = p
  <2>1. AddMessage(store, in) = store
    BY <1>1 DEF AddMessage, RoundInputs
  <2>. QED
    BY <2>1, <1>1 DEF Others
<1>2. CASE from # p
  <2> DEFINE new == AddMessage(store, in)
             slot == SlotOf(p, from)
  <2>1. /\ new \in RoundInputs(p, N, type, M)
        /\ Counted(new)
        /\ slot \in Slots(N) \ DOMAIN store.messages
        /\ DOMAIN new.messages = DOMAIN store.messages \cup {slot}
        /\ new.messages[slot] = in.msg
        /\ \A s \in DOMAIN store.messages :
              new.messages[s] = store.messages[s]
    <3> HIDE DEF new
    <3>1. PICK m : m = in
      OBVIOUS
    <3>. QED
      BY <1>0, <1>2, <3>1, AddedMessage, PartiesFacts DEF new
  <2>2. from \in Others(p, N)
    BY <1>2, PartiesFacts
  <2>3. \A q \in Others(p, N) : SlotOf(p, q) = slot => q = from
    BY <2>2, SlotsAndParties, PartiesFacts
  <2> HIDE DEF new
  <2>. QED
    BY <2>1, <2>2, <2>3 DEF new
<1>. QED
  BY <1>1, <1>2

\* The message as the store sees it.
LEMMA IncomingFields ==
    ASSUME NEW m
    PROVE  /\ AsIncoming(m).id = 0 /\ AsIncoming(m).sender = m.from
           /\ AsIncoming(m).msg = m.msg /\ AsIncoming(m).type = m.type
           /\ LET in == [AsIncoming(m) EXCEPT !.type = "ReliableBroadcast"]
              IN  /\ in.id = 0 /\ in.sender = m.from
                  /\ in.msg = m.msg /\ in.type = "ReliableBroadcast"
  BY DEF AsIncoming

\* A round without reliability check, or of echoes, takes a message.
LEMMA PlainTakes ==
    ASSUME NEW p \in Parties, NEW type, NEW M,
           NEW e, GoodEntry(p, type, M, e), e.st = "Ongoing",
           NEW m, m.from \in Parties, m.msg \in M
    PROVE  /\ GoodEntry(p, type, M, AddPlain(e, m))
           /\ Gains(p, e, AddPlain(e, m), m)
<1> DEFINE in == AsIncoming(m)
           err == AddMessageError(e.store, in)
           store == AddMessage(e.store, in)
<1>1. /\ e.store \in RoundInputs(p, N, type, M) /\ Counted(e.store)
      /\ e.received \in Copies
      /\ Held(e) = e.store.messages
  BY EntryCases DEF GoodEntry, Held
<1>2. in.id = 0 /\ in.sender = m.from /\ in.msg \in M /\ in.msg = m.msg
  BY IncomingFields
<1>3. CASE err # NoError
  <2>1. AddPlain(e, m) = Failed(err.kind)
    BY <1>3 DEF AddPlain
  <2> HIDE DEF err, in
  <2>2. err.kind \in RoundErrors
    BY <1>3, ErrorKinds DEF err
  <2>. QED
    BY <2>1, <2>2, FailedIsGood DEF Gains
<1>4. CASE err = NoError
  <2>1. AddPlain(e, m) = Settled(store, e.received)
    BY <1>4 DEF AddPlain
  <2> HIDE DEF in
  <2>2. /\ store \in RoundInputs(p, N, type, M)
        /\ Counted(store)
        /\ \A q \in Others(p, N) :
             /\ SlotOf(p, q) \in DOMAIN store.messages
                  <=> SlotOf(p, q) \in DOMAIN e.store.messages \/ q = m.from
             /\ SlotOf(p, q) \in DOMAIN e.store.messages =>
                  /\ q # m.from
                  /\ store.messages[SlotOf(p, q)]
                       = e.store.messages[SlotOf(p, q)]
             /\ q = m.from => store.messages[SlotOf(p, q)] = in.msg
    BY <1>1, <1>2, <1>4, StoreTakes
  <2> HIDE DEF store
  <2>3. /\ GoodEntry(p, type, M, AddPlain(e, m))
        /\ Held(AddPlain(e, m)) = store.messages
    BY <1>1, <2>1, <2>2, SettledEntry
  <2>. QED
    BY <1>1, <1>2, <2>2, <2>3 DEF Gains
<1>. QED
  BY <1>3, <1>4

\* MainRound::add_message: the store and the copy for the hash take the
\* message together or not at all.
LEMMA ReliableTakes ==
    ASSUME NEW p \in Parties, NEW type,
           NEW e, GoodEntry(p, type, Values, e), e.st = "Ongoing",
           CopiesAgree(p, e),
           NEW m, m.from \in Parties, m.msg \in Values
    PROVE  /\ GoodEntry(p, type, Values, AddReliable(e, m))
           /\ CopiesAgree(p, AddReliable(e, m))
           /\ Gains(p, e, AddReliable(e, m), m)
<1> DEFINE in == [AsIncoming(m) EXCEPT !.type = "ReliableBroadcast"]
           err == AddMessageError(e.store, in)
           store == AddMessage(e.store, in)
           copy == With(e.received, m.from, m.msg)
           new == AddReliable(e, m)
<1>1. /\ e.store \in RoundInputs(p, N, type, Values) /\ Counted(e.store)
      /\ e.received \in Copies
      /\ Held(e) = e.store.messages
  BY EntryCases DEF GoodEntry, Held
<1>2. in.id = 0 /\ in.sender = m.from /\ in.msg \in Values
      /\ in.msg = m.msg
  BY IncomingFields
<1>3. CASE err # NoError
  <2>1. new = Failed(err.kind)
    BY <1>3 DEF AddReliable
  <2> HIDE DEF err, in, new
  <2>2. err.kind \in RoundErrors
    BY <1>3, ErrorKinds DEF err
  <2>. QED
    BY <2>1, <2>2, FailedIsGood DEF Gains, new
<1>4. CASE err = NoError /\ m.from \in DOMAIN e.received
  <2>1. new = Failed("StoreReceivedTwoMsgsFromSameParty")
    BY <1>4 DEF AddReliable
  <2> HIDE DEF err, in, new
  <2>2. "StoreReceivedTwoMsgsFromSameParty" \in RoundErrors
    BY DEF RoundErrors
  <2>. QED
    BY <2>1, <2>2, FailedIsGood DEF Gains, new
<1>5. CASE err = NoError /\ m.from \notin DOMAIN e.received
  <2>1. new = Settled(store, copy)
    BY <1>5 DEF AddReliable
  <2> HIDE DEF in
  <2>2. /\ store \in RoundInputs(p, N, type, Values)
        /\ Counted(store)
        /\ \A q \in Others(p, N) :
             /\ SlotOf(p, q) \in DOMAIN store.messages
                  <=> SlotOf(p, q) \in DOMAIN e.store.messages \/ q = m.from
             /\ SlotOf(p, q) \in DOMAIN e.store.messages =>
                  /\ q # m.from
                  /\ store.messages[SlotOf(p, q)]
                       = e.store.messages[SlotOf(p, q)]
             /\ q = m.from => store.messages[SlotOf(p, q)] = in.msg
    BY <1>1, <1>2, <1>5, StoreTakes
  <2> HIDE DEF store
  <2>3. /\ DOMAIN copy = DOMAIN e.received \cup {m.from}
        /\ copy[m.from] = m.msg
        /\ \A z \in DOMAIN e.received : z # m.from => copy[z] = e.received[z]
        /\ copy = [z \in DOMAIN copy |-> copy[z]]
    BY DEF With
  <2> HIDE DEF copy
  <2>4. DOMAIN e.received \subseteq Parties
        /\ \A z \in DOMAIN e.received : e.received[z] \in Values
    BY <1>1, PartialFunctions DEF Copies
  <2>5. copy \in Copies
    <3>1. DOMAIN copy \subseteq Parties /\ \A z \in DOMAIN copy : copy[z] \in Values
      BY <2>3, <2>4
    <3>. QED
      BY <2>3, <3>1, PartialFunctions DEF Copies
  <2> HIDE DEF new
  <2>6. /\ GoodEntry(p, type, Values, new)
        /\ new.st \in {"Ongoing", "Collected"}
        /\ new.received = copy
        /\ Held(new) = store.messages
    BY <2>1, <2>2, <2>5, SettledEntry
  <2>7. \A s \in Others(p, N) :
            /\ s \in DOMAIN e.received
                 <=> SlotOf(p, s) \in DOMAIN e.store.messages
            /\ s \in DOMAIN e.received =>
                 e.received[s] = e.store.messages[SlotOf(p, s)]
    BY <1>1 DEF CopiesAgree
  <2>8. CopiesAgree(p, new)
    <3> SUFFICES ASSUME NEW s \in Others(p, N)
                 PROVE  /\ s \in DOMAIN copy
                            <=> SlotOf(p, s) \in DOMAIN store.messages
                        /\ s \in DOMAIN copy =>
                             copy[s] = store.messages[SlotOf(p, s)]
      BY <2>6 DEF CopiesAgree
    <3>. QED
      BY <1>2, <2>2, <2>3, <2>7
  <2>9. Gains(p, e, new, m)
    BY <1>1, <1>2, <2>2, <2>6 DEF Gains
  <2>. QED
    BY <2>6, <2>8, <2>9 DEF new
<1>. QED
  BY <1>3, <1>4, <1>5

-----------------------------------------------------------------------------
(***************************************************************************)
(* Routing a message.                                                      *)
(***************************************************************************)
\* What any message is, of an honest party or not.
Valid(m) ==
    /\ m.from \in Parties
    /\ m.kind \in {"Main", "Echo"}
    /\ m.kind = "Main" => m.round \in Rounds /\ m.msg \in Values
    /\ m.kind = "Echo" => m.round \in 0 .. (U16 - 1) /\ m.msg \in EchoHashes

\* Rounds are numbers whose echo rounds fit in u16.
LEMMA RoundsFacts ==
    /\ R \in Nat /\ Rounds \subseteq Nat /\ Reliable \subseteq Rounds
    /\ \A r \in Rounds : 2 * r + 1 < U16
  BY EchoAssumption DEF Rounds, Reliable

\* The round of an echo wraps around at most once.
LEMMA WrapsOnce ==
    ASSUME NEW u \in Nat, NEW k \in 0 .. (u - 1)
    PROVE  (2 * k + 1) % u = 2 * k + 1 \/ (2 * k + 1) % u = 2 * k + 1 - u
  OBVIOUS

\* An echo that is routed at all goes to the echoes of a reliable round: u16
\* has an even number of values, so that its number stays odd when it wraps
\* around.
LEMMA EchoIndex ==
    ASSUME NEW m, Valid(m), m.kind = "Echo", IsRegistered(RouterRound(m))
    PROVE  (RouterRound(m) - 1) \div 2 \in Reliable
<1> DEFINE x == (2 * m.round + 1) % U16
<1>1. RouterRound(m) = x /\ m.round \in 0 .. (U16 - 1) /\ U16 \in Nat
  BY EchoAssumption DEF RouterRound, Valid
<1>2. PICK h \in Nat : U16 = 2 * h
  <2>1. U16 = 2 * (U16 \div 2) /\ U16 \div 2 \in Nat
    BY EchoAssumption
  <2>. QED
    BY <2>1
<1>3. x = 2 * m.round + 1 \/ x = 2 * m.round + 1 - U16
  BY <1>1, WrapsOnce
<1>4. PICK r \in Rounds : x = 2 * r \/ (r \in Reliable /\ x = 2 * r + 1)
  BY <1>1 DEF IsRegistered
<1> HIDE DEF x
<1>5. r \in Nat
  BY RoundsFacts
<1>6. x = 2 * r + 1 /\ (x - 1) \div 2 = r
  BY <1>1, <1>2, <1>3, <1>4, <1>5
<1>. QED
  BY <1>1, <1>4, <1>5, <1>6

\* The entries of the main rounds after a message: only that of its round has
\* changed, unless it was complete or gone.
LEMMA RoutedMain ==
    ASSUME NEW p \in Parties, NEW STATE es, MainEntries(p, es),
           NEW m, Valid(m)
    PROVE  LET new == RouteMain(es, m) IN
           /\ MainEntries(p, new)
           /\ \A r \in Rounds :
                /\ es[r] = Gone => new[r] = Gone
                /\ \/ new[r] = es[r]
                   \/ /\ m.kind = "Main" /\ m.round = r
                      /\ Gains(p, es[r], new[r], m)
<1> DEFINE new == RouteMain(es, m)
<1>1. CASE ~ (m.kind = "Main" /\ es[m.round].st = "Ongoing")
  <2>1. new = es
    BY <1>1 DEF RouteMain
  <2>. QED
    BY <2>1
<1>2. CASE m.kind = "Main" /\ es[m.round].st = "Ongoing"
  <2> DEFINE e == ProcessMain(es[m.round], m)
  <2>1. new = [es EXCEPT ![m.round] = e]
    BY <1>2 DEF RouteMain
  <2>2. m.round \in Rounds /\ m.msg \in Values /\ m.from \in Parties
    BY <1>2 DEF Valid
  <2>3. GoodMain(p, m.round, es[m.round])
    BY <2>2 DEF MainEntries
  <2>4. GoodMain(p, m.round, e) /\ Gains(p, es[m.round], e, m)
    <3>1. CASE m.round \in Reliable
      BY <1>2, <2>2, <2>3, <3>1, ReliableTakes DEF GoodMain, ProcessMain
    <3>2. CASE m.round \notin Reliable
      BY <1>2, <2>2, <2>3, <3>2, PlainTakes DEF GoodMain, ProcessMain
    <3>. QED
      BY <3>1, <3>2
  <2>5. es[m.round] # Gone
    BY <1>2 DEF Gone
  <2> HIDE DEF e, new
  <2>6. DOMAIN new = Rounds /\ new[m.round] = e
        /\ \A r \in Rounds : r # m.round => new[r] = es[r]
    BY <2>1, <2>2 DEF MainEntries
  <2>7. MainEntries(p, new)
    BY <2>4, <2>6 DEF MainEntries
  <2>. QED
    BY <1>2, <2>4, <2>5, <2>6, <2>7 DEF new
<1>. QED
  BY <1>1, <1>2

\* The entries of the echoes after a message that is routed.
LEMMA RoutedEcho ==
    ASSUME NEW p \in Parties, NEW STATE es, EchoEntries(p, es),
           NEW m, Valid(m), IsRegistered(RouterRound(m))
    PROVE  LET new == RouteEcho(es, m) IN
           /\ EchoEntries(p, new)
           /\ \A r \in Reliable :
                \/ new[r] = es[r]
                \/ DOMAIN Held(new[r]) = {}
                \/ /\ m.kind = "Echo" /\ m.round = r
                   /\ Gains(p, es[r], new[r], m)
<1> DEFINE k == (RouterRound(m) - 1) \div 2
           new == RouteEcho(es, m)
<1>1. CASE ~ (m.kind = "Echo" /\ es[k].st = "Ongoing")
  <2>1. new = es
    BY <1>1 DEF RouteEcho
  <2>. QED
    BY <2>1
<1>2. CASE m.kind = "Echo" /\ es[k].st = "Ongoing"
  <2> DEFINE e == ProcessEcho(es[k], k, m)
  <2>1. new = [es EXCEPT ![k] = e]
    BY <1>2 DEF RouteEcho
  <2>2. k \in Reliable /\ m.msg \in EchoHashes /\ m.from \in Parties
    BY <1>2, EchoIndex DEF Valid
  <2> HIDE DEF k
  <2>3. GoodEcho(p, es[k])
    BY <2>2 DEF EchoEntries
  <2>4. /\ GoodEcho(p, e)
        /\ DOMAIN Held(e) = {} \/ (m.round = k /\ Gains(p, es[k], e, m))
    <3>1. CASE m.round = k
      BY <1>2, <2>2, <2>3, <3>1, PlainTakes DEF GoodEcho, ProcessEcho
    <3>2. CASE m.round # k
      <4>1. e = Failed("MessageFromAnotherRound")
        BY <3>2 DEF ProcessEcho
      <4>2. "MessageFromAnotherRound" \in RoundErrors
        BY DEF RoundErrors
      <4>. QED
        BY <4>1, <4>2, FailedIsGood DEF GoodEcho
    <3>. QED
      BY <3>1, <3>2
  <2> HIDE DEF e, new
  <2>6. DOMAIN new = Reliable /\ new[k] = e
        /\ \A r \in Reliable : r # k => new[r] = es[r]
    BY <2>1, <2>2 DEF EchoEntries
  <2>7. EchoEntries(p, new)
    BY <2>4, <2>6 DEF EchoEntries
  <2>. QED
    BY <1>2, <2>4, <2>6, <2>7 DEF new
<1>. QED
  BY <1>1, <1>2

-----------------------------------------------------------------------------
(***************************************************************************)
(* Hashes.                                                                 *)
(***************************************************************************)
\* What a hash is made of.
LEMMA HashFields ==
    ASSUME NEW h \in Hashes
    PROVE  /\ h = [msgs |-> h.msgs, round |-> h.round]
           /\ h.msgs = [s \in DOMAIN h.msgs |-> h.msgs[s]]
           /\ DOMAIN h.msgs \subseteq Parties
           /\ \A s \in DOMAIN h.msgs : h.msgs[s] \in Values
<1>1. /\ h = [msgs |-> h.msgs, round |-> h.round]
      /\ h.msgs \in UNION {[S -> Values] : S \in SUBSET Parties}
  BY DEF Hashes
<1>. QED
  BY <1>1, PartialFunctions

\* A party has one message of its own in a round.
LEMMA OwnIsOne ==
    ASSUME NEW q \in Honest, Local(q), NEW r, NEW v, NEW w,
           IsOwn(q, r, v), IsOwn(q, r, w)
    PROVE  v = w
  BY DEF Local, Bookkeeping, IsOwn

\* Hashes of honest parties are the same if everybody is honest and nobody
\* sent in a round that it had collected: each holds what the others hashed
\* themselves.
LEMMA HonestHashes ==
    ASSUME Inv, Byzantine = {}, late = {},
           NEW p \in Honest, NEW q \in Honest, NEW r,
           r \in DOMAIN check[p], r \in DOMAIN check[q]
    PROVE  check[p][r].hash = check[q][r].hash
<1> DEFINE a == check[p][r].hash
           b == check[q][r].hash
<1>1. CASE p = q
  BY <1>1
<1>2. CASE p # q
  <2>1. Honest = Parties /\ p \in Parties /\ q \in Parties
    BY PartiesFacts, EchoAssumption DEF Byzantine
  <2>2. /\ Local(p) /\ Local(q)
        /\ GoodCheck(p, r, check[p][r]) /\ GoodCheck(q, r, check[q][r])
        /\ r \in Reliable
    BY DEF Inv, Local, Bookkeeping
  <2>3. /\ a \in Hashes /\ b \in Hashes /\ a.round = r /\ b.round = r
        /\ DOMAIN a.msgs \ {p} = Parties \ {p}
        /\ DOMAIN b.msgs \ {q} = Parties \ {q}
    BY <2>1, <2>2, PartiesFacts DEF GoodCheck
  <2>4. \A s \in Parties \ {p} : IsOwn(s, r, a.msgs[s])
    <3> SUFFICES ASSUME NEW s \in Parties \ {p}
                 PROVE  IsOwn(s, r, a.msgs[s])
      OBVIOUS
    <3>1. IsCast(s, r, a.msgs[s])
      BY <2>1, <2>2, PartiesFacts DEF Inv, Authentic, CheckAuthentic, GoodCheck
    <3>. QED
      BY <2>1, <2>2, <3>1 DEF IsCast, Inv, OwnIsHashed
  <2>5. \A s \in Parties \ {q} : IsOwn(s, r, b.msgs[s])
    <3> SUFFICES ASSUME NEW s \in Parties \ {q}
                 PROVE  IsOwn(s, r, b.msgs[s])
      OBVIOUS
    <3>1. IsCast(s, r, b.msgs[s])
      BY <2>1, <2>2, PartiesFacts DEF Inv, Authentic, CheckAuthentic, GoodCheck
    <3>. QED
      BY <2>1, <2>2, <3>1 DEF IsCast, Inv, OwnIsHashed
  <2>6. r \notin DOMAIN sent[p] /\ r \notin DOMAIN sent[q]
    BY <2>2 DEF Local, Bookkeeping
  <2>7. q \in DOMAIN b.msgs /\ b.msgs[q] = a.msgs[q]
    BY <1>2, <2>1, <2>4, <2>6 DEF IsOwn
  <2>8. p \in DOMAIN a.msgs /\ a.msgs[p] = b.msgs[p]
    BY <1>2, <2>1, <2>5, <2>6 DEF IsOwn
  <2>9. \A s \in Parties \ {p, q} : a.msgs[s] = b.msgs[s]
    <3> SUFFICES ASSUME NEW s \in Parties \ {p, q}
                 PROVE  a.msgs[s] = b.msgs[s]
      OBVIOUS
    <3>1. Local(s)
      BY <2>1 DEF Inv
    <3>. QED
      BY <2>1, <2>4, <2>5, <3>1, OwnIsOne
  <2> HIDE DEF a, b
  <2>10. DOMAIN a.msgs = Parties /\ DOMAIN b.msgs = Parties
    BY <2>1, <2>3, <2>7, <2>8, HashFields
  <2>11. a.msgs = b.msgs
    <3>1. \A s \in Parties : a.msgs[s] = b.msgs[s]
      BY <2>7, <2>8, <2>9
    <3>2. /\ a.msgs = [s \in Parties |-> a.msgs[s]]
          /\ b.msgs = [s \in Parties |-> b.msgs[s]]
      BY <2>3, <2>10, HashFields
    <3>. QED
      BY <3>1, <3>2
  <2>. QED
    BY <2>3, <2>11, HashFields DEF a, b
<1>. QED
  BY <1>1, <1>2

-----------------------------------------------------------------------------
(***************************************************************************)
(* A step of party p.                                                      *)
(***************************************************************************)
\* It changes nothing of the others.
OthersKeep(p) ==
    /\ Shapes'
    /\ \A q \in Honest \ {p} :
         /\ pc'[q] = pc[q] /\ rnd'[q] = rnd[q] /\ main'[q] = main[q]
         /\ echo'[q] = echo[q] /\ sent'[q] = sent[q] /\ slots'[q] = slots[q]
         /\ check'[q] = check[q] /\ exposed'[q] = exposed[q]
         /\ error'[q] = error[q]

\* Checks stay, and so does what the party hashes of its own.
ChecksStay(p) ==
    /\ \A r \in DOMAIN check[p] :
         r \in DOMAIN check'[p] /\ check'[p][r] = check[p][r]
    /\ \A r, v : IsOwn(p, r, v) => IsOwn(p, r, v)'

\* The messages of a reliable round are given to the protocol only if the
\* hashes of all honest parties are there and the same.
ExposedAgrees(p) ==
    \A r \in DOMAIN exposed'[p] \cap Reliable :
        \/ r \in DOMAIN exposed[p]
        \/ \A q \in Honest : r \in DOMAIN check[q]
                             /\ check[q][r].hash = check[p][r].hash

Progressed(p) ==
    /\ OthersKeep(p)
    /\ Where(p)' /\ Bookkeeping(p)' /\ GoodExposed(p)'
    /\ ChecksStay(p)
    /\ ExposedAgrees(p)
    /\ \A r \in DOMAIN check'[p] : CheckAuthentic(p, r, check'[p][r])
    /\ error'[p] = "MismatchedHash" =>
         error[p] = "MismatchedHash" \/ Byzantine # {} \/ late # {}

\* What the entries of the main rounds may be when they are looked at.
MainAt(p, es) ==
    /\ MainEntries(p, es)
    /\ \A r \in Rounds : MainAuthentic(p, r, es[r])
    /\ \A r \in Rounds : main[p][r] = Gone => es[r] = Gone

EchoAt(p, es) ==
    /\ EchoEntries(p, es)
    /\ \A r \in Reliable : EchoAuthentic(p, r, es[r])

\* An entry that is taken out of the router.
LEMMA MainGone ==
    ASSUME NEW p, NEW STATE es, MainAt(p, es), NEW STATE k
    PROVE  MainAt(p, [es EXCEPT ![k] = Gone])
<1> DEFINE new == [es EXCEPT ![k] = Gone]
<1>1. \A r \in Rounds : new[r] = Gone \/ new[r] = es[r]
  BY DEF MainAt, MainEntries
<1>2. DOMAIN new = Rounds
  BY DEF MainAt, MainEntries
<1>3. \A r \in Rounds : GoodMain(p, r, Gone) /\ MainAuthentic(p, r, Gone)
  BY GoneIsGood DEF GoodMain, MainAuthentic
<1> HIDE DEF new
<1>. QED
  BY <1>1, <1>2, <1>3 DEF MainAt, MainEntries, new

\* An echo store that is taken leaves the others as they are.
LEMMA EchoGone ==
    ASSUME NEW p, NEW STATE es, EchoAt(p, es), NEW STATE k
    PROVE  EchoAt(p, [es EXCEPT ![k] = Gone])
<1> DEFINE new == [es EXCEPT ![k] = Gone]
<1>1. \A r \in Reliable : new[r] = Gone \/ new[r] = es[r]
  BY DEF EchoAt, EchoEntries
<1>2. DOMAIN new = Reliable
  BY DEF EchoAt, EchoEntries
<1>3. \A r \in Reliable : GoodEcho(p, Gone) /\ EchoAuthentic(p, r, Gone)
  BY GoneIsGood DEF GoodEcho, EchoAuthentic
<1> HIDE DEF new
<1>. QED
  BY <1>1, <1>2, <1>3 DEF EchoAt, EchoEntries, new

\* The check of a round that is collected.
OwnMsg(p, r) ==
    IF r \in DOMAIN sent[p] THEN [j \in {p} |-> sent[p][r]] ELSE NoMessages

CheckOf(p, r, e) ==
    [out |-> e.out, hash |-> HashOf(WithMyMsg(p, e.received, OwnMsg(p, r)), r)]

\* The hash that complete computes covers the messages of the round that the
\* party has collected, and its own.
LEMMA NewCheck ==
    ASSUME Inv, NEW p \in Honest, NEW STATE r, r \in Reliable,
           NEW STATE e, GoodMain(p, r, e), MainAuthentic(p, r, e),
           e.st = "Collected"
    PROVE  /\ GoodCheck(p, r, CheckOf(p, r, e))
           /\ CheckAuthentic(p, r, CheckOf(p, r, e))
           /\ \A v : IsOwn(p, r, v) /\ r \notin DOMAIN check[p] =>
                 /\ p \in DOMAIN CheckOf(p, r, e).hash.msgs
                 /\ CheckOf(p, r, e).hash.msgs[p] = v
<1> DEFINE mine == OwnMsg(p, r)
           msgs == WithMyMsg(p, e.received, mine)
           c == CheckOf(p, r, e)
<1>1. /\ e.out \in Outputs(p, Values) /\ e.received \in Copies
      /\ Held(e) = e.out.messages
  BY EntryCases DEF GoodMain, GoodEntry, Held
<1>2. /\ DOMAIN e.received \subseteq Parties
      /\ \A s \in DOMAIN e.received : e.received[s] \in Values
  BY <1>1, PartialFunctions DEF Copies
<1>3. DOMAIN e.out.messages = Slots(N)
  BY <1>1 DEF Outputs
<1>4. p \in Parties
  BY PartiesFacts, EchoAssumption
<1>5. \A s \in Others(p, N) :
          /\ s \in DOMAIN e.received
          /\ e.received[s] = e.out.messages[SlotOf(p, s)]
  BY <1>1, <1>3, <1>4, SlotsAndParties, PartiesFacts DEF GoodMain, CopiesAgree
<1>6. /\ DOMAIN mine \subseteq {p}
      /\ p \in DOMAIN mine <=> r \in DOMAIN sent[p]
      /\ p \in DOMAIN mine => mine[p] = sent[p][r] /\ mine[p] \in Values
  BY DEF OwnMsg, NoMessages, Inv, Local, Bookkeeping
<1> HIDE DEF mine
<1>7. /\ DOMAIN msgs = (DOMAIN e.received \ {p}) \cup DOMAIN mine
      /\ \A j \in DOMAIN msgs :
           msgs[j] = IF j = p THEN mine[p] ELSE e.received[j]
      /\ msgs = [j \in DOMAIN msgs |-> msgs[j]]
  BY DEF WithMyMsg
<1> HIDE DEF msgs
<1>8. DOMAIN msgs \subseteq Parties /\ \A j \in DOMAIN msgs : msgs[j] \in Values
  BY <1>2, <1>4, <1>6, <1>7
<1>9. msgs \in UNION {[S -> Values] : S \in SUBSET Parties}
  <2>1. msgs \in [DOMAIN msgs -> Values]
    BY <1>7, <1>8
  <2>. QED
    BY <1>8, <2>1
<1>10. HashOf(msgs, r) \in Hashes
  BY <1>9, RoundsFacts DEF HashOf, Hashes
<1>11. DOMAIN msgs \ {p} = Others(p, N)
  BY <1>2, <1>4, <1>5, <1>6, <1>7, PartiesFacts
<1>12. c.out = e.out /\ c.hash = HashOf(msgs, r)
       /\ c.hash.msgs = msgs /\ c.hash.round = r
  BY DEF CheckOf, HashOf, msgs, mine
<1>13. c \in [out : Outputs(p, Values), hash : Hashes]
  BY <1>1, <1>10 DEF CheckOf, msgs, mine
<1> HIDE DEF c
<1>14. GoodCheck(p, r, c)
  <2>1. \A s \in Others(p, N) : msgs[s] = e.out.messages[SlotOf(p, s)]
    BY <1>5, <1>7, <1>11
  <2>. QED
    BY <1>11, <1>12, <1>13, <2>1 DEF GoodCheck
<1>15. CheckAuthentic(p, r, c)
  BY <1>1, <1>3, <1>4, <1>12, SlotsAndParties, PartiesFacts
     DEF CheckAuthentic, MainAuthentic
<1>16. ASSUME NEW v, IsOwn(p, r, v), r \notin DOMAIN check[p]
       PROVE  p \in DOMAIN c.hash.msgs /\ c.hash.msgs[p] = v
  BY <1>6, <1>7, <1>12, <1>16 DEF IsOwn
<1>. QED
  BY <1>14, <1>15, <1>16 DEF c

\* The step changes nothing of the bookkeeping of p: what is left to show.
LEMMA NothingCollected ==
    ASSUME Inv, NEW p \in Honest,
           check'[p] = check[p], sent'[p] = sent[p], slots'[p] = slots[p],
           \A r \in Rounds : main[p][r] = Gone => main'[p][r] = Gone
    PROVE  /\ Bookkeeping(p)'
           /\ ChecksStay(p)
           /\ \A r \in DOMAIN check'[p] : CheckAuthentic(p, r, check'[p][r])
<1>1. Bookkeeping(p)'
  <2>1. Bookkeeping(p) /\ Reliable \subseteq Rounds
    BY RoundsFacts DEF Inv, Local
  <2>. QED
    BY <2>1 DEF Bookkeeping
<1>2. ChecksStay(p)
  BY DEF ChecksStay, IsOwn
<1>3. \A r \in DOMAIN check'[p] : CheckAuthentic(p, r, check'[p][r])
  BY DEF Inv, Authentic
<1>. QED
  BY <1>1, <1>2, <1>3

\* complete looks at the main part of its round.
LEMMA TryMain ==
    ASSUME Inv, NEW p \in Honest, pc[p] \in Running,
           NEW STATE es, MainAt(p, es), TryCompleteMain(p, es),
           DOMAIN echo' = Honest, \A q \in Honest \ {p} : echo'[q] = echo[q]
    PROVE  Progressed(p) /\ MainAt(p, main'[p])
<1> DEFINE r == rnd[p]
           e == es[r]
           gone == [es EXCEPT ![r] = Gone]
<1>1. /\ Shapes /\ Local(p) /\ Where(p) /\ Bookkeeping(p) /\ GoodExposed(p)
      /\ r \in Rounds /\ r \in Nat /\ R \in Nat /\ r + 1 \in 0 .. R
  <2>1. Shapes /\ Local(p) /\ Where(p) /\ Bookkeeping(p) /\ GoodExposed(p)
    BY DEF Inv, Local
  <2>. QED
    BY <2>1, RoundsFacts DEF Where, Rounds
<1>2. MainAt(p, gone) /\ gone[r] = Gone
  <2>1. gone[r] = Gone
    BY <1>1 DEF MainAt, MainEntries
  <2>. QED
    BY <2>1, MainGone
<1>3. GoodMain(p, r, e) /\ MainAuthentic(p, r, e)
  BY <1>1 DEF MainAt, MainEntries
<1> HIDE DEF gone, e
<1>4. CASE /\ e.st = "Ongoing"
           /\ main' = [main EXCEPT ![p] = es]
           /\ pc' = [pc EXCEPT ![p] = "main"]
           /\ UNCHANGED <<rnd, exposed, error, check, sent, slots>>
  <2>1. OthersKeep(p) /\ main'[p] = es /\ pc'[p] = "main"
    BY <1>1, <1>4 DEF Shapes, OthersKeep
  <2>2. /\ Bookkeeping(p)' /\ ChecksStay(p)
        /\ \A k \in DOMAIN check'[p] : CheckAuthentic(p, k, check'[p][k])
    BY <1>4, <2>1, NothingCollected DEF MainAt
  <2>3. Where(p)'
    BY <1>1, <1>4, <2>1 DEF Where, Running
  <2>4. GoodExposed(p)' /\ ExposedAgrees(p)
    BY <1>1, <1>4 DEF GoodExposed, ExposedAgrees
  <2>. QED
    BY <1>4, <2>1, <2>2, <2>3, <2>4 DEF Progressed
<1>5. CASE /\ e.st = "Failed"
           /\ main' = [main EXCEPT ![p] = gone]
           /\ Fail(p, e.err)
  <2>0. e.err \in RoundErrors
    BY <1>3, <1>5, EntryCases DEF GoodMain, GoodEntry
  <2>1. OthersKeep(p) /\ main'[p] = gone /\ pc'[p] = "failed"
        /\ error'[p] = e.err
    BY <1>1, <1>5 DEF Shapes, OthersKeep, Fail
  <2>2. /\ Bookkeeping(p)' /\ ChecksStay(p)
        /\ \A k \in DOMAIN check'[p] : CheckAuthentic(p, k, check'[p][k])
    BY <1>2, <1>5, <2>1, NothingCollected DEF MainAt, Fail
  <2>3. Where(p)'
    BY <1>1, <1>5, <2>1 DEF Where, Running, Fail
  <2>4. GoodExposed(p)' /\ ExposedAgrees(p)
    BY <1>1, <1>5 DEF GoodExposed, ExposedAgrees, Fail
  <2>5. error'[p] # "MismatchedHash"
    BY <2>0, <2>1 DEF RoundErrors
  <2>. QED
    BY <1>2, <2>1, <2>2, <2>3, <2>4, <2>5 DEF Progressed
<1>6. CASE /\ e.st = "Collected" /\ r \notin Reliable
           /\ main' = [main EXCEPT ![p] = gone]
           /\ Expose(p, e.out)
  <2>0. e.out \in Outputs(p, Values)
    BY <1>3, <1>6, EntryCases DEF GoodMain, GoodEntry
  <2>1. /\ OthersKeep(p) /\ main'[p] = gone
        /\ pc'[p] = IF r + 1 = R THEN "done" ELSE "idle"
        /\ rnd'[p] = r + 1
        /\ exposed'[p] = With(exposed[p], r, e.out)
    BY <1>1, <1>6 DEF Shapes, OthersKeep, Expose
  <2>2. /\ Bookkeeping(p)' /\ ChecksStay(p)
        /\ \A k \in DOMAIN check'[p] : CheckAuthentic(p, k, check'[p][k])
    BY <1>2, <1>6, <2>1, NothingCollected DEF MainAt, Expose
  <2>3. Where(p)'
    BY <1>1, <1>6, <2>1 DEF Where, Running, Expose
  <2>4. /\ DOMAIN exposed'[p] = DOMAIN exposed[p] \cup {r}
        /\ exposed'[p][r] = e.out
        /\ \A k \in DOMAIN exposed[p] : k # r => exposed'[p][k] = exposed[p][k]
    BY <2>1 DEF With
  <2>5. GoodExposed(p)' /\ ExposedAgrees(p)
    BY <1>1, <1>6, <2>0, <2>4 DEF GoodExposed, ExposedAgrees, Expose
  <2>. QED
    BY <1>2, <1>6, <2>1, <2>2, <2>3, <2>5 DEF Progressed, Expose
<1>7. CASE /\ e.st = "Collected" /\ r \in Reliable
           /\ main' = [main EXCEPT ![p] = gone]
           /\ slots' = [slots EXCEPT ![p] = @ \ {r}]
           /\ sent' = [sent EXCEPT ![p] = [q \in DOMAIN @ \ {r} |-> @[q]]]
           /\ check' = [check EXCEPT ![p] = With(@, r,
                [out |-> e.out,
                 hash |-> HashOf(WithMyMsg(p, e.received,
                            IF r \in DOMAIN sent[p]
                              THEN [j \in {p} |-> sent[p][r]]
                              ELSE NoMessages), r)])]
           /\ pc' = [pc EXCEPT ![p] = "sendEcho"]
           /\ UNCHANGED <<rnd, exposed, error>>
  <2> DEFINE c == CheckOf(p, r, e)
  <2>1. /\ GoodCheck(p, r, c)
        /\ CheckAuthentic(p, r, c)
        /\ \A v : IsOwn(p, r, v) /\ r \notin DOMAIN check[p] =>
              p \in DOMAIN c.hash.msgs /\ c.hash.msgs[p] = v
    BY <1>3, <1>7, NewCheck
  <2>2. check'[p] = With(check[p], r, c)
    BY <1>1, <1>7 DEF Shapes, CheckOf, OwnMsg
  <2> HIDE DEF c
  <2>3. /\ DOMAIN check'[p] = DOMAIN check[p] \cup {r}
        /\ check'[p][r] = c
        /\ \A k \in DOMAIN check[p] : k # r => check'[p][k] = check[p][k]
    BY <2>2 DEF With
  <2>4. /\ OthersKeep(p) /\ main'[p] = gone /\ pc'[p] = "sendEcho"
        /\ slots'[p] = slots[p] \ {r}
        /\ sent'[p] = [q \in DOMAIN sent[p] \ {r} |-> sent[p][q]]
    BY <1>1, <1>7 DEF Shapes, OthersKeep
  <2>5. r \notin DOMAIN check[p]
    <3>1. e # Gone
      BY <1>7 DEF Gone
    <3>. QED
      BY <1>1, <3>1 DEF Bookkeeping, MainAt, e
  <2>6. Bookkeeping(p)'
    <3>1. DOMAIN check'[p] \subseteq Reliable
      BY <1>1, <1>7, <2>3 DEF Bookkeeping
    <3>2. \A k \in DOMAIN check'[p] : GoodCheck(p, k, check'[p][k])
      BY <1>1, <2>1, <2>3 DEF Bookkeeping
    <3>3. \A k \in DOMAIN check'[p] : main'[p][k] = Gone
      BY <1>1, <1>2, <2>3, <2>4, RoundsFacts DEF Bookkeeping, MainAt
    <3>4. slots'[p] = Reliable \ DOMAIN check'[p]
      BY <1>1, <2>3, <2>4 DEF Bookkeeping
    <3>5. DOMAIN sent'[p] \subseteq slots'[p]
          /\ \A k \in DOMAIN sent'[p] : sent'[p][k] \in Values
      BY <1>1, <2>4 DEF Bookkeeping
    <3>. QED
      BY <3>1, <3>2, <3>3, <3>4, <3>5 DEF Bookkeeping
  <2>7. ChecksStay(p)
    <3>1. ASSUME NEW k, NEW v, IsOwn(p, k, v)
          PROVE  IsOwn(p, k, v)'
      <4>1. CASE k = r
        BY <2>1, <2>3, <2>5, <3>1, <4>1 DEF IsOwn
      <4>2. CASE k # r
        BY <2>3, <2>4, <3>1, <4>2 DEF IsOwn
      <4>. QED
        BY <4>1, <4>2
    <3>. QED
      BY <2>3, <2>5, <3>1 DEF ChecksStay
  <2>8. \A k \in DOMAIN check'[p] : CheckAuthentic(p, k, check'[p][k])
    BY <2>1, <2>3, <2>5 DEF Inv, Authentic
  <2>9. Where(p)'
    BY <1>1, <1>7, <2>3, <2>4 DEF Where, Running
  <2>10. GoodExposed(p)' /\ ExposedAgrees(p)
    BY <1>1, <1>7, <2>3, <2>5 DEF GoodExposed, ExposedAgrees
  <2>. QED
    BY <1>2, <1>7, <2>4, <2>6, <2>7, <2>8, <2>9, <2>10 DEF Progressed
<1>. QED
  BY <1>4, <1>5, <1>6, <1>7 DEF TryCompleteMain, e, gone

\* The hashes of all the others, when the echoes are collected.
LEMMA CollectedEchoes ==
    ASSUME Inv, NEW p \in Honest, NEW STATE r, r \in Reliable,
           NEW STATE e, GoodEcho(p, e), EchoAuthentic(p, r, e),
           e.st = "Collected"
    PROVE  /\ DOMAIN e.out.messages = Slots(N)
           /\ \A q \in Honest \ {p} :
                /\ SlotOf(p, q) \in Slots(N)
                /\ r \in DOMAIN check[q]
                /\ e.out.messages[SlotOf(p, q)] = check[q][r].hash
<1>1. e.out \in Outputs(p, EchoHashes) /\ Held(e) = e.out.messages
  BY EntryCases DEF GoodEcho, GoodEntry, Held
<1>2. DOMAIN e.out.messages = Slots(N)
  BY <1>1 DEF Outputs
<1>3. p \in Parties
  BY EchoAssumption
<1>4. \A q \in Honest \ {p} : SlotOf(p, q) \in Slots(N)
  BY <1>3, SlotsAndParties, PartiesFacts
<1>. QED
  BY <1>1, <1>2, <1>4 DEF EchoAuthentic, IsEchoOf

\* complete looks at the echoes of its round.
LEMMA TryEcho ==
    ASSUME Inv, NEW p \in Honest, pc[p] \in {"sendEcho", "echo"},
           NEW STATE es, EchoAt(p, es), TryCompleteEcho(p, es),
           DOMAIN main' = Honest, \A q \in Honest \ {p} : main'[q] = main[q],
           \A k \in Rounds : main[p][k] = Gone => main'[p][k] = Gone
    PROVE  Progressed(p) /\ EchoAt(p, echo'[p])
<1> DEFINE r == rnd[p]
           e == es[r]
           gone == [es EXCEPT ![r] = Gone]
<1>1. /\ Shapes /\ Local(p) /\ Where(p) /\ Bookkeeping(p) /\ GoodExposed(p)
      /\ r \in DOMAIN check[p] /\ r \in Reliable /\ r \in Rounds
      /\ r \in Nat /\ R \in Nat /\ r + 1 \in 0 .. R
  <2>1. Shapes /\ Local(p) /\ Where(p) /\ Bookkeeping(p) /\ GoodExposed(p)
    BY DEF Inv, Local
  <2>2. r \in DOMAIN check[p] /\ r \in Reliable
    BY <2>1 DEF Where, Bookkeeping
  <2>. QED
    BY <2>1, <2>2, RoundsFacts DEF Where, Rounds, Running
<1>2. EchoAt(p, gone)
  BY EchoGone
<1>3. GoodEcho(p, e) /\ EchoAuthentic(p, r, e)
  BY <1>1 DEF EchoAt, EchoEntries
<1> HIDE DEF gone, e
<1>4. CASE /\ e.st = "Ongoing"
           /\ echo' = [echo EXCEPT ![p] = es]
           /\ pc' = [pc EXCEPT ![p] = "echo"]
           /\ UNCHANGED <<rnd, exposed, error, check, sent, slots>>
  <2>1. OthersKeep(p) /\ echo'[p] = es /\ pc'[p] = "echo"
    BY <1>1, <1>4 DEF Shapes, OthersKeep
  <2>2. /\ Bookkeeping(p)' /\ ChecksStay(p)
        /\ \A k \in DOMAIN check'[p] : CheckAuthentic(p, k, check'[p][k])
    BY <1>4, NothingCollected
  <2>3. Where(p)'
    BY <1>1, <1>4, <2>1 DEF Where, Running
  <2>4. GoodExposed(p)' /\ ExposedAgrees(p)
    BY <1>1, <1>4 DEF GoodExposed, ExposedAgrees
  <2>. QED
    BY <1>4, <2>1, <2>2, <2>3, <2>4 DEF Progressed
<1>5. ASSUME NEW STATE kind, Fail(p, kind), echo' = [echo EXCEPT ![p] = gone],
             kind = "MismatchedHash" => Byzantine # {} \/ late # {}
      PROVE  Progressed(p) /\ EchoAt(p, echo'[p])
  <2>1. OthersKeep(p) /\ echo'[p] = gone /\ pc'[p] = "failed"
        /\ error'[p] = kind
    BY <1>1, <1>5 DEF Shapes, OthersKeep, Fail
  <2>2. /\ Bookkeeping(p)' /\ ChecksStay(p)
        /\ \A k \in DOMAIN check'[p] : CheckAuthentic(p, k, check'[p][k])
    BY <1>5, NothingCollected DEF Fail
  <2>3. Where(p)'
    BY <1>1, <1>5, <2>1 DEF Where, Running, Fail
  <2>4. GoodExposed(p)' /\ ExposedAgrees(p)
    BY <1>1, <1>5 DEF GoodExposed, ExposedAgrees, Fail
  <2>. QED
    BY <1>2, <1>5, <2>1, <2>2, <2>3, <2>4 DEF Progressed
<1>6. CASE /\ e.st = "Failed"
           /\ echo' = [echo EXCEPT ![p] = gone]
           /\ Fail(p, e.err)
  <2>1. e.err # "MismatchedHash"
    BY <1>3, <1>6, EntryCases DEF GoodEcho, GoodEntry, RoundErrors
  <2>. QED
    BY <1>5, <1>6, <2>1
<1>7. CASE /\ e.st = "Collected"
           /\ echo' = [echo EXCEPT ![p] = gone]
           /\ EchoesAgree(e.out, check[p][r].hash)
           /\ Expose(p, check[p][r].out)
  <2>0. check[p][r].out \in Outputs(p, Values)
    BY <1>1 DEF Bookkeeping, GoodCheck
  <2>1. /\ OthersKeep(p) /\ echo'[p] = gone
        /\ pc'[p] = IF r + 1 = R THEN "done" ELSE "idle"
        /\ rnd'[p] = r + 1
        /\ exposed'[p] = With(exposed[p], r, check[p][r].out)
    BY <1>1, <1>7 DEF Shapes, OthersKeep, Expose
  <2>2. /\ Bookkeeping(p)' /\ ChecksStay(p)
        /\ \A k \in DOMAIN check'[p] : CheckAuthentic(p, k, check'[p][k])
    BY <1>7, NothingCollected DEF Expose
  <2>3. Where(p)'
    BY <1>1, <1>7, <2>1 DEF Where, Running, Expose
  <2>4. /\ DOMAIN exposed'[p] = DOMAIN exposed[p] \cup {r}
        /\ exposed'[p][r] = check[p][r].out
        /\ \A k \in DOMAIN exposed[p] : k # r => exposed'[p][k] = exposed[p][k]
    BY <2>1 DEF With
  <2>5. \A q \in Honest : r \in DOMAIN check[q]
                          /\ check[q][r].hash = check[p][r].hash
    BY <1>1, <1>3, <1>7, CollectedEchoes DEF EchoesAgree
  <2>6. GoodExposed(p)'
    BY <1>1, <1>7, <2>0, <2>4 DEF GoodExposed, Expose
  <2>7. ExposedAgrees(p)
    BY <2>4, <2>5 DEF ExposedAgrees
  <2>. QED
    BY <1>2, <1>7, <2>1, <2>2, <2>3, <2>6, <2>7 DEF Progressed, Expose
<1>8. CASE /\ e.st = "Collected"
           /\ echo' = [echo EXCEPT ![p] = gone]
           /\ ~ EchoesAgree(e.out, check[p][r].hash)
           /\ Fail(p, "MismatchedHash")
  <2>1. ASSUME Byzantine = {}, late = {}
        PROVE  FALSE
    <3>1. Honest = Parties
      BY <2>1, EchoAssumption DEF Byzantine
    <3>2. PICK s \in DOMAIN e.out.messages :
              e.out.messages[s] # check[p][r].hash
      BY <1>8 DEF EchoesAgree
    <3>3. s \in Slots(N)
      BY <1>1, <1>3, <1>8, CollectedEchoes
    <3>4. PICK q \in Honest \ {p} : SlotOf(p, q) = s
      BY <3>1, <3>3, SlotsAndParties, PartiesFacts
    <3>5. r \in DOMAIN check[q] /\ e.out.messages[s] = check[q][r].hash
      BY <1>1, <1>3, <1>8, <3>4, CollectedEchoes
    <3>6. check[p][r].hash = check[q][r].hash
      BY <1>1, <2>1, <3>5, HonestHashes
    <3>. QED
      BY <3>2, <3>5, <3>6
  <2>. QED
    BY <1>5, <1>8, <2>1
<1>. QED
  BY <1>4, <1>6, <1>7, <1>8 DEF TryCompleteEcho, e, gone

-----------------------------------------------------------------------------
(***************************************************************************)
(* Every step keeps the invariant.                                         *)
(***************************************************************************)
\* The invariant after a step of p, from what the step does to p, to the
\* network and to the history.
LEMMA StepKeeps ==
    ASSUME Inv, NEW p \in Honest, Progressed(p),
           MainAt(p, main'[p]), EchoAt(p, echo'[p]),
           cast \subseteq cast', late \subseteq late',
           cast' \subseteq [sender : Honest, round : Rounds, msg : Values],
           late' \subseteq Honest,
           \A m \in net' : m \in net \/ GoodPacket(m)',
           \A c \in cast' :
               \/ c \in cast
               \/ c.round \in Reliable /\ c.sender \notin late'
                    => IsOwn(c.sender, c.round, c.msg)'
    PROVE  Inv'
<1>1. /\ Shapes' /\ OthersKeep(p) /\ ChecksStay(p)
      /\ Where(p)' /\ Bookkeeping(p)' /\ GoodExposed(p)'
  BY DEF Progressed, OthersKeep
<1>2. Local(p)'
  BY <1>1 DEF Local, MainAt, EchoAt
<1>3. ASSUME NEW q \in Honest \ {p}
      PROVE  Local(q)'
  <2>1. Local(q)
    BY DEF Inv
  <2>. QED
    BY <1>1, <2>1 DEF OthersKeep, Local, Where, Bookkeeping, GoodExposed
<1>4. \A q \in Honest : \A r \in DOMAIN check[q] :
          r \in DOMAIN check'[q] /\ check'[q][r] = check[q][r]
  BY <1>1 DEF OthersKeep, ChecksStay
<1>5. \A q, r, v : IsCast(q, r, v) => IsCast(q, r, v)'
  BY DEF IsCast
<1>6. \A q \in Honest : \A r, h : IsEchoOf(q, r, h) => IsEchoOf(q, r, h)'
  BY <1>4 DEF IsEchoOf
<1>7. \A q \in Honest : \A r, v : IsOwn(q, r, v) => IsOwn(q, r, v)'
  <2> TAKE q \in Honest
  <2> TAKE r, v
  <2>1. CASE q = p
    BY <1>1, <2>1 DEF ChecksStay
  <2>2. CASE q # p
    BY <1>1, <2>2 DEF OthersKeep, IsOwn
  <2>. QED
    BY <2>1, <2>2
<1>8. Authentic'
  <2>1. \A m \in net' : GoodPacket(m)'
    <3> SUFFICES ASSUME NEW m \in net, GoodPacket(m)
                 PROVE  GoodPacket(m)'
      BY DEF Inv, Authentic
    <3>. QED
      BY <1>5, <1>6 DEF GoodPacket
  <2>2. ASSUME NEW q \in Honest
        PROVE  /\ \A r \in Rounds : MainAuthentic(q, r, main[q][r])'
               /\ \A r \in Reliable : EchoAuthentic(q, r, echo[q][r])'
               /\ \A r \in DOMAIN check'[q] :
                    CheckAuthentic(q, r, check[q][r])'
    <3>1. CASE q = p
      <4>1. \A r \in Rounds : MainAuthentic(p, r, main'[p][r])
        BY DEF MainAt
      <4>2. \A r \in Reliable : EchoAuthentic(p, r, echo'[p][r])
        BY DEF EchoAt
      <4>3. \A r \in DOMAIN check'[p] : CheckAuthentic(p, r, check'[p][r])
        BY DEF Progressed
      <4>4. \A r \in Rounds : MainAuthentic(p, r, main[p][r])'
        BY <1>5, <4>1 DEF MainAuthentic
      <4>5. \A r \in Reliable : EchoAuthentic(p, r, echo[p][r])'
        BY <1>6, <4>2 DEF EchoAuthentic
      <4>6. \A r \in DOMAIN check'[p] : CheckAuthentic(p, r, check[p][r])'
        BY <1>5, <4>3 DEF CheckAuthentic
      <4>. QED
        BY <3>1, <4>4, <4>5, <4>6
    <3>2. CASE q # p
      <4>0. main'[q] = main[q] /\ echo'[q] = echo[q] /\ check'[q] = check[q]
        BY <1>1, <3>2 DEF OthersKeep
      <4>1. /\ \A r \in Rounds : MainAuthentic(q, r, main[q][r])
            /\ \A r \in Reliable : EchoAuthentic(q, r, echo[q][r])
            /\ \A r \in DOMAIN check[q] : CheckAuthentic(q, r, check[q][r])
        BY DEF Inv, Authentic
      <4>4. \A r \in Rounds : MainAuthentic(q, r, main[q][r])'
        BY <1>5, <4>0, <4>1 DEF MainAuthentic
      <4>5. \A r \in Reliable : EchoAuthentic(q, r, echo[q][r])'
        BY <1>6, <4>0, <4>1 DEF EchoAuthentic
      <4>6. \A r \in DOMAIN check'[q] : CheckAuthentic(q, r, check[q][r])'
        BY <1>5, <4>0, <4>1 DEF CheckAuthentic
      <4>. QED
        BY <4>4, <4>5, <4>6
    <3>. QED
      BY <3>1, <3>2
  <2>. QED
    BY <2>1, <2>2 DEF Authentic
<1>9. HashesAgree'
  <2> SUFFICES ASSUME NEW a \in Honest, NEW b \in Honest,
                      NEW r \in DOMAIN exposed'[a] \cap Reliable
               PROVE  /\ r \in DOMAIN check'[b]
                      /\ check'[b][r].hash = check'[a][r].hash
    BY DEF HashesAgree
  <2>1. /\ r \in DOMAIN check[a] /\ r \in DOMAIN check[b]
        /\ check[b][r].hash = check[a][r].hash
    <3>1. CASE r \in DOMAIN exposed[a]
      BY <3>1 DEF Inv, HashesAgree
    <3>2. CASE r \notin DOMAIN exposed[a]
      <4>1. a = p
        BY <1>1, <3>2 DEF OthersKeep
      <4>. QED
        BY <3>2, <4>1 DEF Progressed, ExposedAgrees
    <3>. QED
      BY <3>1, <3>2
  <2>. QED
    BY <1>4, <2>1
<1>10. OwnIsHashed'
  <2> SUFFICES ASSUME NEW c \in cast', c.round \in Reliable,
                      c.sender \notin late'
               PROVE  IsOwn(c.sender, c.round, c.msg)'
    BY DEF OwnIsHashed
  <2>1. CASE c \in cast
    BY <1>7, <2>1 DEF Inv, OwnIsHashed, Authentic
  <2>2. CASE c \notin cast
    BY <2>2
  <2>. QED
    BY <2>1, <2>2
<1>11. MismatchMeansDishonest'
  <2> SUFFICES ASSUME NEW q \in Honest, error'[q] = "MismatchedHash"
               PROVE  Byzantine # {} \/ late' # {}
    BY DEF MismatchMeansDishonest, Byzantine
  <2>1. error[q] = "MismatchedHash" \/ Byzantine # {} \/ late # {}
    BY <1>1 DEF OthersKeep, Progressed
  <2>2. Byzantine # {} \/ late # {}
    BY <2>1 DEF Inv, MismatchMeansDishonest
  <2>. QED
    BY <2>2
<1>. QED
  BY <1>1, <1>2, <1>3, <1>8, <1>9, <1>10, <1>11 DEF Inv

\* The entries as they are.
LEMMA EntriesNow ==
    ASSUME Inv, NEW p \in Honest
    PROVE  /\ MainAt(p, main[p]) /\ EchoAt(p, echo[p])
           /\ p \in Parties
  BY EchoAssumption DEF Inv, Local, Authentic, MainAt, EchoAt

\* The run of p ends with an error, and nothing else happens.
LEMMA FailStep ==
    ASSUME Inv, NEW p \in Honest, NEW STATE kind, kind # "MismatchedHash",
           Fail(p, kind), UNCHANGED <<main, echo>>
    PROVE  /\ Progressed(p)
           /\ MainAt(p, main'[p]) /\ EchoAt(p, echo'[p])
<1>1. /\ Shapes /\ Where(p) /\ GoodExposed(p)
  BY DEF Inv, Local
<1>2. OthersKeep(p) /\ pc'[p] = "failed" /\ error'[p] = kind
  BY <1>1 DEF Shapes, OthersKeep, Fail
<1>3. /\ Bookkeeping(p)' /\ ChecksStay(p)
      /\ \A k \in DOMAIN check'[p] : CheckAuthentic(p, k, check'[p][k])
  BY NothingCollected DEF Fail
<1>4. Where(p)'
  BY <1>1, <1>2 DEF Where, Running, Fail
<1>5. GoodExposed(p)' /\ ExposedAgrees(p)
  BY <1>1 DEF GoodExposed, ExposedAgrees, Fail
<1>. QED
  BY <1>2, <1>3, <1>4, <1>5, EntriesNow DEF Progressed

\* A message that comes from an honest party is one that it sent.
Comes(m) == Valid(m) /\ (m.from \in Honest => GoodPacket(m))

\* What is on its way was sent by its sender.
LEMMA NetComes ==
    ASSUME Inv, NEW m \in net
    PROVE  Comes(m)
<1>1. GoodPacket(m)
  BY DEF Inv, Authentic
<1>2. m.from \in Parties
  BY <1>1, EchoAssumption DEF GoodPacket
<1>3. ASSUME m.kind = "Echo"
      PROVE  m.round \in 0 .. (U16 - 1) /\ m.msg \in EchoHashes
  <2>1. m.round \in DOMAIN check[m.from] /\ m.msg = check[m.from][m.round].hash
    BY <1>1, <1>3 DEF GoodPacket, IsEchoOf
  <2>2. m.round \in Reliable /\ GoodCheck(m.from, m.round, check[m.from][m.round])
    BY <1>1, <2>1 DEF GoodPacket, Inv, Local, Bookkeeping
  <2>3. m.round \in Rounds /\ m.round \in Nat /\ 2 * m.round + 1 < U16
    BY <2>2, RoundsFacts
  <2>4. m.msg \in EchoHashes
    BY <2>1, <2>2 DEF GoodCheck, EchoHashes
  <2>5. m.round \in 0 .. (U16 - 1)
    <3>1. U16 \in Nat
      BY EchoAssumption
    <3>2. \A k, u \in Nat : 2 * k + 1 < u => k \in 0 .. (u - 1)
      OBVIOUS
    <3>. QED
      BY <2>3, <3>1, <3>2
  <2>. QED
    BY <2>4, <2>5
<1>. QED
  BY <1>1, <1>2, <1>3 DEF Comes, Valid, GoodPacket

\* A dishonest party sends in its own name.
LEMMA ByzComes ==
    ASSUME NEW p \in Honest, NEW m \in ByzPackets(p)
    PROVE  Comes(m)
<1>1. CASE \E b \in Byzantine, x \in ByzMain :
              m = Packet(b, p, "Main", x.round, x.type, x.msg)
  <2>1. PICK b \in Byzantine, x \in ByzMain :
            m = Packet(b, p, "Main", x.round, x.type, x.msg)
    BY <1>1
  <2>2. m.from = b /\ m.kind = "Main" /\ m.round = x.round /\ m.msg = x.msg
    BY <2>1 DEF Packet
  <2>. QED
    BY <2>2, EchoAssumption DEF Comes, Valid, Byzantine
<1>2. CASE \E b \in Byzantine, x \in ByzEchoes :
              m = Packet(b, p, "Echo", x.round, x.type, x.hash)
  <2>1. PICK b \in Byzantine, x \in ByzEchoes :
            m = Packet(b, p, "Echo", x.round, x.type, x.hash)
    BY <1>2
  <2>2. m.from = b /\ m.kind = "Echo" /\ m.round = x.round /\ m.msg = x.hash
    BY <2>1 DEF Packet
  <2>. QED
    BY <2>2, EchoAssumption DEF Comes, Valid, Byzantine, EchoHashes
<1>. QED
  BY <1>1, <1>2 DEF ByzPackets

\* Routing a message that comes keeps the entries authentic.
LEMMA RouteKeeps ==
    ASSUME Inv, NEW p \in Honest, NEW m, Comes(m)
    PROVE  /\ MainAt(p, RouteMain(main[p], m))
           /\ IsRegistered(RouterRound(m)) => EchoAt(p, RouteEcho(echo[p], m))
<1>1. MainAt(p, main[p]) /\ EchoAt(p, echo[p]) /\ p \in Parties
  BY EntriesNow
<1>2. Honest \ {p} \subseteq Others(p, N) /\ Reliable \subseteq Rounds
  BY <1>1, PartiesFacts, RoundsFacts
<1>3. MainAt(p, RouteMain(main[p], m))
  <2> DEFINE new == RouteMain(main[p], m)
  <2>1. /\ MainEntries(p, new)
        /\ \A r \in Rounds :
             /\ main[p][r] = Gone => new[r] = Gone
             /\ \/ new[r] = main[p][r]
                \/ /\ m.kind = "Main" /\ m.round = r
                   /\ Gains(p, main[p][r], new[r], m)
    BY <1>1, RoutedMain DEF MainAt, Comes
  <2> HIDE DEF new
  <2>2. ASSUME NEW r \in Rounds, NEW q \in Honest \ {p},
               SlotOf(p, q) \in DOMAIN Held(new[r])
        PROVE  IsCast(q, r, Held(new[r])[SlotOf(p, q)])
    <3>0. SlotOf(p, q) \in DOMAIN Held(main[p][r])
            => IsCast(q, r, Held(main[p][r])[SlotOf(p, q)])
      BY <1>1 DEF MainAt, MainAuthentic
    <3>1. CASE new[r] = main[p][r]
      BY <2>2, <3>0, <3>1
    <3>2. CASE m.kind = "Main" /\ m.round = r /\ Gains(p, main[p][r], new[r], m)
      <4>1. m.from = q => IsCast(q, r, m.msg)
        BY <3>2 DEF Comes, GoodPacket
      <4>. QED
        BY <1>2, <2>2, <3>0, <3>2, <4>1 DEF Gains
    <3>. QED
      BY <2>1, <3>1, <3>2
  <2>3. \A r \in Rounds : MainAuthentic(p, r, new[r])
    BY <2>2 DEF MainAuthentic
  <2>. QED
    BY <2>1, <2>3 DEF MainAt, new
<1>4. ASSUME IsRegistered(RouterRound(m))
      PROVE  EchoAt(p, RouteEcho(echo[p], m))
  <2> DEFINE new == RouteEcho(echo[p], m)
  <2>1. /\ EchoEntries(p, new)
        /\ \A r \in Reliable :
             \/ new[r] = echo[p][r]
             \/ DOMAIN Held(new[r]) = {}
             \/ /\ m.kind = "Echo" /\ m.round = r
                /\ Gains(p, echo[p][r], new[r], m)
    BY <1>1, <1>4, RoutedEcho DEF EchoAt, Comes
  <2> HIDE DEF new
  <2>2. ASSUME NEW r \in Reliable, NEW q \in Honest \ {p},
               SlotOf(p, q) \in DOMAIN Held(new[r])
        PROVE  IsEchoOf(q, r, Held(new[r])[SlotOf(p, q)])
    <3>0. SlotOf(p, q) \in DOMAIN Held(echo[p][r])
            => IsEchoOf(q, r, Held(echo[p][r])[SlotOf(p, q)])
      BY <1>1 DEF EchoAt, EchoAuthentic
    <3>1. CASE new[r] = echo[p][r]
      BY <2>2, <3>0, <3>1
    <3>2. CASE m.kind = "Echo" /\ m.round = r /\ Gains(p, echo[p][r], new[r], m)
      <4>1. m.from = q => IsEchoOf(q, r, m.msg)
        BY <3>2 DEF Comes, GoodPacket
      <4>. QED
        BY <1>2, <2>2, <3>0, <3>2, <4>1 DEF Gains
    <3>. QED
      BY <2>1, <2>2, <3>1, <3>2
  <2>3. \A r \in Reliable : EchoAuthentic(p, r, new[r])
    BY <2>2 DEF EchoAuthentic
  <2>. QED
    BY <2>1, <2>3 DEF EchoAt, new
<1>. QED
  BY <1>3, <1>4

\* A party that awaits a round gets a message.
LEMMA HandleStep ==
    ASSUME Inv, NEW p \in Honest, pc[p] \in {"main", "echo"},
           NEW m, Comes(m), Handle(p, m)
    PROVE  /\ Progressed(p)
           /\ MainAt(p, main'[p]) /\ EchoAt(p, echo'[p])
<1>1. Shapes /\ MainAt(p, main[p]) /\ EchoAt(p, echo[p])
  BY EntriesNow DEF Inv
<1>2. CASE Overflows(m) /\ Fail(p, "panic") /\ UNCHANGED <<main, echo>>
  BY <1>2, FailStep
<1>3. CASE /\ ~ IsRegistered(RouterRound(m))
           /\ Fail(p, "UnregisteredRound") /\ UNCHANGED <<main, echo>>
  BY <1>3, FailStep
<1>4. CASE /\ IsRegistered(RouterRound(m)) /\ pc[p] = "main"
           /\ TryCompleteMain(p, RouteMain(main[p], m))
           /\ echo' = [echo EXCEPT ![p] = RouteEcho(@, m)]
  <2>1. /\ DOMAIN echo' = Honest /\ echo'[p] = RouteEcho(echo[p], m)
        /\ \A q \in Honest \ {p} : echo'[q] = echo[q]
    BY <1>1, <1>4 DEF Shapes
  <2>2. MainAt(p, RouteMain(main[p], m)) /\ EchoAt(p, RouteEcho(echo[p], m))
    BY <1>4, RouteKeeps
  <2>3. pc[p] \in Running
    BY <1>4 DEF Running
  <2>. QED
    BY <1>4, <2>1, <2>2, <2>3, TryMain
<1>5. CASE /\ IsRegistered(RouterRound(m)) /\ pc[p] = "echo"
           /\ TryCompleteEcho(p, RouteEcho(echo[p], m))
           /\ main' = [main EXCEPT ![p] = RouteMain(@, m)]
  <2>1. /\ DOMAIN main' = Honest /\ main'[p] = RouteMain(main[p], m)
        /\ \A q \in Honest \ {p} : main'[q] = main[q]
    BY <1>1, <1>5 DEF Shapes
  <2>2. MainAt(p, RouteMain(main[p], m)) /\ EchoAt(p, RouteEcho(echo[p], m))
    BY <1>5, RouteKeeps
  <2>3. \A k \in Rounds : main[p][k] = Gone => main'[p][k] = Gone
    BY <2>1, <2>2 DEF MainAt
  <2>4. pc[p] \in {"sendEcho", "echo"}
    BY <1>5
  <2>5. Progressed(p) /\ EchoAt(p, echo'[p])
    BY <1>5, <2>1, <2>2, <2>3, <2>4, TryEcho
  <2>. QED
    BY <2>1, <2>2, <2>5
<1>. QED
  BY <1>2, <1>3, <1>4, <1>5 DEF Handle

\* Handing a message over keeps what the party has; pc and error may change.
LEMMA HandStep ==
    ASSUME Inv, NEW p \in Honest, NEW r \in Rounds, NEW dest \in Destinations,
           NEW v \in Values, OnSendError(p, r, dest) = "none",
           NEW some, some \subseteq Honest, Hand(p, r, dest, v, some),
           pc[p] \in Running, pc'[p] \in {"idle", "sent", "failed"},
           pc' = [q \in Honest |-> pc'[q]],
           \A q \in Honest \ {p} : pc'[q] = pc[q],
           \/ UNCHANGED error
           \/ error' = [error EXCEPT ![p] = "Send"]
    PROVE  Inv'
<1>1. /\ Shapes /\ Where(p) /\ Bookkeeping(p) /\ GoodExposed(p)
      /\ MainAt(p, main[p]) /\ EchoAt(p, echo[p])
  BY EntriesNow DEF Inv, Local
<1>2. UNCHANGED <<rnd, main, echo, slots, check, exposed>>
  BY DEF Hand
<1>3. /\ DOMAIN sent' = Honest
      /\ \A q \in Honest \ {p} : sent'[q] = sent[q]
      /\ sent'[p] = IF r \in slots[p] THEN With(sent[p], r, v) ELSE sent[p]
  BY <1>1 DEF Hand, Shapes
<1>4. OthersKeep(p)
  BY <1>1, <1>2, <1>3 DEF Shapes, OthersKeep
<1>5. r \in slots[p] => r \notin DOMAIN sent[p]
  BY DEF OnSendError, Destinations
<1>6. /\ DOMAIN sent'[p] = IF r \in slots[p] THEN DOMAIN sent[p] \cup {r}
                                            ELSE DOMAIN sent[p]
      /\ r \in slots[p] => sent'[p][r] = v
      /\ \A k \in DOMAIN sent[p] : sent'[p][k] = sent[p][k]
  BY <1>3, <1>5 DEF With
<1>7. Bookkeeping(p)'
  BY <1>1, <1>2, <1>6 DEF Bookkeeping
<1>8. \A k, w : IsOwn(p, k, w) => IsOwn(p, k, w)'
  BY <1>2, <1>6 DEF IsOwn
<1>9. ChecksStay(p)
  BY <1>2, <1>8 DEF ChecksStay
<1>10. Where(p)'
  BY <1>1, <1>2, <1>4 DEF Where, Running
<1>11. GoodExposed(p)' /\ ExposedAgrees(p)
  BY <1>1, <1>2 DEF GoodExposed, ExposedAgrees
<1>12. \A k \in DOMAIN check'[p] : CheckAuthentic(p, k, check'[p][k])
  BY <1>2 DEF Inv, Authentic
<1>13. error'[p] = "MismatchedHash" => error[p] = "MismatchedHash"
  BY <1>1 DEF Shapes
<1>14. Progressed(p)
  BY <1>4, <1>7, <1>9, <1>10, <1>11, <1>12, <1>13 DEF Progressed
<1> DEFINE c == [sender |-> p, round |-> r, msg |-> v]
<1>15. /\ cast' = IF some = {} THEN cast ELSE cast \cup {c}
       /\ late' = IF some # {} /\ r \in Reliable \ slots[p]
                    THEN late \cup {p} ELSE late
       /\ c \in [sender : Honest, round : Rounds, msg : Values]
       /\ c.sender = p /\ c.round = r /\ c.msg = v
  BY DEF Hand
<1>16. cast \subseteq [sender : Honest, round : Rounds, msg : Values]
       /\ late \subseteq Honest
  BY DEF Inv, Authentic
<1>17. \A m \in net' : m \in net \/ GoodPacket(m)'
  <2> SUFFICES ASSUME NEW q \in some,
                      NEW m, m = Packet(p, q, "Main", r, WireType(dest), v)
               PROVE  GoodPacket(m)'
    BY DEF Hand
  <2>1. /\ m.from = p /\ m.to = q /\ m.kind = "Main" /\ m.round = r
        /\ m.msg = v
    BY DEF Packet
  <2>2. c \in cast'
    BY <1>15
  <2>. QED
    BY <2>1, <2>2 DEF GoodPacket, IsCast
<1>18. ASSUME NEW d \in cast', d \notin cast,
              d.round \in Reliable, d.sender \notin late'
       PROVE  IsOwn(d.sender, d.round, d.msg)'
  <2>1. d = c /\ some # {}
    BY <1>15, <1>18
  <2>2. r \in slots[p]
    BY <1>15, <1>18, <2>1
  <2>. QED
    BY <1>6, <1>15, <2>1, <2>2 DEF IsOwn
<1> HIDE DEF c
<1>. QED
  BY <1>1, <1>2, <1>14, <1>15, <1>16, <1>17, <1>18, StepKeeps

\* Messages go to honest parties.
LEMMA RecipientsFacts ==
    ASSUME NEW p \in Honest, NEW dest \in Destinations,
           NEW qs \in Recipients(p, dest)
    PROVE  qs \subseteq Honest
  BY DEF Recipients

\* send and SendMany::send.
LEMMA SendKeeps ==
    ASSUME Inv, NEW p \in Honest, NEW r \in Rounds, NEW dest \in Destinations,
           NEW v \in Values, Send(p, r, dest, v) \/ SendFails(p, r, dest, v)
    PROVE  Inv'
<1>1. pc[p] \in {"idle", "sent"} /\ OnSendError(p, r, dest) = "none"
  BY DEF Send, SendFails, MaySend
<1>2. pc = [q \in Honest |-> pc[q]]
  BY DEF Inv, Shapes
<1>3. CASE Send(p, r, dest, v)
  <2>1. PICK qs \in Recipients(p, dest) : Hand(p, r, dest, v, qs)
    BY <1>3 DEF Send
  <2>2. qs \subseteq Honest
    BY RecipientsFacts
  <2>3. /\ pc' = [q \in Honest |-> pc'[q]]
        /\ \A q \in Honest \ {p} : pc'[q] = pc[q]
        /\ pc'[p] = "sent" /\ pc[p] \in Running /\ UNCHANGED error
    BY <1>1, <1>2, <1>3 DEF Send, Running
  <2>. QED
    BY <1>1, <2>1, <2>2, <2>3, HandStep
<1>4. CASE SendFails(p, r, dest, v)
  <2>1. PICK qs \in Recipients(p, dest) :
            \E some \in SUBSET qs : Hand(p, r, dest, v, some)
    BY <1>4 DEF SendFails
  <2>2. PICK some \in SUBSET qs : Hand(p, r, dest, v, some)
    BY <2>1
  <2>3. some \subseteq Honest
    BY RecipientsFacts
  <2>4. \/ /\ pc' = [pc EXCEPT ![p] = "failed"]
           /\ error' = [error EXCEPT ![p] = "Send"]
        \/ UNCHANGED <<pc, error>>
    BY <1>4 DEF SendFails
  <2>5. /\ pc' = [q \in Honest |-> pc'[q]]
        /\ \A q \in Honest \ {p} : pc'[q] = pc[q]
        /\ pc'[p] \in {"idle", "sent", "failed"} /\ pc[p] \in Running
    BY <1>1, <1>2, <2>4 DEF Running
  <2>. QED
    BY <1>1, <2>2, <2>3, <2>4, <2>5, HandStep
<1>. QED
  BY <1>3, <1>4

\* A step that neither sends a message nor records one.
LEMMA QuietStepKeeps ==
    ASSUME Inv, NEW p \in Honest, Progressed(p),
           MainAt(p, main'[p]), EchoAt(p, echo'[p]),
           UNCHANGED <<cast, late>>,
           \A m \in net' : m \in net \/ GoodPacket(m)'
    PROVE  Inv'
<1>1. cast \subseteq [sender : Honest, round : Rounds, msg : Values]
      /\ late \subseteq Honest
  BY DEF Inv, Authentic
<1>. QED
  BY <1>1, StepKeeps

\* on_send refuses: nothing is sent.
LEMMA RefusedKeeps ==
    ASSUME Inv, NEW p \in Honest, NEW r \in Rounds, NEW dest \in Destinations,
           SendRefused(p, r, dest)
    PROVE  Inv'
<1>1. OnSendError(p, r, dest) # "MismatchedHash"
  BY DEF OnSendError, Destinations
<1>2. Fail(p, OnSendError(p, r, dest)) /\ UNCHANGED <<main, echo, net, cast, late>>
  BY DEF SendRefused
<1>. QED
  BY <1>1, <1>2, FailStep, QuietStepKeeps

\* The first poll of complete moves its party on.
LEMMA CompleteStep ==
    ASSUME Inv, NEW p \in Honest, Complete(p)
    PROVE  Progressed(p) /\ MainAt(p, main'[p]) /\ EchoAt(p, echo'[p])
<1>1. Shapes /\ MainAt(p, main[p]) /\ EchoAt(p, echo[p])
  BY EntriesNow DEF Inv
<1>2. /\ pc[p] \in Running /\ TryCompleteMain(p, main[p])
      /\ UNCHANGED <<echo, net, cast, late>>
  BY DEF Complete, Running
<1>3. DOMAIN echo' = Honest /\ \A q \in Honest \ {p} : echo'[q] = echo[q]
  BY <1>1, <1>2 DEF Shapes
<1>. QED
  BY <1>1, <1>2, <1>3, TryMain

\* The first poll of complete keeps the invariant.
LEMMA CompleteKeeps ==
    ASSUME Inv, NEW p \in Honest, Complete(p)
    PROVE  Inv'
<1>1. UNCHANGED <<net, cast, late>>
  BY DEF Complete
<1>. QED
  BY <1>1, CompleteStep, QuietStepKeeps

\* The future of complete is dropped.
LEMMA CancelKeeps ==
    ASSUME Inv, NEW p \in Honest, CancelComplete(p)
    PROVE  Inv'
<1>1. /\ Shapes /\ Where(p) /\ GoodExposed(p)
      /\ MainAt(p, main[p]) /\ EchoAt(p, echo[p])
  BY EntriesNow DEF Inv, Local
<1>2. /\ UNCHANGED <<main, echo, sent, slots, check, exposed, error, net,
                     cast, late>>
      /\ rnd' = [rnd EXCEPT ![p] = @ + 1]
      /\ pc' = [pc EXCEPT ![p] = IF rnd[p] + 1 = R THEN "done" ELSE "idle"]
      /\ pc[p] \in Running
  BY DEF CancelComplete, Running
<1>3. OthersKeep(p)
  BY <1>1, <1>2 DEF Shapes, OthersKeep
<1>4. /\ Bookkeeping(p)' /\ ChecksStay(p)
      /\ \A k \in DOMAIN check'[p] : CheckAuthentic(p, k, check'[p][k])
  BY <1>2, NothingCollected
<1>5. Where(p)'
  <2>1. /\ rnd[p] \in Nat /\ R \in Nat /\ rnd[p] < R
        /\ rnd'[p] = rnd[p] + 1
        /\ pc'[p] = IF rnd[p] + 1 = R THEN "done" ELSE "idle"
    BY <1>1, <1>2, EchoAssumption DEF Where, Shapes
  <2>. QED
    BY <2>1 DEF Where, Running
<1>6. GoodExposed(p)' /\ ExposedAgrees(p)
  BY <1>1, <1>2 DEF GoodExposed, ExposedAgrees
<1>7. Progressed(p)
  BY <1>2, <1>3, <1>4, <1>5, <1>6 DEF Progressed
<1>. QED
  BY <1>1, <1>2, <1>7, QuietStepKeeps

\* The echoes that p sends are the hash of its check.
LEMMA EchoPackets ==
    ASSUME Inv, NEW p \in Honest, pc[p] = "sendEcho", Progressed(p),
           \A m \in net' :
               m \in net \cup Broadcast(p, "Echo", rnd[p], check[p][rnd[p]].hash)
    PROVE  \A m \in net' : m \in net \/ GoodPacket(m)'
<1> DEFINE r == rnd[p]
<1>1. r \in DOMAIN check[p]
  BY DEF Inv, Local, Where
<1>2. r \in DOMAIN check'[p] /\ check'[p][r] = check[p][r]
  BY <1>1 DEF Progressed, ChecksStay
<1> SUFFICES ASSUME NEW m \in Broadcast(p, "Echo", r, check[p][r].hash)
             PROVE  GoodPacket(m)'
  OBVIOUS
<1>3. PICK q \in UNION Recipients(p, "All") :
          m = Packet(p, q, "Echo", r, "Broadcast", check[p][r].hash)
  BY DEF Broadcast
<1>4. q \in Honest
  BY DEF Recipients
<1>5. /\ m.from = p /\ m.to = q /\ m.kind = "Echo" /\ m.round = r
      /\ m.msg = check[p][r].hash
  BY <1>3 DEF Packet
<1>. QED
  BY <1>2, <1>4, <1>5 DEF GoodPacket, IsEchoOf

\* Sending the hash moves the party on.
LEMMA SendEchoStep ==
    ASSUME Inv, NEW p \in Honest, SendEcho(p) \/ SendEchoFails(p)
    PROVE  Progressed(p) /\ MainAt(p, main'[p]) /\ EchoAt(p, echo'[p])
<1>1. Shapes /\ MainAt(p, main[p]) /\ EchoAt(p, echo[p])
  BY EntriesNow DEF Inv
<1>2. CASE SendEcho(p)
  <2>1. pc[p] = "sendEcho" /\ TryCompleteEcho(p, echo[p]) /\ UNCHANGED main
    BY <1>2 DEF SendEcho
  <2>2. /\ DOMAIN main' = Honest /\ \A q \in Honest \ {p} : main'[q] = main[q]
        /\ \A k \in Rounds : main[p][k] = Gone => main'[p][k] = Gone
    BY <1>1, <2>1 DEF Shapes
  <2>3. Progressed(p) /\ EchoAt(p, echo'[p])
    BY <1>1, <2>1, <2>2, TryEcho
  <2>. QED
    BY <1>1, <2>1, <2>3
<1>3. CASE SendEchoFails(p)
  <2>1. Fail(p, "Send") /\ UNCHANGED <<main, echo>>
    BY <1>3 DEF SendEchoFails
  <2>. QED
    BY <2>1, FailStep
<1>. QED
  BY <1>2, <1>3

\* Sending the hash keeps the invariant.
LEMMA SendEchoKeeps ==
    ASSUME Inv, NEW p \in Honest, SendEcho(p) \/ SendEchoFails(p)
    PROVE  Inv'
<1>1. Progressed(p) /\ MainAt(p, main'[p]) /\ EchoAt(p, echo'[p])
  BY SendEchoStep
<1>2. pc[p] = "sendEcho" /\ UNCHANGED <<cast, late>>
  BY DEF SendEcho, SendEchoFails
<1>3. \A m \in net' :
        m \in net \cup Broadcast(p, "Echo", rnd[p], check[p][rnd[p]].hash)
  BY DEF SendEcho, SendEchoFails
<1>4. \A m \in net' : m \in net \/ GoodPacket(m)'
  BY <1>1, <1>2, <1>3, EchoPackets
<1>. QED
  BY <1>1, <1>2, <1>4, QuietStepKeeps

\* A message is received while complete waits, from anybody.
LEMMA ReceiveKeeps ==
    ASSUME Inv, NEW p \in Honest, NEW m,
           \/ m \in net /\ Receive(p, m)
           \/ m \in ByzPackets(p) /\ ReceiveByz(p, m)
    PROVE  Inv'
<1>1. /\ pc[p] \in {"main", "echo"} /\ Handle(p, m)
      /\ UNCHANGED <<cast, late>> /\ net' \subseteq net
  BY DEF Receive, ReceiveByz
<1>2. Comes(m)
  BY NetComes, ByzComes
<1>3. Progressed(p) /\ MainAt(p, main'[p]) /\ EchoAt(p, echo'[p])
  BY <1>1, <1>2, HandleStep
<1>. QED
  BY <1>1, <1>3, QuietStepKeeps

\* Stuttering keeps the invariant.
LEMMA InvStutter == Inv /\ UNCHANGED vars => Inv'
<1> SUFFICES ASSUME Inv, UNCHANGED vars PROVE Inv'
  OBVIOUS
<1>1. UNCHANGED <<pc, rnd, main, echo, sent, slots, check, exposed, error, net,
                  cast, late>>
  BY DEF vars
<1>2. Shapes'
  BY <1>1 DEF Inv, Shapes
<1>3. \A p \in Honest : Local(p)'
  BY <1>1 DEF Inv, Local, Where, Bookkeeping, GoodExposed
<1>4. Authentic'
  BY <1>1 DEF Inv, Authentic, GoodPacket, IsCast, IsEchoOf, MainAuthentic,
              EchoAuthentic, CheckAuthentic
<1>5. HashesAgree' /\ OwnIsHashed' /\ MismatchMeansDishonest'
  BY <1>1 DEF Inv, HashesAgree, OwnIsHashed, IsOwn, MismatchMeansDishonest
<1>. QED
  BY <1>2, <1>3, <1>4, <1>5 DEF Inv

\* Every step keeps the invariant.
LEMMA InvStep == Inv /\ [Next]_vars => Inv'
<1> SUFFICES ASSUME Inv, [Next]_vars PROVE Inv'
  OBVIOUS
<1>1. CASE UNCHANGED vars
  BY <1>1, InvStutter
<1>2. CASE Next
  <2>1. PICK p \in Honest :
          \/ \E r \in Rounds, dest \in Destinations :
                \/ \E v \in Values :
                      Send(p, r, dest, v) \/ SendFails(p, r, dest, v)
                \/ SendRefused(p, r, dest)
          \/ Complete(p) \/ CancelComplete(p)
          \/ SendEcho(p) \/ SendEchoFails(p)
          \/ \E m \in {x \in net : x.to = p} : Receive(p, m)
          \/ \E m \in ByzPackets(p) : ReceiveByz(p, m)
    BY <1>2 DEF Next
  <2>. QED
    BY <2>1, SendKeeps, RefusedKeeps, CompleteKeeps, CancelKeeps,
       SendEchoKeeps, ReceiveKeeps
<1>. QED
  BY <1>1, <1>2

\* The invariant holds when all parties have been set up.
LEMMA InvInit == Init => Inv
<1> SUFFICES ASSUME Init PROVE Inv
  OBVIOUS
<1>1. Shapes
  BY DEF Init, Shapes
<1>2. /\ DOMAIN NoMessages = {}
  BY DEF NoMessages
<1>3. ASSUME NEW p \in Honest
      PROVE  /\ MainEntries(p, main[p]) /\ EchoEntries(p, echo[p])
             /\ \A r \in Rounds : DOMAIN Held(main[p][r]) = {}
             /\ \A r \in Reliable : DOMAIN Held(echo[p][r]) = {}
  <2>0. p \in Parties /\ N \in Nat /\ N >= 2
    BY EchoAssumption
  <2>1. ASSUME NEW type, NEW M
        PROVE  LET e == Ongoing(RoundInputNew(p, N, type), NoMessages)
               IN  /\ GoodEntry(p, type, M, e)
                   /\ CopiesAgree(p, e)
                   /\ DOMAIN Held(e) = {}
    <3> DEFINE store == RoundInputNew(p, N, type)
               e == Ongoing(store, NoMessages)
    <3>1. /\ store \in RoundInputs(p, N, type, M) /\ Counted(store)
          /\ DOMAIN store.messages = {}
      BY <2>0, NewStore
    <3> HIDE DEF store
    <3>2. NoMessages \in [{} -> Values]
      BY DEF NoMessages
    <3>3. NoMessages \in UNION {[S -> Values] : S \in SUBSET Parties}
      BY <3>2
    <3>4. e.st = "Ongoing" /\ e.store = store /\ e.received = NoMessages
      BY DEF Ongoing
    <3>5. e \in Entries(p, type, M)
      BY <3>1, <3>3 DEF Entries, Ongoing
    <3> HIDE DEF e
    <3>. QED
      BY <1>2, <3>1, <3>4, <3>5 DEF GoodEntry, CopiesAgree, Held, e, store
  <2>2. main[p] = [r \in Rounds |-> NewMain(p, r)]
        /\ echo[p] = [r \in Reliable |-> NewEcho(p)]
    BY DEF Init
  <2>3. ASSUME NEW r \in Rounds
        PROVE  GoodMain(p, r, main[p][r]) /\ DOMAIN Held(main[p][r]) = {}
    BY <2>1, <2>2 DEF NewMain, GoodMain
  <2>4. ASSUME NEW r \in Reliable
        PROVE  GoodEcho(p, echo[p][r]) /\ DOMAIN Held(echo[p][r]) = {}
    BY <2>1, <2>2 DEF NewEcho, GoodEcho
  <2>. QED
    BY <2>2, <2>3, <2>4 DEF MainEntries, EchoEntries
<1>4. ASSUME NEW p \in Honest
      PROVE  Local(p)
  <2>1. Where(p)
    BY EchoAssumption DEF Init, Where, Running
  <2>2. Bookkeeping(p)
    BY <1>2 DEF Init, Bookkeeping
  <2>3. GoodExposed(p)
    BY <1>2 DEF Init, GoodExposed
  <2>. QED
    BY <1>3, <2>1, <2>2, <2>3 DEF Local
<1>5. Authentic
  BY <1>2, <1>3 DEF Init, Authentic, MainAuthentic, EchoAuthentic
<1>6. HashesAgree /\ OwnIsHashed /\ MismatchMeansDishonest
  BY <1>2 DEF Init, HashesAgree, OwnIsHashed, MismatchMeansDishonest
<1>. QED
  BY <1>1, <1>4, <1>5, <1>6 DEF Inv

-----------------------------------------------------------------------------
\* The inductive invariant holds in every reachable state.
THEOREM InvCorrect == Spec => []Inv
<1>. QED
  BY InvInit, InvStep, PTL DEF Spec

\* The parties' state keeps its types, whatever the dishonest parties send and
\* whatever a careless protocol does.
THEOREM TypeCorrect == Spec => []TypeOK
<1>1. ASSUME Inv PROVE TypeOK
  <2>1. /\ pc \in [Honest -> {"idle", "sent", "main", "sendEcho", "echo",
                              "done", "failed"}]
        /\ rnd \in [Honest -> 0 .. R]
    BY <1>1 DEF Inv, Shapes, Local, Where, Running
  <2>2. ASSUME NEW p \in Honest
        PROVE  /\ DOMAIN main[p] = Rounds /\ DOMAIN echo[p] = Reliable
               /\ \A r \in Rounds :
                    main[p][r] \in Entries(p, Stores[r].type, Values)
               /\ \A r \in Reliable :
                    echo[p][r] \in Entries(p, "Broadcast", EchoHashes)
    BY <1>1 DEF Inv, Local, MainEntries, EchoEntries, GoodMain, GoodEcho,
                GoodEntry
  <2>3. ASSUME NEW p \in Honest
        PROVE  /\ slots[p] \subseteq Reliable
               /\ DOMAIN sent[p] \subseteq slots[p]
               /\ \A r \in DOMAIN sent[p] : sent[p][r] \in Values
               /\ DOMAIN check[p] \subseteq Reliable
               /\ \A r \in DOMAIN check[p] :
                    check[p][r] \in [out : Outputs(p, Values), hash : Hashes]
               /\ DOMAIN exposed[p] \subseteq Rounds
               /\ \A r \in DOMAIN exposed[p] :
                    exposed[p][r] \in Outputs(p, Values)
    BY <1>1 DEF Inv, Local, Bookkeeping, GoodCheck, GoodExposed
  <2>4. /\ \A m \in net : m.from \in Honest /\ m.to \in Honest
        /\ cast \subseteq [sender : Honest, round : Rounds, msg : Values]
        /\ late \subseteq Honest
    BY <1>1 DEF Inv, Authentic, GoodPacket
  <2>. QED
    BY <2>1, <2>2, <2>3, <2>4 DEF TypeOK, EchoHashes
<1>. QED
  BY <1>1, InvCorrect, PTL

\* The messages that are hashed are the messages that are given to the
\* protocol (MainRound::add_message keeps each message twice).
THEOREM HashCoversCorrect == Spec => []HashCoversOutput
<1>1. Inv => HashCoversOutput
  BY DEF Inv, Local, Bookkeeping, GoodCheck, HashCoversOutput
<1>. QED
  BY <1>1, InvCorrect, PTL

\* Mismatched hashes are reported only if a party is dishonest or one sent in
\* a reliable round that it had collected already.
THEOREM MismatchCorrect == Spec => []MismatchMeansDishonest
<1>1. Inv => MismatchMeansDishonest
  BY DEF Inv
<1>. QED
  BY <1>1, InvCorrect, PTL

\* Reliable broadcast, for any number of parties of which any are dishonest:
\* once complete has given a party the messages of a reliable round, every
\* honest party has collected the same message of every sender.
THEOREM AgreementCorrect == Spec => []Agreement
<1>1. ASSUME Inv PROVE Agreement
  <2> SUFFICES ASSUME NEW p \in Honest, NEW q \in Honest, NEW r \in Reliable,
                      r \in DOMAIN exposed[p]
               PROVE  /\ r \in DOMAIN check[q]
                      /\ \A s \in Parties \ {p} :
                           HoldsFor(q, r, s,
                                    exposed[p][r].messages[SlotOf(p, s)])
    BY DEF Agreement
  <2>1. /\ r \in DOMAIN check[p] /\ r \in DOMAIN check[q]
        /\ check[q][r].hash = check[p][r].hash
        /\ exposed[p][r] = check[p][r].out
    BY <1>1 DEF Inv, HashesAgree, Local, GoodExposed
  <2>2. GoodCheck(p, r, check[p][r]) /\ GoodCheck(q, r, check[q][r])
    BY <1>1, <2>1 DEF Inv, Local, Bookkeeping
  <2>3. /\ p \in Parties /\ q \in Parties
        /\ Others(p, N) = Parties \ {p} /\ Others(q, N) = Parties \ {q}
    BY EchoAssumption, PartiesFacts
  <2>4. ASSUME NEW s \in Parties \ {p}
        PROVE  HoldsFor(q, r, s, exposed[p][r].messages[SlotOf(p, s)])
    <3>1. /\ s \in DOMAIN check[p][r].hash.msgs
          /\ check[p][r].hash.msgs[s] = exposed[p][r].messages[SlotOf(p, s)]
      BY <2>1, <2>2, <2>3 DEF GoodCheck
    <3>2. CASE s = q
      BY <2>1, <3>1, <3>2 DEF HoldsFor
    <3>3. CASE s # q
      BY <2>1, <2>2, <2>3, <3>1, <3>3 DEF HoldsFor, GoodCheck
    <3>. QED
      BY <3>2, <3>3
  <2>. QED
    BY <2>1, <2>4
<1>. QED
  BY <1>1, InvCorrect, PTL
=============================================================================
