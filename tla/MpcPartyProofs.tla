--------------------------- MODULE MpcPartyProofs ---------------------------
(***************************************************************************)
(* Proofs about MpcParty for every number of parties, every set of rounds  *)
(* and every set of messages the network may hand over.                    *)
(***************************************************************************)
EXTENDS MpcParty, RoundInputProofs

(***************************************************************************)
(* Types.  The stores in progress must be counted right, for only then is  *)
(* a store that wants no more messages full and its output well formed.    *)
(***************************************************************************)
RoundOK(r, round) ==
    /\ round \in RoundStates(r)
    /\ round.st = "InProgress" => /\ r \notin Empty
                                  /\ Counted(round.store)
                                  /\ WantsMore(round.store)

RoundsOK == \A r \in Rounds : RoundOK(r, rounds[r])

CurOK == pc = "completing" => cur \in Rounds

LEMMA OkIsResult ==
    ASSUME NEW out \in Outputs
    PROVE  Ok(out) \in RoundResults
    BY DEF Ok, RoundResults

LEMMA ErrIsResult ==
    ASSUME NEW e \in MessageErrors \cup {StoreDidntOutput}
    PROVE  Err(e) \in RoundResults
    BY DEF Err, RoundResults

LEMMA CompletedOK ==
    ASSUME NEW r, NEW res \in RoundResults
    PROVE  RoundOK(r, Completed(res))
    BY DEF RoundOK, Completed, RoundStates

\* A store, empty or with the messages accepted so far, becomes a round of
\* the right type.
LEMMA SettleOK ==
    ASSUME NEW r \in Rounds, NEW store \in Stores(r), Counted(store),
           r \in Empty => DOMAIN store.messages = {}
    PROVE  RoundOK(r, Settle(r, store))
<1>1. CASE StoreWantsMore(r, store)
  BY <1>1 DEF StoreWantsMore, Settle, RoundOK, RoundStates, InProgress
<1>2. CASE ~ StoreWantsMore(r, store)
  <2>1. Settle(r, store) = Completed(StoreOutput(r, store))
    BY <1>2 DEF Settle
  <2>2. Output(store) \in Outputs
    <3>1. store.i = Me /\ store.ids \in [Slots(N) -> Nat]
      BY DEF Stores, RoundInputs
    <3>2. CASE r \in Empty
      <4>1. Cardinality(DOMAIN store.messages) = 0
        BY <3>2, FS_EmptySet
      <4>2. Flatten(store.messages) \in [0 .. (0 - 1) -> Msg]
        BY <4>1 DEF Flatten
      <4>3. 0 \in 0 .. (N - 1)
        BY PartyAssumption
      <4>. QED
        BY <3>1, <4>2, <4>3 DEF Output, Outputs
    <3>3. CASE r \notin Empty
      <4>1. ~ WantsMore(store)
        BY <1>2, <3>3 DEF StoreWantsMore
      <4>2. /\ store.messages \in [Slots(N) -> Msg]
            /\ Output(store) = [i |-> Me, ids |-> store.ids,
                                messages |-> store.messages]
        BY <4>1, FullStore, PartyAssumption DEF Stores
      <4>3. N - 1 \in 0 .. (N - 1) /\ Slots(N) = 0 .. ((N - 1) - 1)
        BY PartyAssumption DEF Slots
      <4>. QED
        BY <3>1, <4>2, <4>3 DEF Outputs
    <3>. QED
      BY <3>2, <3>3
  <2>3. StoreOutput(r, store) \in RoundResults
    BY <2>2, OkIsResult, ErrIsResult DEF StoreOutput
  <2>. QED
    BY <2>1, <2>3, CompletedOK
<1>. QED
  BY <1>1, <1>2

LEMMA NewRoundOK ==
    ASSUME NEW r \in Rounds
    PROVE  RoundOK(r, NewRound(r))
<1> DEFINE store == RoundInputNew(Me, N, TypeOf[r])
<1>1. store \in Stores(r) /\ Counted(store) /\ DOMAIN store.messages = {}
  BY NewStore, PartyAssumption DEF Stores
<1>. QED
  BY <1>1, SettleOK DEF NewRound

LEMMA AddMessageErrorType ==
    ASSUME NEW r \in Rounds, NEW store \in Stores(r),
           NEW m \in IncomingMessages, AddMessageError(store, m) # NoError
    PROVE  AddMessageError(store, m) \in MessageErrors
<1>1. /\ store.i = Me /\ store.n = N /\ store.expected = TypeOf[r]
      /\ store.ids \in [Slots(N) -> Nat] /\ TypeOf[r] \in MessageTypes
  BY RoundsAssumption DEF Stores, RoundInputs
<1>2. m.id \in Nat /\ m.sender \in Nat /\ m.type \in MessageTypes
  BY DEF IncomingMessages
<1>3. MismatchedMessageType(m.id, TypeOf[r], m.type) \in MessageErrors
  BY <1>1, <1>2 DEF MismatchedMessageType, MessageErrors
<1>4. SenderIndexOutOfRange(m.id, m.sender, N) \in MessageErrors
  BY <1>1, <1>2 DEF SenderIndexOutOfRange, MessageErrors
<1>5. \A s \in Slots(N) :
        AttemptToOverwriteReceivedMsg(store.ids[s], m.id, m.sender)
            \in MessageErrors
  BY <1>1, <1>2 DEF AttemptToOverwriteReceivedMsg, MessageErrors
<1>. QED
  BY <1>1, <1>3, <1>4, <1>5 DEF AddMessageError

LEMMA AcceptedStore ==
    ASSUME NEW r \in Rounds, NEW store \in Stores(r), Counted(store),
           NEW m \in IncomingMessages, AddMessageError(store, m) = NoError
    PROVE  AddMessage(store, m) \in Stores(r) /\ Counted(AddMessage(store, m))
<1>1. store.i = Me
  BY DEF Stores, RoundInputs
<1>2. CASE m.sender = Me
  BY <1>1, <1>2 DEF AddMessage
<1>3. CASE m.sender # Me
  <2>1. m.sender \in Nat /\ m.id \in Nat /\ m.msg \in Msg
    BY DEF IncomingMessages
  <2>. QED
    BY <1>3, <2>1, AddedMessage, PartyAssumption DEF Stores
<1>. QED
  BY <1>2, <1>3

LEMMA ProcessMessageOK ==
    ASSUME NEW r \in Rounds \ Empty, NEW store \in Stores(r), Counted(store),
           NEW m \in IncomingMessages
    PROVE  RoundOK(r, ProcessMessage(r, store, m))
<1>1. CASE m.variant # r
  <2>1. MessageFromAnotherRound(m.round, r) \in MessageErrors
    BY RoundsAssumption
       DEF MessageFromAnotherRound, MessageErrors, IncomingMessages
  <2>. QED
    BY <1>1, <2>1, ErrIsResult, CompletedOK DEF ProcessMessage
<1>2. CASE m.variant = r /\ AddMessageError(store, m) # NoError
  BY <1>2, AddMessageErrorType, ErrIsResult, CompletedOK DEF ProcessMessage
<1>3. CASE m.variant = r /\ AddMessageError(store, m) = NoError
  BY <1>3, AcceptedStore, SettleOK DEF ProcessMessage
<1>. QED
  BY <1>1, <1>2, <1>3

\* What the router becomes when it gets a message of a registered round.
LEMMA ReceivedMsgOK ==
    ASSUME DOMAIN rounds = Rounds, RoundsOK, NEW m \in IncomingMessages,
           m.round \in Rounds
    PROVE  /\ DOMAIN ReceivedMsg(m) = Rounds
           /\ \A r \in Rounds : RoundOK(r, ReceivedMsg(m)[r])
<1>1. CASE NeedsMoreMessages(rounds[m.round])
  <2>1. /\ m.round \in Rounds \ Empty
        /\ rounds[m.round].store \in Stores(m.round)
        /\ Counted(rounds[m.round].store)
    BY <1>1 DEF NeedsMoreMessages, RoundsOK, RoundOK, RoundStates,
                Unregistered, Gone
  <2>2. RoundOK(m.round,
                ProcessMessage(m.round, rounds[m.round].store, m))
    BY <2>1, ProcessMessageOK
  <2>. QED
    BY <1>1, <2>2 DEF ReceivedMsg, RoundsOK
<1>2. CASE ~ NeedsMoreMessages(rounds[m.round])
  BY <1>2 DEF ReceivedMsg, RoundsOK
<1>. QED
  BY <1>1, <1>2

LEMMA CallErrorTypes ==
    /\ Err(AlreadyTaken) \in CallResults
    /\ Err(IoError) \in CallResults
    /\ Err(UnexpectedEof) \in CallResults
    /\ Err(MismatchedOutputType) \in CallResults
    /\ Err(MismatchedErrorType) \in CallResults
    /\ \A n \in Nat, b \in BOOLEAN : Err(UnregisteredRound(n, b)) \in CallResults
    BY DEF Err, CallResults, CallErrors, UnregisteredRound

LEMMA ReturnType ==
    ASSUME NEW STATE r, r \in Rounds, NEW STATE res, res \in CallResults,
           returned \in [Rounds -> Seq(CallResults)], Return(r, res)
    PROVE  /\ pc' = "idle" /\ cur' = NoRound /\ claim' = NoClaim
           /\ returned' \in [Rounds -> Seq(CallResults)]
    BY DEF Return

\* A failed downcast is the only way not to return the outcome.
LEMMA DowncastType ==
    ASSUME NEW r, NEW res, NEW by
    PROVE  \/ Downcast(r, res, by) = res /\ ~ Mistyped(r, res, by)
           \/ /\ Downcast(r, res, by) = Err(MismatchedOutputType)
              /\ by = "foreign" /\ r \in OtherOutput
              /\ Mistyped(r, res, by)
           \/ /\ Downcast(r, res, by) = Err(MismatchedErrorType)
              /\ by = "foreign" /\ r \in OtherError
              /\ Mistyped(r, res, by)
    BY DEF Downcast, Mistyped

\* The check of the awaited round, at the start of complete and after every
\* message, keeps the types.
LEMMA TryCompleteOK ==
    ASSUME NEW STATE rs, NEW STATE r, NEW STATE by,
           r \in Rounds, DOMAIN rs = Rounds,
           \A q \in Rounds : RoundOK(q, rs[q]),
           returned \in [Rounds -> Seq(CallResults)],
           by \in {NoClaim, "own", "foreign"},
           TryComplete(rs, r, by)
    PROVE  /\ pc' \in {"idle", "completing"}
           /\ cur' \in Rounds \cup {NoRound}
           /\ claim' \in {NoClaim, "own", "foreign"}
           /\ CurOK'
           /\ DOMAIN rounds' = Rounds
           /\ \A q \in Rounds : RoundOK(q, rounds'[q])
           /\ returned' \in [Rounds -> Seq(CallResults)]
<1>1. CASE NeedsMoreMessages(rs[r])
  BY <1>1 DEF TryComplete, CurOK
<1>2. CASE ~ NeedsMoreMessages(rs[r])
  <2>1. /\ rounds' = [rs EXCEPT ![r] = AfterTake(rs[r])]
        /\ Return(r, RoundResult(r, rs[r], by))
    BY <1>2 DEF TryComplete
  <2>2. RoundOK(r, AfterTake(rs[r]))
    BY DEF AfterTake, RoundOK, RoundStates, Gone
  <2>3. RoundResult(r, rs[r], by) \in CallResults
    <3>1. rs[r] \in {Unregistered, Gone}
                \cup [st : {"Completed"}, res : RoundResults]
      BY <1>2 DEF NeedsMoreMessages, RoundOK, RoundStates
    <3>2. CASE rs[r] = Unregistered
      <4>1. RoundResult(r, rs[r], by) = Err(UnregisteredRound(r, TRUE))
        BY <3>2 DEF RoundResult, Unregistered
      <4>2. r \in Nat
        BY RoundsAssumption
      <4>. QED
        BY <4>1, <4>2, CallErrorTypes
    <3>3. CASE rs[r] = Gone
      BY <3>3, CallErrorTypes DEF RoundResult, Gone
    <3>4. CASE rs[r] \in [st : {"Completed"}, res : RoundResults]
      <4>1. /\ RoundResult(r, rs[r], by) = Downcast(r, rs[r].res, by)
            /\ rs[r].res \in CallResults
        BY <3>4 DEF RoundResult, CallResults
      <4>. QED
        BY <4>1, DowncastType, CallErrorTypes
    <3>. QED
      BY <3>1, <3>2, <3>3, <3>4
  <2>4. /\ pc' = "idle" /\ cur' = NoRound /\ claim' = NoClaim
        /\ returned' \in [Rounds -> Seq(CallResults)]
    BY <2>1, <2>3, ReturnType
  <2>5. DOMAIN rounds' = Rounds /\ \A q \in Rounds : RoundOK(q, rounds'[q])
    BY <2>1, <2>2
  <2>. QED
    BY <2>4, <2>5 DEF CurOK
<1>. QED
  BY <1>1, <1>2

LEMMA IncomingType ==
    ASSUME NEW w \in Wire, log \in Seq(IncomingMessages)
    PROVE  /\ Incoming(w) \in IncomingMessages
           /\ Incoming(w).round = w.round
           /\ Incoming(w).id = Len(log) + 1
           /\ Append(log, Incoming(w)) \in Seq(IncomingMessages)
<1>1. /\ w.round \in Nat /\ w.variant \in Nat /\ w.sender \in Nat
      /\ w.type \in MessageTypes /\ w.msg \in Msg
  BY WireAssumption DEF Message
<1>2. Len(log) + 1 \in Nat
  OBVIOUS
<1>3. Incoming(w) \in IncomingMessages
  BY <1>1, <1>2 DEF Incoming, IncomingMessages
<1>. QED
  BY <1>3 DEF Incoming

TypeInv == TypeOK /\ RoundsOK /\ CurOK

LEMMA TypeInit == Init => TypeInv
<1>1. ASSUME NEW r
      PROVE  RoundOK(r, Unregistered)
  BY DEF RoundOK, RoundStates, Unregistered
<1>2. ASSUME NEW r \in Rounds, Init
      PROVE  rounds[r] = Unregistered
  BY <1>2 DEF Init
<1>3. Init => RoundsOK /\ \A r \in Rounds : rounds[r] \in RoundStates(r)
  BY <1>1, <1>2 DEF RoundsOK, RoundOK
<1>4. Init => /\ returned \in [Rounds -> Seq(CallResults)]
              /\ log \in Seq(IncomingMessages)
  BY DEF Init
<1>5. Init => sendFailed \in BOOLEAN
  BY DEF Init
<1>6. Init => /\ pc = "setup" /\ cur = NoRound /\ claim = NoClaim
              /\ DOMAIN rounds = Rounds
              /\ witnesses = {} /\ foreign = Foreign
              /\ unflushed \in 0 .. MaxFeed
  BY BoundsAssumption DEF Init
<1>. QED
  BY <1>3, <1>4, <1>5, <1>6, RoundsAssumption DEF TypeInv, TypeOK, CurOK

LEMMA TypeNext == TypeInv /\ [Next]_vars => TypeInv'
<1> SUFFICES ASSUME TypeInv, [Next]_vars
             PROVE  TypeInv'
  OBVIOUS
<1> USE DEF TypeInv
<1>1. ASSUME NEW r \in Rounds, AddRound(r)
      PROVE  TypeInv'
  <2>1. /\ DOMAIN rounds' = Rounds
        /\ \A q \in Rounds : RoundOK(q, rounds'[q])
    BY <1>1, NewRoundOK DEF AddRound, TypeOK, RoundsOK
  <2>2. RoundsOK' /\ (\A q \in Rounds : rounds[q] \in RoundStates(q))'
    BY <2>1 DEF RoundsOK, RoundOK
  <2>. QED
    BY <1>1, <2>1, <2>2 DEF AddRound, TypeOK, CurOK
<1>2. ASSUME NEW r \in Rounds, Complete(r) \/ CompleteForeign(r)
      PROVE  TypeInv'
  <2>1. PICK by \in {"own", "foreign"} : TryComplete(rounds, r, by)
    BY <1>2 DEF Complete, CompleteForeign
  <2>2. /\ pc' \in {"idle", "completing"}
        /\ cur' \in Rounds \cup {NoRound}
        /\ claim' \in {NoClaim, "own", "foreign"}
        /\ CurOK'
        /\ DOMAIN rounds' = Rounds
        /\ \A q \in Rounds : RoundOK(q, rounds'[q])
        /\ returned' \in [Rounds -> Seq(CallResults)]
    BY <2>1, TryCompleteOK DEF TypeOK, RoundsOK
  <2>3. RoundsOK' /\ (\A q \in Rounds : rounds[q] \in RoundStates(q))'
    BY <2>2 DEF RoundsOK, RoundOK
  <2>. QED
    BY <1>2, <2>2, <2>3 DEF Complete, CompleteForeign, TypeOK
<1>3. ASSUME NEW w \in Wire, Receive(w)
      PROVE  TypeInv'
  <2>1. /\ Incoming(w) \in IncomingMessages
        /\ Incoming(w).round = w.round
        /\ log' \in Seq(IncomingMessages)
    BY <1>3, IncomingType DEF Receive, TypeOK
  <2>2. cur \in Rounds
    BY <1>3 DEF Receive, CurOK
  <2>3. CASE Registered(w.round)
    <3>1. TryComplete(ReceivedMsg(Incoming(w)), cur, claim)
      BY <1>3, <2>3 DEF Receive
    <3>2. /\ DOMAIN ReceivedMsg(Incoming(w)) = Rounds
          /\ \A r \in Rounds : RoundOK(r, ReceivedMsg(Incoming(w))[r])
      BY <2>1, <2>3, ReceivedMsgOK DEF TypeOK, Registered
    <3>3. /\ pc' \in {"idle", "completing"}
          /\ cur' \in Rounds \cup {NoRound}
          /\ claim' \in {NoClaim, "own", "foreign"}
          /\ CurOK'
          /\ DOMAIN rounds' = Rounds
          /\ \A q \in Rounds : RoundOK(q, rounds'[q])
          /\ returned' \in [Rounds -> Seq(CallResults)]
      BY <3>1, <3>2, <2>2, TryCompleteOK DEF TypeOK
    <3>4. RoundsOK' /\ (\A q \in Rounds : rounds[q] \in RoundStates(q))'
      BY <3>3 DEF RoundsOK, RoundOK
    <3>. QED
      BY <1>3, <2>1, <3>3, <3>4 DEF Receive, TypeOK
  <2>4. CASE ~ Registered(w.round)
    <3>1. Return(cur, Err(UnregisteredRound(w.round, FALSE)))
          /\ UNCHANGED rounds
      BY <1>3, <2>4 DEF Receive
    <3>2. w.round \in Nat
      BY WireAssumption DEF Message
    <3>3. Err(UnregisteredRound(w.round, FALSE)) \in CallResults
      BY <3>2, CallErrorTypes
    <3>4. /\ pc' = "idle" /\ cur' = NoRound /\ claim' = NoClaim
          /\ returned' \in [Rounds -> Seq(CallResults)]
      BY <3>1, <3>3, <2>2, ReturnType DEF TypeOK
    <3>. QED
      BY <1>3, <2>1, <3>1, <3>4 DEF Receive, TypeOK, RoundsOK, CurOK
  <2>. QED
    BY <2>3, <2>4
<1>4. ASSUME ReceiveFails
      PROVE  TypeInv'
  <2>1. PICK e \in {IoError, UnexpectedEof} : Return(cur, Err(e))
    BY <1>4 DEF ReceiveFails
  <2>2. Err(e) \in CallResults
    BY CallErrorTypes
  <2>3. cur \in Rounds
    BY <1>4 DEF ReceiveFails, CurOK
  <2>4. /\ pc' = "idle" /\ cur' = NoRound /\ claim' = NoClaim
        /\ returned' \in [Rounds -> Seq(CallResults)]
    BY <2>1, <2>2, <2>3, ReturnType DEF TypeOK
  <2>. QED
    BY <1>4, <2>4 DEF ReceiveFails, TypeOK, RoundsOK, CurOK
<1>5. ASSUME \/ FinishSetup \/ CancelComplete \/ Send \/ SendFails
             \/ StartSendMany \/ Feed \/ Flush \/ LoseParty
      PROVE  TypeInv'
  <2>1. rounds' = rounds /\ returned' = returned /\ log' = log
    BY <1>5 DEF FinishSetup, CancelComplete, Send, SendFails,
                StartSendMany, Feed, Flush, LoseParty
  <2>2. /\ cur' \in Rounds \cup {NoRound} /\ pc' # "completing"
        /\ claim' \in {NoClaim, "own", "foreign"}
        /\ pc' \in {"setup", "panicked", "idle", "completing",
                    "sending", "lost"}
        /\ witnesses' = witnesses /\ foreign' = foreign
        /\ sendFailed' \in BOOLEAN
    BY <1>5 DEF FinishSetup, CancelComplete, Send, SendFails,
                StartSendMany, Feed, Flush, LoseParty, TypeOK
  <2>3. unflushed' \in 0 .. MaxFeed
    BY <1>5, BoundsAssumption
       DEF FinishSetup, CancelComplete, Send, SendFails,
           StartSendMany, Feed, Flush, LoseParty, TypeOK
  <2>. QED
    BY <2>1, <2>2, <2>3 DEF TypeOK, RoundsOK, CurOK
<1>6. CASE UNCHANGED vars
  BY <1>6 DEF vars, TypeOK, RoundsOK, CurOK
<1>. QED
  BY <1>1, <1>2, <1>3, <1>4, <1>5, <1>6 DEF Next

\* The type invariant of the party holds in every run of it: for any number
\* of parties and whatever the network delivers, the stores of the router
\* keep their n-1 slots, and every result of complete is one of the outputs
\* and errors the code declares.
THEOREM TypeCorrect == Spec => []TypeOK
<1>1. Init => TypeInv
  BY TypeInit
<1>2. TypeInv /\ [Next]_vars => TypeInv'
  BY TypeNext
<1>3. TypeInv => TypeOK
  BY DEF TypeInv
<1>. QED
  BY <1>1, <1>2, <1>3, PTL DEF Spec

-----------------------------------------------------------------------------
(***************************************************************************)
(* The router follows the log.  What the log says of its first p messages  *)
(* is not changed by later ones; the last message changes only its own     *)
(* round, and there it does what the log says of it.                       *)
(***************************************************************************)
LEMMA LogExtends ==
    ASSUME NEW l \in Seq(IncomingMessages), NEW e \in IncomingMessages
    PROVE  /\ Append(l, e) \in Seq(IncomingMessages)
           /\ Len(l) \in Nat
           /\ Len(Append(l, e)) = Len(l) + 1
           /\ Append(l, e)[Len(l) + 1] = e
           /\ \A q \in 1 .. Len(l) : Append(l, e)[q] = l[q]
    OBVIOUS

LEMMA PrefixKept ==
    ASSUME NEW l \in Seq(IncomingMessages), NEW e \in IncomingMessages,
           NEW r, NEW p \in 0 .. Len(l)
    PROVE  /\ \A q \in 1 .. p : Of(Append(l, e), r, q) <=> Of(l, r, q)
           /\ \A q \in 1 .. p : Bad(Append(l, e), r, q) <=> Bad(l, r, q)
           /\ Clean(Append(l, e), r, p) <=> Clean(l, r, p)
           /\ AllHeard(Append(l, e), r, p) <=> AllHeard(l, r, p)
           /\ \A ids, messages :
                HoldsMessages(Append(l, e), r, p, ids, messages)
                    <=> HoldsMessages(l, r, p, ids, messages)
<1> DEFINE l2 == Append(l, e)
<1>1. Len(l) \in Nat /\ \A q \in 1 .. Len(l) : l2[q] = l[q]
  BY LogExtends
<1> HIDE DEF l2
<1>2. \A q \in 1 .. p : l2[q] = l[q]
  BY <1>1
<1>3. \A q \in 1 .. p : Of(l2, r, q) <=> Of(l, r, q)
  BY <1>2 DEF Of
<1>4. ASSUME NEW q \in 1 .. p, NEW t \in 1 .. (q - 1)
      PROVE  Repeats(l2, r, t, q) <=> Repeats(l, r, t, q)
  <2>1. t \in 1 .. p
    BY <1>1
  <2>. QED
    BY <2>1, <1>2, <1>3 DEF Repeats
<1>5. \A q \in 1 .. p : Bad(l2, r, q) <=> Bad(l, r, q)
  BY <1>2, <1>3, <1>4 DEF Bad
<1>6. Clean(l2, r, p) <=> Clean(l, r, p)
  BY <1>5 DEF Clean
<1>7. AllHeard(l2, r, p) <=> AllHeard(l, r, p)
  BY <1>2, <1>3 DEF AllHeard
<1>8. \A ids, messages : HoldsMessages(l2, r, p, ids, messages)
                            <=> HoldsMessages(l, r, p, ids, messages)
  BY <1>2, <1>3 DEF HoldsMessages
<1>. QED
  BY <1>3, <1>5, <1>6, <1>7, <1>8 DEF l2

\* A justified outcome stays justified whatever comes later.
LEMMA ResultKept ==
    ASSUME NEW l \in Seq(IncomingMessages), NEW e \in IncomingMessages,
           NEW r, NEW res, ResultJustified(l, r, res)
    PROVE  ResultJustified(Append(l, e), r, res)
<1> DEFINE l2 == Append(l, e)
<1>1. /\ Len(l) \in Nat /\ Len(l2) = Len(l) + 1
      /\ \A q \in 1 .. Len(l) : l2[q] = l[q]
  BY LogExtends
<1>2. ASSUME NEW p \in 1 .. Len(l)
      PROVE  /\ p \in 1 .. Len(l2)
             /\ FilledBy(l, r, p) => FilledBy(l2, r, p)
             /\ BrokenBy(l, r, p) => BrokenBy(l2, r, p)
             /\ \A b : Blames(l, r, p, b) => Blames(l2, r, p, b)
             /\ \A ids, messages :
                  HoldsMessages(l, r, p, ids, messages)
                    => HoldsMessages(l2, r, p, ids, messages)
  <2>1. p \in 0 .. Len(l) /\ p - 1 \in 0 .. Len(l) /\ p \in 1 .. p
    BY <1>1
  <2>2. /\ Of(l2, r, p) <=> Of(l, r, p)
        /\ Bad(l2, r, p) <=> Bad(l, r, p)
        /\ Clean(l2, r, p) <=> Clean(l, r, p)
        /\ AllHeard(l2, r, p) <=> AllHeard(l, r, p)
        /\ \A ids, messages : HoldsMessages(l2, r, p, ids, messages)
                                <=> HoldsMessages(l, r, p, ids, messages)
    BY <2>1, PrefixKept
  <2>3. /\ Clean(l2, r, p - 1) <=> Clean(l, r, p - 1)
        /\ AllHeard(l2, r, p - 1) <=> AllHeard(l, r, p - 1)
    BY <2>1, PrefixKept
  <2>4. \A q \in 1 .. (p - 1) : Repeats(l, r, q, p) => Repeats(l2, r, q, p)
    <3>1. \A q \in 1 .. (p - 1) : q \in 1 .. Len(l)
      BY <1>1
    <3>. QED
      BY <1>1, <3>1 DEF Repeats, Of
  <2>5. ASSUME NEW b, Blames(l, r, p, b)
        PROVE  Blames(l2, r, p, b)
    <3>1. l2[p] = l[p]
      BY <1>1
    <3>. HIDE DEF l2
    <3>. QED
      BY <2>4, <2>5, <3>1 DEF Blames
  <2>6. p \in 1 .. Len(l2)
    BY <1>1
  <2>. QED
    BY <2>2, <2>3, <2>5, <2>6 DEF FilledBy, BrokenBy
<1> HIDE DEF l2
<1>. QED
  BY <1>2 DEF ResultJustified, l2

\* A message of another round changes nothing for a round in progress.
LEMMA StoreKept ==
    ASSUME NEW l \in Seq(IncomingMessages), NEW e \in IncomingMessages,
           NEW r, e.round # r, NEW store, StoreJustified(l, r, store)
    PROVE  StoreJustified(Append(l, e), r, store)
<1> DEFINE l2 == Append(l, e)
           k == Len(l)
<1>1. /\ k \in Nat /\ Len(l2) = k + 1 /\ l2[k + 1] = e
      /\ k \in 0 .. k
  BY LogExtends
<1>2. ~ Of(l2, r, k + 1) /\ ~ Bad(l2, r, k + 1)
  BY <1>1 DEF Of, Bad
<1>3. /\ Clean(l2, r, k)
      /\ ~ AllHeard(l2, r, k)
      /\ HoldsMessages(l2, r, k, store.ids, store.messages)
  BY <1>1, PrefixKept DEF StoreJustified
<1> HIDE DEF l2
<1>4. \A q \in 1 .. (k + 1) : q \in 1 .. k \/ q = k + 1
  BY <1>1
<1>5. \A q \in 1 .. k : q \in 1 .. (k + 1)
  BY <1>1
<1> HIDE DEF k
<1>6. Clean(l2, r, k + 1)
  BY <1>2, <1>3, <1>4 DEF Clean
<1>7. ~ AllHeard(l2, r, k + 1)
  BY <1>2, <1>3, <1>4 DEF AllHeard
<1>8. HoldsMessages(l2, r, k + 1, store.ids, store.messages)
  BY <1>2, <1>3, <1>4, <1>5 DEF HoldsMessages
<1>. QED
  BY <1>1, <1>6, <1>7, <1>8 DEF StoreJustified, l2

\* A new round is justified before anything is received.
LEMMA NewRoundJustified ==
    ASSUME NEW r \in Rounds \ Empty
    PROVE  RoundJustified(<<>>, r, NewRound(r))
<1> DEFINE store == RoundInputNew(Me, N, TypeOf[r])
<1>1. WantsMore(store) /\ DOMAIN store.messages = {}
  BY NewStore, PartyAssumption
<1>2. NewRound(r) = InProgress(store)
  BY <1>1 DEF NewRound, Settle, StoreWantsMore
<1>3. \E j \in 0 .. (N - 1) : j # Me
  <2>1. 0 \in 0 .. (N - 1) /\ 1 \in 0 .. (N - 1)
    BY PartyAssumption
  <2>. QED
    BY <2>1
<1>4. StoreJustified(<<>>, r, store)
  BY <1>1, <1>3 DEF StoreJustified, Clean, AllHeard, HoldsMessages, Others
<1>. QED
  BY <1>2, <1>4 DEF RoundJustified, InProgress

\* An error that the last message m causes in its round is the one the log
\* says.
LEMMA BrokenJustified ==
    ASSUME NEW l \in Seq(IncomingMessages), NEW r \in Rounds,
           NEW m \in IncomingMessages,
           Clean(l, r, Len(l)), ~ AllHeard(l, r, Len(l)),
           Bad(Append(l, m), r, Len(l) + 1),
           NEW b \in MessageErrors, Blames(Append(l, m), r, Len(l) + 1, b)
    PROVE  RoundJustified(Append(l, m), r, Completed(Err(b)))
<1> DEFINE l2 == Append(l, m)
           k == Len(l)
<1>1. k \in Nat /\ Len(l2) = k + 1 /\ k \in 0 .. k /\ (k + 1) - 1 = k
      /\ k + 1 \in 1 .. (k + 1)
  BY LogExtends
<1>2. Clean(l2, r, k) /\ ~ AllHeard(l2, r, k)
  BY <1>1, PrefixKept
<1>3. BrokenBy(l2, r, k + 1)
  BY <1>1, <1>2 DEF BrokenBy
<1>4. b # StoreDidntOutput
  BY DEF MessageErrors, StoreDidntOutput
<1>5. ResultJustified(l2, r, Err(b))
  <2>1. Err(b).ok = FALSE /\ Err(b).err = b
    BY DEF Err
  <2>. HIDE DEF l2, k
  <2>2. ~ Err(b).ok
    BY <2>1
  <2>. QED
    BY <1>1, <1>3, <1>4, <2>1, <2>2 DEF ResultJustified, l2, k
<1>6. /\ Completed(Err(b)).st = "Completed"
      /\ Completed(Err(b)).res = Err(b)
  BY DEF Completed
<1> HIDE DEF l2
<1>. QED
  BY <1>5, <1>6 DEF RoundJustified, l2

\* What a store of the round expects is what suits the round.
LEMMA ExpectedIsAccepted ==
    ASSUME NEW r, NEW type
    PROVE  IsExpectedTypeOfMsg(TypeOf[r], type) <=> type \in Accepted(r)
    BY DEF IsExpectedTypeOfMsg, Accepted

LEMMA FullRoundStore ==
    ASSUME NEW r, NEW store \in Stores(r), Counted(store), ~ WantsMore(store)
    PROVE  /\ DOMAIN store.messages = Slots(N)
           /\ Output(store) = [i |-> Me, ids |-> store.ids,
                               messages |-> store.messages]
    BY FullStore, PartyAssumption DEF Stores

\* One message for a round in progress, whatever it is, takes the round
\* where the log says.
LEMMA ProcessJustified ==
    ASSUME NEW l \in Seq(IncomingMessages), NEW r \in Rounds \ Empty,
           NEW m \in IncomingMessages, m.round = r, m.id = Len(l) + 1,
           NEW store \in Stores(r), Counted(store), WantsMore(store),
           StoreJustified(l, r, store)
    PROVE  RoundJustified(Append(l, m), r, ProcessMessage(r, store, m))
<1> DEFINE l2 == Append(l, m)
           k == Len(l)
           slot == SlotOf(Me, m.sender)
<1>1. /\ k \in Nat /\ Len(l2) = k + 1 /\ l2[k + 1] = m
      /\ k \in 0 .. k
      /\ (k + 1) - 1 = k
      /\ k + 1 \in 1 .. (k + 1)
      /\ \A q \in 1 .. k : l2[q] = l[q]
      /\ \A q \in 1 .. (k + 1) : q \in 1 .. k \/ q = k + 1
      /\ \A q \in 1 .. k : q \in 1 .. (k + 1) /\ q < k + 1
  BY LogExtends
<1>2. /\ Clean(l, r, k) /\ ~ AllHeard(l, r, k)
      /\ HoldsMessages(l, r, k, store.ids, store.messages)
  BY DEF StoreJustified
<1>3. /\ Clean(l2, r, k)
      /\ ~ AllHeard(l2, r, k)
      /\ HoldsMessages(l2, r, k, store.ids, store.messages)
      /\ \A q \in 1 .. k : Of(l2, r, q) <=> Of(l, r, q)
  BY <1>1, <1>2, PrefixKept
<1>4. Of(l2, r, k + 1)
  BY <1>1 DEF Of
<1>5. /\ store.i = Me /\ store.n = N /\ store.expected = TypeOf[r]
      /\ DOMAIN store.messages \subseteq Slots(N)
  BY PartialFunctions DEF Stores, RoundInputs
<1>6. m.sender \in Nat /\ m.msg \in Msg /\ m.id \in Nat
  BY DEF IncomingMessages
<1>7. /\ \A j \in Others(Me, N) : SlotOf(Me, j) \in Slots(N)
      /\ \A j \in Nat : j # Me /\ SlotOf(Me, j) \in Slots(N)
                            => j \in Others(Me, N)
      /\ \A i, j \in Others(Me, N) :
            SlotOf(Me, i) = SlotOf(Me, j) => i = j
      /\ \A s \in Slots(N) : \E j \in Others(Me, N) : SlotOf(Me, j) = s
  BY SlotsAndParties, PartyAssumption
<1>8. CASE m.variant # r
  <2>1. Bad(l2, r, k + 1)
    BY <1>1, <1>4, <1>8 DEF Bad
  <2>2. /\ MessageFromAnotherRound(r, r) \in MessageErrors
        /\ Blames(l2, r, k + 1, MessageFromAnotherRound(r, r))
    BY <1>1, <1>8, RoundsAssumption
       DEF Blames, MessageFromAnotherRound, MessageErrors
  <2>3. ProcessMessage(r, store, m)
            = Completed(Err(MessageFromAnotherRound(r, r)))
    BY <1>8 DEF ProcessMessage
  <2>. QED
    BY <2>1, <2>2, <2>3, <1>2, BrokenJustified
<1>9. CASE m.variant = r /\ AddMessageError(store, m) # NoError
  <2> DEFINE b == AddMessageError(store, m)
  <2>1. b \in MessageErrors
    BY <1>9, AddMessageErrorType
  <2>2. ProcessMessage(r, store, m) = Completed(Err(b))
    BY <1>9 DEF ProcessMessage
  <2>3. Bad(l2, r, k + 1) /\ Blames(l2, r, k + 1, b)
    <3>1. CASE ~ IsExpectedTypeOfMsg(TypeOf[r], m.type)
      <4>1. b = MismatchedMessageType(k + 1, TypeOf[r], m.type)
        BY <3>1, <1>5 DEF AddMessageError
      <4>. QED
        BY <3>1, <4>1, <1>1, <1>4, <1>9, ExpectedIsAccepted DEF Bad, Blames
    <3>2. CASE IsExpectedTypeOfMsg(TypeOf[r], m.type)
      <4>1. m.sender # Me
        BY <3>2, <1>5, <1>9 DEF AddMessageError
      <4>2. CASE slot \notin Slots(N)
        <5>1. b = SenderIndexOutOfRange(k + 1, m.sender, N)
          BY <3>2, <4>1, <4>2, <1>5 DEF AddMessageError
        <5>2. m.sender \notin 0 .. (N - 1) /\ m.sender >= N
          BY <4>1, <4>2, <1>6, <1>7, PartyAssumption DEF Others
        <5>. QED
          BY <3>2, <4>1, <5>1, <5>2, <1>1, <1>4, <1>9, ExpectedIsAccepted
          DEF Bad, Blames
      <4>3. CASE slot \in Slots(N)
        <5>1. slot \in DOMAIN store.messages
          BY <3>2, <4>1, <4>3, <1>5, <1>9 DEF AddMessageError
        <5>2. b = AttemptToOverwriteReceivedMsg(store.ids[slot], k + 1,
                                                m.sender)
          BY <3>2, <4>1, <4>3, <5>1, <1>5 DEF AddMessageError
        <5>3. m.sender \in Others(Me, N)
          BY <4>1, <4>3, <1>6, <1>7
        <5>4. PICK q \in 1 .. k : /\ Of(l2, r, q)
                                  /\ l2[q].sender = m.sender
                                  /\ store.ids[slot] = q
          BY <5>1, <5>3, <1>3 DEF HoldsMessages
        <5>5. q \in 1 .. ((k + 1) - 1) /\ Repeats(l2, r, q, k + 1)
          BY <5>4, <1>1 DEF Repeats
        <5>. HIDE DEF l2, k, b
        <5>6. Bad(l2, r, k + 1)
          BY <4>1, <5>5, <1>1, <1>4 DEF Bad
        <5>7. Blames(l2, r, k + 1, b)
          BY <3>2, <4>1, <5>2, <5>4, <5>5, <1>1, <1>9, ExpectedIsAccepted
          DEF Blames
        <5>. QED
          BY <5>6, <5>7
      <4>. QED
        BY <4>2, <4>3
    <3>. QED
      BY <3>1, <3>2
  <2>. QED
    BY <2>1, <2>2, <2>3, <1>2, BrokenJustified
<1>10. CASE m.variant = r /\ AddMessageError(store, m) = NoError
  <2> DEFINE new == AddMessage(store, m)
  <2>1. new \in Stores(r) /\ Counted(new)
    BY <1>10, AcceptedStore
  <2>2. IsExpectedTypeOfMsg(TypeOf[r], m.type)
    BY <1>10, <1>5 DEF AddMessageError, NoError, MismatchedMessageType
  <2>3. ProcessMessage(r, store, m) = Settle(r, new)
    BY <1>10 DEF ProcessMessage
  <2>4. CASE m.sender = Me
    <3>1. new = store /\ Settle(r, new) = InProgress(store)
      BY <2>4, <1>5 DEF AddMessage, Settle, StoreWantsMore
    <3>2. ~ Bad(l2, r, k + 1)
      BY <2>2, <2>4, <1>1, <1>10, PartyAssumption, ExpectedIsAccepted DEF Bad
    <3>3. \A j \in Others(Me, N) : l2[k + 1].sender # j
      BY <2>4, <1>1 DEF Others
    <3>. HIDE DEF l2, k
    <3>4. Clean(l2, r, k + 1)
      BY <3>2, <1>1, <1>3 DEF Clean
    <3>5. ~ AllHeard(l2, r, k + 1)
      BY <3>3, <1>1, <1>3 DEF AllHeard
    <3>6. HoldsMessages(l2, r, k + 1, store.ids, store.messages)
      BY <3>3, <1>1, <1>3 DEF HoldsMessages
    <3>7. StoreJustified(l2, r, store)
      BY <3>4, <3>5, <3>6, <1>1 DEF StoreJustified
    <3>. QED
      BY <2>3, <3>1, <3>7 DEF RoundJustified, InProgress, l2
  <2>5. CASE m.sender # Me
    <3>1. /\ slot \in Slots(N) \ DOMAIN store.messages
          /\ DOMAIN new.messages = DOMAIN store.messages \cup {slot}
          /\ new.messages[slot] = m.msg
          /\ new.ids[slot] = k + 1
          /\ \A s \in DOMAIN store.messages :
                /\ new.messages[s] = store.messages[s]
                /\ new.ids[s] = store.ids[s]
      BY <2>5, <1>6, <1>10, AddedMessage, PartyAssumption DEF Stores
    <3>2. m.sender \in Others(Me, N) /\ m.sender \in 0 .. (N - 1)
      BY <2>5, <3>1, <1>6, <1>7 DEF Others
    <3>. HIDE DEF l2, k, new
    <3>3. \A q \in 1 .. k : Of(l2, r, q) => l2[q].sender # m.sender
      BY <3>1, <3>2, <1>3 DEF HoldsMessages
    <3>4. ~ Bad(l2, r, k + 1)
      BY <2>2, <3>2, <3>3, <1>1, <1>10, ExpectedIsAccepted DEF Bad, Repeats
    <3>5. Clean(l2, r, k + 1)
      BY <3>4, <1>1, <1>3 DEF Clean
    <3>6. ASSUME NEW j \in Others(Me, N), SlotOf(Me, j) \in DOMAIN new.messages
          PROVE  \E q \in 1 .. (k + 1) :
                    /\ Of(l2, r, q)
                    /\ l2[q].sender = j
                    /\ new.ids[SlotOf(Me, j)] = q
                    /\ new.messages[SlotOf(Me, j)] = l2[q].msg
      <4>1. CASE j = m.sender
        BY <4>1, <3>1, <1>1, <1>4
      <4>2. CASE j # m.sender
        <5>1. SlotOf(Me, j) # slot
          BY <4>2, <3>2, <1>7
        <5>2. SlotOf(Me, j) \in DOMAIN store.messages
          BY <3>1, <3>6, <5>1
        <5>3. PICK q \in 1 .. k :
                    /\ Of(l2, r, q)
                    /\ l2[q].sender = j
                    /\ store.ids[SlotOf(Me, j)] = q
                    /\ store.messages[SlotOf(Me, j)] = l2[q].msg
          BY <5>2, <1>3 DEF HoldsMessages
        <5>. QED
          BY <5>2, <5>3, <3>1, <1>1
      <4>. QED
        BY <4>1, <4>2
    <3>7. ASSUME NEW j \in Others(Me, N),
                 SlotOf(Me, j) \notin DOMAIN new.messages
          PROVE  \A q \in 1 .. (k + 1) : Of(l2, r, q) => l2[q].sender # j
      <4>1. j # m.sender /\ SlotOf(Me, j) \notin DOMAIN store.messages
        BY <3>1, <3>7
      <4>. QED
        BY <4>1, <1>1, <1>3 DEF HoldsMessages
    <3>8. HoldsMessages(l2, r, k + 1, new.ids, new.messages)
      BY <3>6, <3>7 DEF HoldsMessages
    <3>9. CASE StoreWantsMore(r, new)
      <4>1. WantsMore(new) /\ Settle(r, new) = InProgress(new)
        BY <3>9 DEF StoreWantsMore, Settle
      <4>2. PICK j \in Others(Me, N) : SlotOf(Me, j) \notin DOMAIN new.messages
        BY <2>1, <4>1, VacantSlot, PartyAssumption DEF Stores
      <4>3. ~ AllHeard(l2, r, k + 1)
        BY <4>2, <3>7 DEF AllHeard
      <4>4. StoreJustified(l2, r, new)
        BY <3>5, <3>8, <4>3, <1>1 DEF StoreJustified
      <4>. QED
        BY <2>3, <4>1, <4>4 DEF RoundJustified, InProgress, l2, new
    <3>10. CASE ~ StoreWantsMore(r, new)
      <4>1. ~ WantsMore(new) /\ Settle(r, new) = Completed(StoreOutput(r, new))
        BY <3>10 DEF StoreWantsMore, Settle
      <4>2. /\ DOMAIN new.messages = Slots(N)
            /\ Output(new) = [i |-> Me, ids |-> new.ids,
                              messages |-> new.messages]
        <5>1. new \in Stores(r) /\ Counted(new) /\ ~ WantsMore(new)
          BY <2>1, <4>1
        <5>. QED
          BY <5>1, FullRoundStore
      <4>3. AllHeard(l2, r, k + 1)
        <5>1. \A j \in Others(Me, N) : SlotOf(Me, j) \in DOMAIN new.messages
          BY <4>2, <1>7
        <5>2. \A j \in Others(Me, N) :
                \E q \in 1 .. (k + 1) : Of(l2, r, q) /\ l2[q].sender = j
          BY <3>6, <5>1
        <5>. QED
          BY <5>2 DEF AllHeard
      <4>4. FilledBy(l2, r, k + 1) /\ k + 1 \in 1 .. Len(l2)
        BY <3>5, <4>3, <1>1, <1>3, <1>4 DEF FilledBy
      <4>5. ResultJustified(l2, r, StoreOutput(r, new))
        <5>1. CASE r \in Improper
          BY <5>1, <4>4 DEF StoreOutput, ResultJustified, Err
        <5>2. CASE r \notin Improper
          <6>1. /\ StoreOutput(r, new).ok
                /\ StoreOutput(r, new).out.ids = new.ids
                /\ StoreOutput(r, new).out.messages = new.messages
            BY <5>2, <4>2 DEF StoreOutput, Ok
          <6>. QED
            BY <5>2, <6>1, <4>2, <4>4, <3>8 DEF ResultJustified
        <5>. QED
          BY <5>1, <5>2
      <4>. QED
        BY <2>3, <4>1, <4>5 DEF RoundJustified, Completed, l2, new
    <3>. QED
      BY <3>9, <3>10
  <2>. QED
    BY <2>4, <2>5
<1>. QED
  BY <1>8, <1>9, <1>10

\* The errors of a call of complete itself are no outcomes of a round.
LEMMA CallErrorsAreNoOutcomes ==
    /\ Err(AlreadyTaken) \notin RoundResults
    /\ Err(IoError) \notin RoundResults
    /\ Err(UnexpectedEof) \notin RoundResults
    /\ Err(MismatchedOutputType) \notin RoundResults
    /\ Err(MismatchedErrorType) \notin RoundResults
    /\ \A n, b : Err(UnregisteredRound(n, b)) \notin RoundResults
<1>1. ASSUME NEW e, e.kind \in {"AlreadyTaken", "Io", "UnexpectedEof",
                               "MismatchedOutputType", "MismatchedErrorType",
                               "UnregisteredRound"}
      PROVE  Err(e) \notin RoundResults
  <2>1. e \notin MessageErrors \cup {StoreDidntOutput}
    BY <1>1 DEF MessageErrors, StoreDidntOutput
  <2>2. Err(e).err = e /\ Err(e).ok = FALSE
    BY DEF Err
  <2>. QED
    BY <2>1, <2>2 DEF RoundResults
<1>. QED
  BY <1>1 DEF AlreadyTaken, IoError, UnexpectedEof, UnregisteredRound,
              MismatchedOutputType, MismatchedErrorType

ReturnedJustified(l, ret) ==
    \A r \in Rounds \ Empty :
        \A k \in DOMAIN ret[r] :
            ret[r][k] \in RoundResults => ResultJustified(l, r, ret[r][k])

LEMMA ReturnJustified ==
    ASSUME NEW STATE r, r \in Rounds, NEW STATE res, NEW STATE l,
           returned \in [Rounds -> Seq(CallResults)],
           ReturnedJustified(l, returned),
           r \notin Empty /\ res \in RoundResults => ResultJustified(l, r, res),
           Return(r, res)
    PROVE  ReturnedJustified(l, returned')
<1>1. returned' = [returned EXCEPT ![r] = Append(returned[r], res)]
  BY DEF Return
<1>2. SUFFICES ASSUME NEW q \in Rounds \ Empty,
                      NEW k \in DOMAIN returned'[q],
                      returned'[q][k] \in RoundResults
               PROVE  ResultJustified(l, q, returned'[q][k])
  BY DEF ReturnedJustified
<1>3. CASE q # r
  BY <1>1, <1>2, <1>3 DEF ReturnedJustified
<1>4. CASE q = r
  <2>1. /\ returned'[q] = Append(returned[q], res)
        /\ returned[q] \in Seq(CallResults)
    BY <1>1, <1>4
  <2>2. \/ k \in DOMAIN returned[q] /\ returned'[q][k] = returned[q][k]
        \/ returned'[q][k] = res
    BY <2>1
  <2>. QED
    BY <1>2, <1>4, <2>2 DEF ReturnedJustified
<1>. QED
  BY <1>3, <1>4

\* The check of the awaited round moves a justified outcome from the router
\* to the caller.
LEMMA TryCompleteJustified ==
    ASSUME NEW STATE rs, NEW STATE r, NEW STATE by, r \in Rounds, NEW STATE l,
           DOMAIN rs = Rounds,
           \A q \in Rounds : RoundOK(q, rs[q]),
           \A q \in Rounds \ Empty : RoundJustified(l, q, rs[q]),
           returned \in [Rounds -> Seq(CallResults)],
           ReturnedJustified(l, returned),
           TryComplete(rs, r, by)
    PROVE  /\ \A q \in Rounds \ Empty : RoundJustified(l, q, rounds'[q])
           /\ ReturnedJustified(l, returned')
<1>1. CASE NeedsMoreMessages(rs[r])
  BY <1>1 DEF TryComplete
<1>2. CASE ~ NeedsMoreMessages(rs[r])
  <2>1. /\ rounds' = [rs EXCEPT ![r] = AfterTake(rs[r])]
        /\ Return(r, RoundResult(r, rs[r], by))
    BY <1>2 DEF TryComplete
  <2>2. r \notin Empty => RoundJustified(l, r, AfterTake(rs[r]))
    BY DEF AfterTake, RoundJustified, Gone
  <2>3. \A q \in Rounds \ Empty : RoundJustified(l, q, rounds'[q])
    BY <2>1, <2>2
  <2>4. r \notin Empty /\ RoundResult(r, rs[r], by) \in RoundResults
            => ResultJustified(l, r, RoundResult(r, rs[r], by))
    <3>1. rs[r] \in {Unregistered, Gone}
                \cup [st : {"Completed"}, res : RoundResults]
      BY <1>2 DEF NeedsMoreMessages, RoundOK, RoundStates
    <3>2. CASE rs[r] = Unregistered
      <4>1. RoundResult(r, rs[r], by) = Err(UnregisteredRound(r, TRUE))
        BY <3>2 DEF RoundResult, Unregistered
      <4>. QED
        BY <4>1, CallErrorsAreNoOutcomes
    <3>3. CASE rs[r] = Gone
      <4>1. RoundResult(r, rs[r], by) = Err(AlreadyTaken)
        BY <3>3 DEF RoundResult, Gone
      <4>. QED
        BY <4>1, CallErrorsAreNoOutcomes
    <3>4. CASE rs[r] \in [st : {"Completed"}, res : RoundResults]
      <4>1. RoundResult(r, rs[r], by) = Downcast(r, rs[r].res, by)
        BY <3>4 DEF RoundResult
      <4>2. r \notin Empty => ResultJustified(l, r, rs[r].res)
        BY <3>4 DEF RoundJustified
      <4>. QED
        BY <4>1, <4>2, DowncastType, CallErrorsAreNoOutcomes
    <3>. QED
      BY <3>1, <3>2, <3>3, <3>4
  <2>5. ReturnedJustified(l, returned')
    BY <2>1, <2>4, ReturnJustified
  <2>. QED
    BY <2>3, <2>5
<1>. QED
  BY <1>1, <1>2

SetupLog == pc = "setup" => log = <<>>

LogInv ==
    /\ TypeInv
    /\ SetupLog
    /\ \A r \in Rounds \ Empty : RoundJustified(log, r, rounds[r])
    /\ ReturnedJustified(log, returned)

LEMMA LogInit == Init => LogInv
<1>1. Init => SetupLog
  BY DEF Init, SetupLog
<1>2. Init => \A r \in Rounds \ Empty : RoundJustified(log, r, rounds[r])
  BY DEF Init, RoundJustified, Unregistered
<1>3. Init => ReturnedJustified(log, returned)
  BY DEF Init, ReturnedJustified
<1>. QED
  BY <1>1, <1>2, <1>3, TypeInit DEF LogInv

\* A message for a registered round, the router afterwards.
LEMMA ReceivedMsgJustified ==
    ASSUME LogInv, NEW m \in IncomingMessages, m.round \in Rounds,
           m.id = Len(log) + 1
    PROVE  \A r \in Rounds \ Empty :
                RoundJustified(Append(log, m), r, ReceivedMsg(m)[r])
<1> SUFFICES ASSUME NEW r \in Rounds \ Empty
             PROVE  RoundJustified(Append(log, m), r, ReceivedMsg(m)[r])
  OBVIOUS
<1>1. /\ log \in Seq(IncomingMessages) /\ DOMAIN rounds = Rounds
      /\ RoundOK(r, rounds[r]) /\ RoundJustified(log, r, rounds[r])
  BY DEF LogInv, TypeInv, TypeOK, RoundsOK
<1>2. rounds[r].st = "Completed" =>
        ResultJustified(Append(log, m), r, rounds[r].res)
  BY <1>1, ResultKept DEF RoundJustified
<1>3. CASE rounds[r].st # "InProgress"
  <2>1. ReceivedMsg(m)[r] = rounds[r]
    BY <1>1, <1>3 DEF ReceivedMsg, NeedsMoreMessages
  <2>. QED
    BY <1>2, <1>3, <2>1 DEF RoundJustified
<1>4. CASE rounds[r].st = "InProgress" /\ m.round # r
  <2>1. ReceivedMsg(m)[r] = rounds[r]
    BY <1>1, <1>4 DEF ReceivedMsg
  <2>2. StoreJustified(Append(log, m), r, rounds[r].store)
    BY <1>1, <1>4, StoreKept DEF RoundJustified
  <2>. QED
    BY <1>4, <2>1, <2>2 DEF RoundJustified
<1>5. CASE rounds[r].st = "InProgress" /\ m.round = r
  <2>1. ReceivedMsg(m)[r] = ProcessMessage(r, rounds[r].store, m)
    BY <1>1, <1>5 DEF ReceivedMsg, NeedsMoreMessages
  <2>2. /\ rounds[r].store \in Stores(r)
        /\ Counted(rounds[r].store) /\ WantsMore(rounds[r].store)
    BY <1>1, <1>5 DEF RoundOK, RoundStates, Unregistered, Gone
  <2>3. StoreJustified(log, r, rounds[r].store)
    BY <1>1, <1>5 DEF RoundJustified
  <2>. QED
    BY <1>1, <1>5, <2>1, <2>2, <2>3, ProcessJustified
<1>. QED
  BY <1>3, <1>4, <1>5

LEMMA LogNext == LogInv /\ [Next]_vars => LogInv'
<1> SUFFICES ASSUME LogInv, [Next]_vars
             PROVE  LogInv'
  OBVIOUS
<1>1. TypeInv /\ TypeInv'
  BY TypeNext DEF LogInv
<1>2. /\ log \in Seq(IncomingMessages) /\ DOMAIN rounds = Rounds
      /\ returned \in [Rounds -> Seq(CallResults)]
      /\ \A r \in Rounds : RoundOK(r, rounds[r])
  BY <1>1 DEF TypeInv, TypeOK, RoundsOK
<1> DEFINE Just(l) ==
              /\ \A r \in Rounds \ Empty : RoundJustified(l, r, rounds'[r])
              /\ ReturnedJustified(l, returned')
<1>3. SetupLog' /\ Just(log') => LogInv'
  BY <1>1 DEF LogInv
<1>4. ASSUME NEW r \in Rounds, AddRound(r)
      PROVE  SetupLog' /\ Just(log')
  <2>1. log = <<>> /\ log' = log /\ returned' = returned
        /\ rounds' = [rounds EXCEPT ![r] = NewRound(r)]
    BY <1>4 DEF AddRound, LogInv, SetupLog
  <2>2. \A q \in Rounds \ Empty : RoundJustified(log, q, rounds'[q])
    BY <1>2, <2>1, NewRoundJustified DEF LogInv
  <2>. QED
    BY <2>1, <2>2 DEF LogInv, SetupLog
<1>5. ASSUME NEW r \in Rounds, Complete(r) \/ CompleteForeign(r)
      PROVE  SetupLog' /\ Just(log')
  <2>1. PICK by \in {"own", "foreign"} :
            TryComplete(rounds, r, by) /\ log' = log
    BY <1>5 DEF Complete, CompleteForeign
  <2>2. Just(log)
    BY <1>2, <2>1, TryCompleteJustified DEF LogInv
  <2>3. pc' # "setup"
    BY <2>1 DEF TryComplete, Return
  <2>. QED
    BY <2>1, <2>2, <2>3 DEF SetupLog
<1>6. ASSUME NEW w \in Wire, Receive(w)
      PROVE  SetupLog' /\ Just(log')
  <2> DEFINE m == Incoming(w)
             l == Append(log, m)
  <2>1. /\ m \in IncomingMessages /\ m.round = w.round
        /\ m.id = Len(log) + 1 /\ log' = l
    BY <1>2, <1>6, IncomingType DEF Receive
  <2>2. cur \in Rounds
    BY <1>1, <1>6 DEF Receive, TypeInv, CurOK
  <2>. HIDE DEF m
  <2>3. ReturnedJustified(l, returned)
    BY <1>2, <2>1, ResultKept DEF LogInv, ReturnedJustified
  <2>4. CASE Registered(w.round)
    <3>1. TryComplete(ReceivedMsg(m), cur, claim)
      BY <1>6, <2>4 DEF Receive, m
    <3>2. /\ DOMAIN ReceivedMsg(m) = Rounds
          /\ \A r \in Rounds : RoundOK(r, ReceivedMsg(m)[r])
      BY <1>1, <1>2, <2>1, <2>4, ReceivedMsgOK DEF Registered, TypeInv
    <3>3. \A r \in Rounds \ Empty : RoundJustified(l, r, ReceivedMsg(m)[r])
      BY <2>1, <2>4, ReceivedMsgJustified DEF Registered
    <3>4. Just(l)
      BY <3>1, <3>2, <3>3, <1>2, <2>2, <2>3, TryCompleteJustified
    <3>5. pc' # "setup"
      BY <3>1 DEF TryComplete, Return
    <3>. QED
      BY <2>1, <3>4, <3>5 DEF SetupLog
  <2>5. CASE ~ Registered(w.round)
    <3>1. Return(cur, Err(UnregisteredRound(w.round, FALSE)))
          /\ rounds' = rounds
      BY <1>6, <2>5 DEF Receive
    <3>2. ReturnedJustified(l, returned')
      BY <3>1, <1>2, <2>2, <2>3, CallErrorsAreNoOutcomes, ReturnJustified
    <3>3. \A r \in Rounds \ Empty : RoundJustified(l, r, rounds[r])
      <4>1. \A r \in Rounds : m.round # r \/ rounds[r].st # "InProgress"
        BY <2>1, <2>5 DEF Registered, Unregistered
      <4>2. ASSUME NEW r \in Rounds \ Empty
            PROVE  RoundJustified(l, r, rounds[r])
        BY <1>2, <2>1, <4>1, ResultKept, StoreKept DEF LogInv, RoundJustified
      <4>. QED
        BY <4>2
    <3>. QED
      BY <2>1, <3>1, <3>2, <3>3 DEF SetupLog, Return
  <2>. QED
    BY <2>4, <2>5
<1>7. ASSUME ReceiveFails
      PROVE  SetupLog' /\ Just(log')
  <2>1. PICK e \in {IoError, UnexpectedEof} : Return(cur, Err(e))
    BY <1>7 DEF ReceiveFails
  <2>2. cur \in Rounds /\ rounds' = rounds /\ log' = log
    BY <1>1, <1>7 DEF ReceiveFails, TypeInv, CurOK
  <2>3. Err(e) \notin RoundResults
    BY CallErrorsAreNoOutcomes
  <2>4. ReturnedJustified(log, returned')
    BY <2>1, <2>2, <2>3, <1>2, ReturnJustified DEF LogInv
  <2>. QED
    BY <2>1, <2>2, <2>4 DEF LogInv, SetupLog, Return
<1>8. ASSUME \/ FinishSetup \/ CancelComplete \/ Send \/ SendFails
             \/ StartSendMany \/ Feed \/ Flush \/ LoseParty
             \/ UNCHANGED vars
      PROVE  SetupLog' /\ Just(log')
  <2>1. /\ rounds' = rounds /\ returned' = returned /\ log' = log
        /\ pc' = "setup" => pc = "setup"
    BY <1>8 DEF FinishSetup, CancelComplete, Send, SendFails,
                StartSendMany, Feed, Flush, LoseParty, vars
  <2>. QED
    BY <2>1 DEF LogInv, SetupLog
<1> HIDE DEF Just
<1>. QED
  BY <1>3, <1>4, <1>5, <1>6, <1>7, <1>8 DEF Next

\* In every run the router's record of each round is what the received
\* messages of that round say: the first message of each sender, or the first
\* offending message, decides.
THEOREM RouterCorrect == Spec => []RouterFollowsLog
<1>1. LogInv => RouterFollowsLog
  BY DEF LogInv, RouterFollowsLog
<1>. QED
  BY <1>1, LogInit, LogNext, PTL DEF Spec

\* What complete has handed to the protocol is justified in the same way, by
\* what was received of the round, long after the router has forgotten it.
THEOREM ReturnedCorrect == Spec => []ReturnedFollowsLog
<1>1. LogInv => ReturnedFollowsLog
  BY DEF LogInv, ReturnedFollowsLog, ReturnedJustified
<1>. QED
  BY <1>1, LogInit, LogNext, PTL DEF Spec

\* The indexed views of every output name the true senders.
THEOREM EntriesCorrect == Spec => []EntriesNameSenders
<1>1. ASSUME TypeOK, ReturnedFollowsLog PROVE EntriesNameSenders
  <2> SUFFICES ASSUME NEW r \in Rounds \ Empty,
                      NEW k \in DOMAIN returned[r], returned[r][k].ok
               PROVE  LET out == returned[r][k].out IN
            /\ \A s \in DOMAIN out.messages :
                 LET e == IterIndexed(out)[s] IN
                 /\ e.id \in DOMAIN log
                 /\ log[e.id].round = r
                 /\ log[e.id].sender = e.party
                 /\ log[e.id].msg = e.msg
            /\ \A mine \in Msg :
                 /\ IncludingMe(out, mine)[Me] = mine
                 /\ \A j \in Others(Me, N) :
                      \E s \in DOMAIN out.messages :
                        /\ IterIndexed(out)[s].party = j
                        /\ IterIndexed(out)[s].msg = IncludingMe(out, mine)[j]
    BY DEF EntriesNameSenders
  <2> DEFINE res == returned[r][k]
             out == res.out
  <2>1. res \in [ok : {TRUE}, out : Outputs]
    <3>1. returned[r] \in Seq(CallResults)
      BY <1>1 DEF TypeOK
    <3>2. res \in CallResults
      BY <3>1
    <3>. QED  BY <3>2 DEF CallResults, RoundResults
  <2>2. out.i = Me
    BY <2>1 DEF Outputs
  <2>3. ResultJustified(log, r, res)
    BY <1>1, <2>1 DEF ReturnedFollowsLog, RoundResults
  <2>4. DOMAIN out.messages = Slots(N)
    BY <2>1, <2>3 DEF ResultJustified
  <2>5. PICK p \in 1 .. Len(log) :
            HoldsMessages(log, r, p, out.ids, out.messages)
    BY <2>1, <2>3 DEF ResultJustified
  <2>6. log \in Seq(IncomingMessages) /\ DOMAIN log = 1 .. Len(log)
    BY <1>1 DEF TypeOK
  <2> HIDE DEF out
  <2>7. ASSUME NEW s \in DOMAIN out.messages
        PROVE  LET e == IterIndexed(out)[s] IN
                 /\ e.id \in DOMAIN log
                 /\ log[e.id].round = r
                 /\ log[e.id].sender = e.party
                 /\ log[e.id].msg = e.msg
    <3>1. /\ PartyOf(Me, s) \in Others(Me, N)
          /\ SlotOf(Me, PartyOf(Me, s)) = s
      BY <2>4, PartyAssumption, SlotsAndParties
    <3>2. PICK q \in 1 .. p : /\ log[q].round = r
                              /\ log[q].sender = PartyOf(Me, s)
                              /\ out.ids[s] = q
                              /\ out.messages[s] = log[q].msg
      BY <2>5, <3>1 DEF HoldsMessages, Of
    <3>3. q \in DOMAIN log
      BY <2>6
    <3>. QED  BY <2>2, <3>2, <3>3 DEF IterIndexed
  <2>8. Cardinality(DOMAIN out.messages) = N - 1
    BY <2>4, PartyAssumption, SlotsFinite
  <2>9. ASSUME NEW mine \in Msg
        PROVE  /\ IncludingMe(out, mine)[Me] = mine
               /\ \A j \in Others(Me, N) :
                    \E s \in DOMAIN out.messages :
                      /\ IterIndexed(out)[s].party = j
                      /\ IterIndexed(out)[s].msg = IncludingMe(out, mine)[j]
    <3>1. IncludingMe(out, mine)[Me] = mine
      BY <2>2, <2>8, PartyAssumption DEF IncludingMe
    <3>2. ASSUME NEW j \in Others(Me, N)
          PROVE  IncludingMe(out, mine)[j] = out.messages[SlotOf(Me, j)]
      BY <2>2, <2>8, PartyAssumption DEF IncludingMe, Others, SlotOf
    <3>3. ASSUME NEW j \in Others(Me, N)
          PROVE  \E s \in DOMAIN out.messages :
                    /\ IterIndexed(out)[s].party = j
                    /\ IterIndexed(out)[s].msg = IncludingMe(out, mine)[j]
      <4>1. /\ SlotOf(Me, j) \in DOMAIN out.messages
            /\ PartyOf(Me, SlotOf(Me, j)) = j
        BY <2>4, PartyAssumption, SlotsAndParties
      <4>2. /\ IterIndexed(out)[SlotOf(Me, j)].party = j
            /\ IterIndexed(out)[SlotOf(Me, j)].msg = out.messages[SlotOf(Me, j)]
        BY <2>2, <4>1 DEF IterIndexed
      <4>. QED  BY <3>2, <4>1, <4>2
    <3>. QED  BY <3>1, <3>3
  <2>. QED  BY <2>7, <2>9 DEF out
<1>. QED
  BY <1>1, TypeCorrect, ReturnedCorrect, PTL

-----------------------------------------------------------------------------
(***************************************************************************)
(* Waiting, witnesses and outcomes.  A witness protects its round because  *)
(* only the call that consumed it can take the outcome; this needs that    *)
(* the awaited round is in progress and its witness is no longer held.     *)
(***************************************************************************)
WitnessErrors(r) == {Err(AlreadyTaken), Err(UnregisteredRound(r, TRUE))}

NoWitnessErrors ==
    \A r \in Rounds : \A k \in DOMAIN returned[r] :
        returned[r][k] \notin WitnessErrors(r)

Held(round) == round.st \in {"InProgress", "Completed"}

WitnessInv ==
    /\ TypeInv
    /\ NeverWaitsInVain
    /\ foreign \subseteq Foreign
    /\ Foreign = {} => /\ \A r \in witnesses : Held(rounds[r])
                       /\ pc = "completing" => cur \notin witnesses
                       /\ NoWitnessErrors

LEMMA SettleHeld ==
    ASSUME NEW r, NEW store
    PROVE  Held(Settle(r, store))
    BY DEF Held, Settle, InProgress, Completed

LEMMA ReceivedMsgHeld ==
    ASSUME DOMAIN rounds = Rounds, NEW m, m.round \in Rounds,
           NEW r \in Rounds
    PROVE  /\ Held(rounds[r]) => Held(ReceivedMsg(m)[r])
           /\ rounds[r].st = "Completed" => ReceivedMsg(m)[r] = rounds[r]
           /\ rounds[r].st = "Gone" => ReceivedMsg(m)[r] = rounds[r]
<1>1. \A store : Held(ProcessMessage(r, store, m))
  BY SettleHeld DEF ProcessMessage, Held, Completed
<1>2. CASE NeedsMoreMessages(rounds[m.round]) /\ m.round = r
  BY <1>1, <1>2 DEF ReceivedMsg, NeedsMoreMessages
<1>3. CASE ~ (NeedsMoreMessages(rounds[m.round]) /\ m.round = r)
  <2>1. ReceivedMsg(m)[r] = rounds[r]
    BY <1>3 DEF ReceivedMsg
  <2>. QED
    BY <2>1
<1>. QED
  BY <1>2, <1>3

LEMMA OutcomesAreNoWitnessErrors ==
    ASSUME NEW r, NEW res \in RoundResults
    PROVE  res \notin WitnessErrors(r)
    BY CallErrorsAreNoOutcomes DEF WitnessErrors

LEMMA DowncastIsNoWitnessError ==
    ASSUME NEW r, NEW res \in RoundResults, NEW by
    PROVE  Downcast(r, res, by) \notin WitnessErrors(r)
<1>1. {Err(MismatchedOutputType), Err(MismatchedErrorType)}
        \cap WitnessErrors(r) = {}
  BY DEF WitnessErrors, Err, UnregisteredRound, AlreadyTaken,
         MismatchedOutputType, MismatchedErrorType
<1>. QED
  BY <1>1, DowncastType, OutcomesAreNoWitnessErrors

LEMMA ReturnNoWitnessError ==
    ASSUME NEW STATE r, r \in Rounds, NEW STATE res,
           returned \in [Rounds -> Seq(CallResults)],
           NoWitnessErrors, res \notin WitnessErrors(r), Return(r, res)
    PROVE  NoWitnessErrors'
<1>1. returned' = [returned EXCEPT ![r] = Append(returned[r], res)]
  BY DEF Return
<1>2. SUFFICES ASSUME NEW q \in Rounds, NEW k \in DOMAIN returned'[q]
               PROVE  returned'[q][k] \notin WitnessErrors(q)
  BY DEF NoWitnessErrors, WitnessErrors
<1>3. CASE q # r
  BY <1>1, <1>2, <1>3 DEF NoWitnessErrors
<1>4. CASE q = r
  <2>1. /\ returned'[q] = Append(returned[q], res)
        /\ returned[q] \in Seq(CallResults)
    BY <1>1, <1>4
  <2>2. \/ k \in DOMAIN returned[q] /\ returned'[q][k] = returned[q][k]
        \/ returned'[q][k] = res
    BY <2>1
  <2>. QED
    BY <1>4, <2>2 DEF NoWitnessErrors
<1>. QED
  BY <1>3, <1>4

\* The check of the awaited round never answers with a witness error if the
\* router holds the round, and leaves the other rounds alone.
LEMMA TryCompleteHeld ==
    ASSUME NEW STATE rs, NEW STATE r, NEW STATE by,
           r \in Rounds, DOMAIN rs = Rounds,
           \A q \in Rounds : RoundOK(q, rs[q]),
           returned \in [Rounds -> Seq(CallResults)],
           TryComplete(rs, r, by)
    PROVE  /\ NeverWaitsInVain'
           /\ pc' = "completing" => cur' = r
           /\ \A q \in Rounds \ {r} : rounds'[q] = rs[q]
           /\ Held(rs[r]) /\ NoWitnessErrors => NoWitnessErrors'
<1>1. CASE NeedsMoreMessages(rs[r])
  BY <1>1 DEF TryComplete, NeedsMoreMessages, NeverWaitsInVain,
              NoWitnessErrors, WitnessErrors
<1>2. CASE ~ NeedsMoreMessages(rs[r])
  <2>1. /\ rounds' = [rs EXCEPT ![r] = AfterTake(rs[r])]
        /\ Return(r, RoundResult(r, rs[r], by))
        /\ pc' = "idle"
    BY <1>2 DEF TryComplete, Return
  <2>2. Held(rs[r]) => RoundResult(r, rs[r], by) \notin WitnessErrors(r)
    <3>1. ASSUME Held(rs[r])
          PROVE  /\ RoundResult(r, rs[r], by) = Downcast(r, rs[r].res, by)
                 /\ rs[r].res \in RoundResults
      <4>1. rs[r].st = "Completed"
        BY <1>2, <3>1 DEF Held, NeedsMoreMessages
      <4>2. rs[r] \in [st : {"Completed"}, res : RoundResults]
        BY <4>1 DEF RoundOK, RoundStates, Unregistered, Gone
      <4>3. RoundResult(r, rs[r], by) = Downcast(r, rs[r].res, by)
        BY <4>1 DEF RoundResult
      <4>. QED
        BY <4>2, <4>3
    <3>. QED
      BY <3>1, DowncastIsNoWitnessError
  <2>. QED
    BY <2>1, <2>2, ReturnNoWitnessError DEF NeverWaitsInVain
<1>. QED
  BY <1>1, <1>2

LEMMA WitnessInit == Init => WitnessInv
    BY TypeInit DEF Init, WitnessInv, NeverWaitsInVain, NoWitnessErrors

LEMMA WitnessNext == WitnessInv /\ [Next]_vars => WitnessInv'
<1> SUFFICES ASSUME WitnessInv, [Next]_vars
             PROVE  WitnessInv'
  OBVIOUS
<1>1. TypeInv /\ TypeInv'
  BY TypeNext DEF WitnessInv
<1>2. /\ DOMAIN rounds = Rounds /\ witnesses \subseteq Rounds
      /\ returned \in [Rounds -> Seq(CallResults)]
      /\ \A r \in Rounds : RoundOK(r, rounds[r])
      /\ log \in Seq(IncomingMessages)
  BY <1>1 DEF TypeInv, TypeOK, RoundsOK
<1>3. ASSUME NEW r \in Rounds, AddRound(r)
      PROVE  WitnessInv'
  <2>1. Held(NewRound(r))
    BY SettleHeld DEF NewRound
  <2>2. \A q \in Rounds : Held(rounds[q]) \/ q = r => Held(rounds'[q])
    BY <1>2, <1>3, <2>1 DEF AddRound
  <2>3. pc' # "completing" /\ returned' = returned /\ foreign' = foreign
        /\ witnesses' \subseteq witnesses \cup {r}
    BY <1>3 DEF AddRound
  <2>4. NoWitnessErrors => NoWitnessErrors'
    BY <2>3 DEF NoWitnessErrors, WitnessErrors
  <2>. QED
    BY <1>1, <1>2, <2>2, <2>3, <2>4 DEF WitnessInv, NeverWaitsInVain
<1>4. ASSUME NEW r \in Rounds, Complete(r)
      PROVE  WitnessInv'
  <2>1. /\ TryComplete(rounds, r, "own") /\ witnesses' = witnesses \ {r}
        /\ r \in witnesses /\ foreign' = foreign
    BY <1>4 DEF Complete
  <2>2. /\ NeverWaitsInVain'
        /\ pc' = "completing" => cur' = r
        /\ \A q \in Rounds \ {r} : rounds'[q] = rounds[q]
        /\ Held(rounds[r]) /\ NoWitnessErrors => NoWitnessErrors'
    BY <1>2, <2>1, TryCompleteHeld
  <2>. QED
    BY <1>1, <1>2, <2>1, <2>2 DEF WitnessInv
<1>5. ASSUME NEW r \in Rounds, CompleteForeign(r)
      PROVE  WitnessInv'
  <2>1. /\ TryComplete(rounds, r, "foreign") /\ foreign' \subseteq foreign
        /\ r \in foreign
    BY <1>5 DEF CompleteForeign
  <2>2. NeverWaitsInVain'
    BY <1>2, <2>1, TryCompleteHeld
  <2>. QED
    BY <1>1, <2>1, <2>2 DEF WitnessInv
<1>6. ASSUME NEW w \in Wire, Receive(w)
      PROVE  WitnessInv'
  <2> DEFINE m == Incoming(w)
  <2>1. /\ m \in IncomingMessages /\ m.round = w.round
        /\ witnesses' = witnesses /\ foreign' = foreign
    BY <1>2, <1>6, IncomingType DEF Receive
  <2>2. /\ cur \in Rounds /\ Held(rounds[cur])
        /\ Foreign = {} => cur \notin witnesses
    BY <1>1, <1>6
       DEF Receive, TypeInv, CurOK, WitnessInv, NeverWaitsInVain, Held
  <2>. HIDE DEF m
  <2>3. CASE Registered(w.round)
    <3>1. TryComplete(ReceivedMsg(m), cur, claim)
      BY <1>6, <2>3 DEF Receive, m
    <3>2. /\ DOMAIN ReceivedMsg(m) = Rounds
          /\ \A r \in Rounds : RoundOK(r, ReceivedMsg(m)[r])
      BY <1>1, <1>2, <2>1, <2>3, ReceivedMsgOK DEF Registered, TypeInv
    <3>3. \A r \in Rounds : Held(rounds[r]) => Held(ReceivedMsg(m)[r])
      BY <1>2, <2>1, <2>3, ReceivedMsgHeld DEF Registered
    <3>4. /\ NeverWaitsInVain'
          /\ pc' = "completing" => cur' = cur
          /\ \A q \in Rounds \ {cur} : rounds'[q] = ReceivedMsg(m)[q]
          /\ Held(ReceivedMsg(m)[cur]) /\ NoWitnessErrors
                => NoWitnessErrors'
      BY <1>2, <2>2, <3>1, <3>2, TryCompleteHeld
    <3>. QED
      BY <1>1, <1>2, <2>1, <2>2, <3>3, <3>4 DEF WitnessInv
  <2>4. CASE ~ Registered(w.round)
    <3>1. Return(cur, Err(UnregisteredRound(w.round, FALSE)))
          /\ rounds' = rounds
      BY <1>6, <2>4 DEF Receive
    <3>2. Err(UnregisteredRound(w.round, FALSE)) \notin WitnessErrors(cur)
      BY DEF WitnessErrors, Err, UnregisteredRound, AlreadyTaken
    <3>3. NoWitnessErrors => NoWitnessErrors'
      BY <1>2, <2>2, <3>1, <3>2, ReturnNoWitnessError
    <3>4. pc' = "idle"
      BY <3>1 DEF Return
    <3>. QED
      BY <1>1, <2>1, <3>1, <3>3, <3>4 DEF WitnessInv, NeverWaitsInVain
  <2>. QED
    BY <2>3, <2>4
<1>7. ASSUME ReceiveFails
      PROVE  WitnessInv'
  <2>1. PICK e \in {IoError, UnexpectedEof} : Return(cur, Err(e))
    BY <1>7 DEF ReceiveFails
  <2>2. /\ cur \in Rounds /\ rounds' = rounds
        /\ witnesses' = witnesses /\ foreign' = foreign
    BY <1>1, <1>7 DEF ReceiveFails, TypeInv, CurOK
  <2>3. Err(e) \notin WitnessErrors(cur)
    BY DEF WitnessErrors, Err, UnregisteredRound, AlreadyTaken, IoError,
           UnexpectedEof
  <2>4. NoWitnessErrors => NoWitnessErrors'
    BY <1>2, <2>1, <2>2, <2>3, ReturnNoWitnessError
  <2>5. pc' = "idle"
    BY <2>1 DEF Return
  <2>. QED
    BY <1>1, <2>2, <2>4, <2>5 DEF WitnessInv, NeverWaitsInVain
<1>8. ASSUME \/ FinishSetup \/ CancelComplete \/ Send \/ SendFails
             \/ StartSendMany \/ Feed \/ Flush \/ LoseParty
      PROVE  WitnessInv'
  <2>1. /\ rounds' = rounds /\ returned' = returned
        /\ witnesses' = witnesses /\ foreign' = foreign
        /\ pc' # "completing"
    BY <1>8 DEF FinishSetup, CancelComplete, Send, SendFails,
                StartSendMany, Feed, Flush, LoseParty
  <2>2. NoWitnessErrors => NoWitnessErrors'
    BY <2>1 DEF NoWitnessErrors, WitnessErrors
  <2>. QED
    BY <1>1, <2>1, <2>2 DEF WitnessInv, NeverWaitsInVain
<1>9. CASE UNCHANGED vars
  <2>1. NoWitnessErrors => NoWitnessErrors'
    BY <1>9 DEF NoWitnessErrors, WitnessErrors, vars
  <2>. QED
    BY <1>1, <1>9, <2>1 DEF WitnessInv, NeverWaitsInVain, vars
<1>. QED
  BY <1>3, <1>4, <1>5, <1>6, <1>7, <1>8, <1>9 DEF Next

\* complete never waits for a round that is already decided.
THEOREM WaitsCorrect == Spec => []NeverWaitsInVain
<1>1. WitnessInv => NeverWaitsInVain
  BY DEF WitnessInv
<1>. QED
  BY <1>1, WitnessInit, WitnessNext, PTL DEF Spec

\* A party that uses only its own witnesses never gets the router's errors
\* about witnesses, in any order of calls, failures and cancellations.
THEOREM WitnessCorrect == Spec => []WitnessGuardsRound
<1>1. WitnessInv => WitnessGuardsRound
  BY DEF WitnessInv, WitnessGuardsRound, NoWitnessErrors, WitnessErrors,
         Held
<1>. QED
  BY <1>1, WitnessInit, WitnessNext, PTL DEF Spec

\* The answers to the calls for one round: whether some call took the
\* outcome, and what the calls after it and the failed downcasts say.
TakenFrom(results) == \E k \in DOMAIN results : TakesOutcome(results[k])

AnswersOK(r, results, left) ==
    \A k \in DOMAIN results :
        /\ results[k] = Err(AlreadyTaken)
             <=> \E j \in 1 .. (k - 1) : TakesOutcome(results[j])
        /\ results[k] = Err(MismatchedOutputType) => r \in OtherOutput \ left
        /\ results[k] = Err(MismatchedErrorType) => r \in OtherError \ left

\* The pending call has used up the foreign witness that it claims with.
ClaimOK == pc = "completing" /\ claim = "foreign" => cur \notin foreign

TakenInv ==
    /\ TypeInv
    /\ NeverWaitsInVain
    /\ ClaimOK
    /\ pc = "setup" => \A r \in Rounds : returned[r] = <<>>
    /\ pc = "setup" => \A r \in Rounds : rounds[r] # Gone
    /\ \A r \in Rounds : rounds[r] = Gone <=> TakenFrom(returned[r])
    /\ \A r \in Rounds : AnswersOK(r, returned[r], foreign)

\* One more answer.  It says that the outcome is taken if and only if it is.
LEMMA ReturnTaken ==
    ASSUME NEW STATE r, r \in Rounds, NEW STATE res, NEW STATE left,
           returned \in [Rounds -> Seq(CallResults)],
           \A q \in Rounds : AnswersOK(q, returned[q], left),
           res = Err(AlreadyTaken) <=> TakenFrom(returned[r]),
           res = Err(MismatchedOutputType) => r \in OtherOutput \ left,
           res = Err(MismatchedErrorType) => r \in OtherError \ left,
           Return(r, res)
    PROVE  /\ \A q \in Rounds : AnswersOK(q, returned'[q], left)
           /\ \A q \in Rounds \ {r} : returned'[q] = returned[q]
           /\ TakenFrom(returned'[r])
                <=> TakenFrom(returned[r]) \/ TakesOutcome(res)
<1> DEFINE old == returned[r]
           new == returned'[r]
<1>1. returned' = [returned EXCEPT ![r] = Append(returned[r], res)]
  BY DEF Return
<1>2. \A q \in Rounds \ {r} : returned'[q] = returned[q]
  BY <1>1
<1>3. new = Append(old, res) /\ old \in Seq(CallResults)
  BY <1>1
<1>. HIDE DEF old, new
<1>4. /\ DOMAIN old = 1 .. Len(old) /\ DOMAIN new = 1 .. (Len(old) + 1)
      /\ Len(old) \in Nat
      /\ \A k \in 1 .. Len(old) : new[k] = old[k]
      /\ new[Len(old) + 1] = res
  BY <1>3
<1>5. /\ \A k \in DOMAIN new : k \in DOMAIN old \/ k = Len(old) + 1
      /\ \A k \in DOMAIN old : k \in DOMAIN new /\ new[k] = old[k]
      /\ \A k \in DOMAIN old : \A j \in 1 .. (k - 1) : new[j] = old[j]
      /\ Len(old) + 1 \in DOMAIN new
      /\ 1 .. ((Len(old) + 1) - 1) = DOMAIN old
  BY <1>4
<1>6. AnswersOK(r, old, left)
  BY DEF old
<1>7. ASSUME NEW k \in DOMAIN new
      PROVE  /\ new[k] = Err(AlreadyTaken)
                  <=> \E j \in 1 .. (k - 1) : TakesOutcome(new[j])
             /\ new[k] = Err(MismatchedOutputType) => r \in OtherOutput \ left
             /\ new[k] = Err(MismatchedErrorType) => r \in OtherError \ left
  <2>1. CASE k \in DOMAIN old
    BY <2>1, <1>5, <1>6 DEF AnswersOK
  <2>2. CASE k = Len(old) + 1
    <3>1. (\E j \in 1 .. (k - 1) : TakesOutcome(new[j])) <=> TakenFrom(old)
      BY <2>2, <1>5 DEF TakenFrom
    <3>2. new[k] = res
      BY <2>2, <1>4
    <3>. QED
      BY <3>1, <3>2 DEF old
  <2>. QED
    BY <2>1, <2>2, <1>5
<1>8. AnswersOK(r, new, left)
  BY <1>7 DEF AnswersOK
<1>9. TakenFrom(new) <=> TakenFrom(old) \/ TakesOutcome(res)
  BY <1>4, <1>5 DEF TakenFrom
<1>. QED
  BY <1>2, <1>8, <1>9 DEF old, new

\* Of the answers of a call only the outcome and a failed downcast take it.
LEMMA WhichAnswersTake ==
    /\ ~ TakesOutcome(Err(AlreadyTaken))
    /\ ~ TakesOutcome(Err(IoError))
    /\ ~ TakesOutcome(Err(UnexpectedEof))
    /\ \A n, b : ~ TakesOutcome(Err(UnregisteredRound(n, b)))
    /\ \A e \in {IoError, UnexpectedEof} :
         Err(e) \notin {Err(AlreadyTaken), Err(MismatchedOutputType),
                       Err(MismatchedErrorType)}
    /\ \A n, b : Err(UnregisteredRound(n, b)) \notin
                  {Err(AlreadyTaken), Err(MismatchedOutputType),
                   Err(MismatchedErrorType)}
<1>1. ASSUME NEW e, NEW f, e.kind # f.kind
      PROVE  Err(e) # Err(f)
  <2>1. Err(e).err = e /\ Err(f).err = f
    BY DEF Err
  <2>. QED
    BY <1>1, <2>1
<1>. USE DEF AlreadyTaken, IoError, UnexpectedEof, UnregisteredRound,
             MismatchedOutputType, MismatchedErrorType
<1>2. /\ Err(AlreadyTaken) # Err(MismatchedOutputType)
      /\ Err(AlreadyTaken) # Err(MismatchedErrorType)
  BY <1>1
<1>3. \A e \in {IoError, UnexpectedEof} :
         Err(e) \notin {Err(AlreadyTaken), Err(MismatchedOutputType),
                       Err(MismatchedErrorType)}
  BY <1>1
<1>4. \A n, b : Err(UnregisteredRound(n, b)) \notin
                  {Err(AlreadyTaken), Err(MismatchedOutputType),
                   Err(MismatchedErrorType)}
  BY <1>1
<1>. QED
  BY <1>2, <1>3, <1>4, CallErrorsAreNoOutcomes DEF TakesOutcome

\* A call whose round the router has decided is answered with the outcome, or
\* destroys it because the witness is a foreign one of another type.
LEMMA DowncastTakes ==
    ASSUME NEW r, NEW res \in RoundResults, NEW by, NEW left,
           by = "foreign" => r \notin left
    PROVE  LET ans == Downcast(r, res, by) IN
           /\ TakesOutcome(ans)
           /\ ans # Err(AlreadyTaken)
           /\ ans = Err(MismatchedOutputType) => r \in OtherOutput \ left
           /\ ans = Err(MismatchedErrorType) => r \in OtherError \ left
<1>1. Err(MismatchedOutputType) # Err(MismatchedErrorType)
  BY DEF Err, MismatchedOutputType, MismatchedErrorType
<1>2. TakesOutcome(Downcast(r, res, by))
  BY DowncastType DEF TakesOutcome
<1>3. Downcast(r, res, by) # Err(AlreadyTaken)
  BY <1>2, WhichAnswersTake
<1>. QED
  BY <1>1, <1>2, <1>3, DowncastType, CallErrorsAreNoOutcomes

LEMMA TryCompleteTaken ==
    ASSUME NEW STATE rs, NEW STATE r, NEW STATE by, NEW STATE left,
           r \in Rounds, DOMAIN rs = Rounds,
           \A q \in Rounds : RoundOK(q, rs[q]),
           \A q \in Rounds : rs[q] = Gone <=> TakenFrom(returned[q]),
           \A q \in Rounds : AnswersOK(q, returned[q], left),
           by = "foreign" => r \notin left,
           returned \in [Rounds -> Seq(CallResults)],
           TryComplete(rs, r, by)
    PROVE  /\ \A q \in Rounds : AnswersOK(q, returned'[q], left)
           /\ \A q \in Rounds : rounds'[q] = Gone <=> TakenFrom(returned'[q])
           /\ pc' # "setup"
           /\ NeverWaitsInVain'
           /\ pc' = "completing" => cur' = r /\ claim' = by
<1>1. CASE NeedsMoreMessages(rs[r])
  BY <1>1 DEF TryComplete, NeedsMoreMessages, NeverWaitsInVain
<1>2. CASE ~ NeedsMoreMessages(rs[r])
  <2> DEFINE res == RoundResult(r, rs[r], by)
  <2>1. /\ rounds' = [rs EXCEPT ![r] = AfterTake(rs[r])]
        /\ Return(r, res)
        /\ pc' = "idle"
    BY <1>2 DEF TryComplete, Return
  <2>2. /\ res = Err(AlreadyTaken) <=> rs[r] = Gone
        /\ res = Err(MismatchedOutputType) => r \in OtherOutput \ left
        /\ res = Err(MismatchedErrorType) => r \in OtherError \ left
        /\ AfterTake(rs[r]) = Gone <=> rs[r] = Gone \/ TakesOutcome(res)
    <3>1. rs[r] \in {Unregistered, Gone}
                \cup [st : {"Completed"}, res : RoundResults]
      BY <1>2 DEF NeedsMoreMessages, RoundOK, RoundStates
    <3>2. CASE rs[r] = Unregistered
      <4>1. /\ res = Err(UnregisteredRound(r, TRUE))
            /\ rs[r] # Gone /\ AfterTake(rs[r]) = rs[r]
        BY <3>2 DEF RoundResult, Unregistered, Gone, AfterTake
      <4>. QED
        BY <4>1, WhichAnswersTake
    <3>3. CASE rs[r] = Gone
      <4>1. res = Err(AlreadyTaken) /\ AfterTake(rs[r]) = Gone
        BY <3>3 DEF RoundResult, Gone, AfterTake
      <4>. QED
        BY <3>3, <4>1 DEF Err, AlreadyTaken, MismatchedOutputType,
                          MismatchedErrorType
    <3>4. CASE rs[r] \in [st : {"Completed"}, res : RoundResults]
      <4>1. /\ res = Downcast(r, rs[r].res, by) /\ rs[r].res \in RoundResults
            /\ rs[r] # Gone /\ AfterTake(rs[r]) = Gone
        BY <3>4 DEF RoundResult, Gone, AfterTake
      <4>. HIDE DEF res
      <4>. QED
        BY <4>1, DowncastTakes
    <3>. QED
      BY <3>1, <3>2, <3>3, <3>4
  <2>. HIDE DEF res
  <2>3. /\ \A q \in Rounds : AnswersOK(q, returned'[q], left)
        /\ \A q \in Rounds \ {r} : returned'[q] = returned[q]
        /\ TakenFrom(returned'[r])
             <=> TakenFrom(returned[r]) \/ TakesOutcome(res)
    BY <2>1, <2>2, ReturnTaken
  <2>4. \A q \in Rounds : rounds'[q] = Gone <=> TakenFrom(returned'[q])
    BY <2>1, <2>2, <2>3
  <2>. QED
    BY <2>1, <2>3, <2>4 DEF NeverWaitsInVain
<1>. QED
  BY <1>1, <1>2

LEMMA TakenInit == Init => TakenInv
<1>1. Init => NeverWaitsInVain /\ ClaimOK
  BY DEF Init, NeverWaitsInVain, ClaimOK
<1>2. Init => /\ \A r \in Rounds : rounds[r] # Gone /\ returned[r] = <<>>
  BY DEF Init, Unregistered, Gone
<1>3. \A r : ~ TakenFrom(<<>>) /\ AnswersOK(r, <<>>, foreign)
  BY DEF TakenFrom, AnswersOK
<1>. QED
  BY <1>1, <1>2, <1>3, TypeInit DEF TakenInv

\* A call that ends with an error of its own leaves the outcome where it is.
LEMMA ReturnNoOutcome ==
    ASSUME TakenInv, TypeInv', cur \in Rounds, rounds[cur] # Gone,
           NEW STATE res, Return(cur, res), ~ TakesOutcome(res),
           res \notin {Err(AlreadyTaken), Err(MismatchedOutputType),
                      Err(MismatchedErrorType)},
           rounds' = rounds, foreign' = foreign
    PROVE  TakenInv'
<1>1. /\ returned \in [Rounds -> Seq(CallResults)]
      /\ \A q \in Rounds : AnswersOK(q, returned[q], foreign)
      /\ \A q \in Rounds : rounds[q] = Gone <=> TakenFrom(returned[q])
  BY DEF TakenInv, TypeInv, TypeOK
<1>2. /\ \A q \in Rounds : AnswersOK(q, returned'[q], foreign)
      /\ \A q \in Rounds \ {cur} : returned'[q] = returned[q]
      /\ TakenFrom(returned'[cur])
           <=> TakenFrom(returned[cur]) \/ TakesOutcome(res)
  BY <1>1, ReturnTaken
<1>3. \A q \in Rounds : rounds'[q] = Gone <=> TakenFrom(returned'[q])
  BY <1>1, <1>2
<1>4. pc' = "idle"
  BY DEF Return
<1>. QED
  BY <1>2, <1>3, <1>4 DEF TakenInv, NeverWaitsInVain, ClaimOK

LEMMA ReceivedMsgGone ==
    ASSUME DOMAIN rounds = Rounds, NEW m, m.round \in Rounds,
           NEW r \in Rounds
    PROVE  ReceivedMsg(m)[r] = Gone <=> rounds[r] = Gone
<1>1. CASE NeedsMoreMessages(rounds[r])
  BY <1>1, ReceivedMsgHeld DEF NeedsMoreMessages, Held, Gone
<1>2. CASE ~ NeedsMoreMessages(rounds[r])
  BY <1>2 DEF ReceivedMsg
<1>. QED
  BY <1>1, <1>2

\* The steps that leave the router and the answers alone.
LEMMA TakenFrame ==
    ASSUME TakenInv, TypeInv', rounds' = rounds, returned' = returned,
           foreign' = foreign,
           pc' = "completing" => UNCHANGED <<pc, cur, claim>>,
           pc' = "setup" => pc = "setup"
    PROVE  TakenInv'
<1>1. NeverWaitsInVain' /\ ClaimOK'
  BY DEF TakenInv, NeverWaitsInVain, ClaimOK
<1>2. (\A r \in Rounds : AnswersOK(r, returned[r], foreign))'
  BY DEF TakenInv
<1>3. (\A r \in Rounds : rounds[r] = Gone <=> TakenFrom(returned[r]))'
  BY DEF TakenInv
<1>. QED
  BY <1>1, <1>2, <1>3 DEF TakenInv

LEMMA TakenNext == TakenInv /\ [Next]_vars => TakenInv'
<1> SUFFICES ASSUME TakenInv, [Next]_vars
             PROVE  TakenInv'
  OBVIOUS
<1>1. TypeInv /\ TypeInv'
  BY TypeNext DEF TakenInv
<1>2. /\ DOMAIN rounds = Rounds
      /\ returned \in [Rounds -> Seq(CallResults)]
      /\ \A r \in Rounds : RoundOK(r, rounds[r])
      /\ log \in Seq(IncomingMessages)
  BY <1>1 DEF TypeInv, TypeOK, RoundsOK
<1>3. ASSUME NEW r \in Rounds, AddRound(r)
      PROVE  TakenInv'
  <2>1. /\ returned' = returned /\ foreign' = foreign
        /\ \A q \in Rounds : returned[q] = <<>> /\ rounds[q] # Gone
        /\ rounds' = [rounds EXCEPT ![r] = NewRound(r)]
        /\ pc' # "completing"
    BY <1>3 DEF AddRound, TakenInv
  <2>2. NewRound(r) # Gone
    BY SettleHeld DEF NewRound, Held, Gone
  <2>3. \A q \in Rounds : rounds'[q] # Gone
    BY <1>2, <2>1, <2>2
  <2>4. ~ TakenFrom(<<>>)
    BY DEF TakenFrom
  <2>5. NeverWaitsInVain' /\ ClaimOK'
    BY <2>1 DEF NeverWaitsInVain, ClaimOK
  <2>. QED
    BY <1>1, <2>1, <2>3, <2>4, <2>5 DEF TakenInv
<1>4. ASSUME NEW r \in Rounds, Complete(r) \/ CompleteForeign(r)
      PROVE  TakenInv'
  <2>1. PICK by \in {"own", "foreign"} :
            /\ TryComplete(rounds, r, by)
            /\ foreign' \subseteq foreign
            /\ by = "foreign" => r \notin foreign'
    BY <1>4 DEF Complete, CompleteForeign
  <2>2. \A q \in Rounds : AnswersOK(q, returned[q], foreign')
    BY <2>1 DEF TakenInv, AnswersOK
  <2>3. /\ \A q \in Rounds : AnswersOK(q, returned'[q], foreign')
        /\ \A q \in Rounds : rounds'[q] = Gone <=> TakenFrom(returned'[q])
        /\ pc' # "setup"
        /\ NeverWaitsInVain'
        /\ pc' = "completing" => cur' = r /\ claim' = by
    <3>1. \A q \in Rounds : rounds[q] = Gone <=> TakenFrom(returned[q])
      BY DEF TakenInv
    <3>. QED
      BY <1>2, <2>1, <2>2, <3>1, TryCompleteTaken
  <2>4. ClaimOK'
    BY <2>1, <2>3 DEF ClaimOK
  <2>. QED
    BY <1>1, <2>3, <2>4 DEF TakenInv
<1>5. ASSUME NEW w \in Wire, Receive(w)
      PROVE  TakenInv'
  <2> DEFINE m == Incoming(w)
  <2>1. m \in IncomingMessages /\ m.round = w.round
    BY <1>2, <1>5, IncomingType DEF Receive
  <2>2. /\ cur \in Rounds /\ foreign' = foreign
        /\ claim = "foreign" => cur \notin foreign
        /\ rounds[cur] # Gone
    BY <1>1, <1>5 DEF Receive, TypeInv, CurOK, TakenInv, ClaimOK,
                      NeverWaitsInVain, Gone
  <2>. HIDE DEF m
  <2>3. CASE Registered(w.round)
    <3>1. TryComplete(ReceivedMsg(m), cur, claim)
      BY <1>5, <2>3 DEF Receive, m
    <3>2. /\ DOMAIN ReceivedMsg(m) = Rounds
          /\ \A r \in Rounds : RoundOK(r, ReceivedMsg(m)[r])
      BY <1>1, <1>2, <2>1, <2>3, ReceivedMsgOK DEF Registered, TypeInv
    <3>3. /\ \A q \in Rounds :
               ReceivedMsg(m)[q] = Gone <=> TakenFrom(returned[q])
          /\ \A q \in Rounds : AnswersOK(q, returned[q], foreign)
      BY <1>2, <2>1, <2>3, ReceivedMsgGone DEF Registered, TakenInv
    <3>4. /\ \A q \in Rounds : AnswersOK(q, returned'[q], foreign)
          /\ \A q \in Rounds : rounds'[q] = Gone <=> TakenFrom(returned'[q])
          /\ pc' # "setup"
          /\ NeverWaitsInVain'
          /\ pc' = "completing" => cur' = cur /\ claim' = claim
      BY <1>2, <2>2, <3>1, <3>2, <3>3, TryCompleteTaken
    <3>5. ClaimOK'
      BY <2>2, <3>4 DEF ClaimOK
    <3>. QED
      BY <1>1, <2>2, <3>4, <3>5 DEF TakenInv
  <2>4. CASE ~ Registered(w.round)
    <3>1. Return(cur, Err(UnregisteredRound(w.round, FALSE)))
          /\ rounds' = rounds
      BY <1>5, <2>4 DEF Receive
    <3>. QED
      BY <1>1, <2>2, <3>1, WhichAnswersTake, ReturnNoOutcome
  <2>. QED
    BY <2>3, <2>4
<1>6. ASSUME ReceiveFails
      PROVE  TakenInv'
  <2>1. PICK e \in {IoError, UnexpectedEof} : Return(cur, Err(e))
    BY <1>6 DEF ReceiveFails
  <2>2. /\ cur \in Rounds /\ rounds' = rounds /\ foreign' = foreign
        /\ rounds[cur] # Gone
    BY <1>1, <1>6 DEF ReceiveFails, TypeInv, CurOK, TakenInv,
                      NeverWaitsInVain, Gone
  <2>. QED
    BY <1>1, <2>1, <2>2, WhichAnswersTake, ReturnNoOutcome
<1>7. ASSUME \/ FinishSetup \/ CancelComplete \/ Send \/ SendFails
             \/ StartSendMany \/ Feed \/ Flush \/ LoseParty
             \/ UNCHANGED vars
      PROVE  TakenInv'
  <2>1. /\ rounds' = rounds /\ returned' = returned /\ foreign' = foreign
        /\ pc' = "completing" => UNCHANGED <<pc, cur, claim>>
        /\ pc' = "setup" => pc = "setup"
    BY <1>7 DEF FinishSetup, CancelComplete, Send, SendFails,
                StartSendMany, Feed, Flush, LoseParty, vars
  <2>. QED
    BY <1>1, <2>1, TakenFrame
<1>. QED
  BY <1>3, <1>4, <1>5, <1>6, <1>7 DEF Next

\* The outcome of a round is taken exactly once, and later calls are told so,
\* even for a protocol that holds witnesses of other parties for it; only
\* such a witness, of another type, destroys the outcome.
THEOREM TakenOnceCorrect == Spec => []OutcomeTakenOnce
<1>1. TakenInv => OutcomeTakenOnce
  BY DEF TakenInv, OutcomeTakenOnce, TakenFrom, AnswersOK
<1>. QED
  BY <1>1, TakenInit, TakenNext, PTL DEF Spec

\* The outcome res of round q is handed out, or destroyed by a foreign witness
\* of another type.
HandedOut(q, res) == returned'[q] = Append(returned[q], res)
Destroyed(q, res) == q \in foreign \ foreign' /\ Mistyped(q, res, "foreign")

LEMMA TryCompleteKeeps ==
    ASSUME NEW STATE rs, NEW STATE r, NEW STATE by,
           r \in Rounds, DOMAIN rs = Rounds,
           returned \in [Rounds -> Seq(CallResults)],
           NEW q \in Rounds, rs[q].st = "Completed", TryComplete(rs, r, by)
    PROVE  \/ rounds'[q] = rs[q]
           \/ /\ rounds'[q] = Gone
              /\ \/ HandedOut(q, rs[q].res)
                 \/ q = r /\ by = "foreign" /\ Mistyped(q, rs[q].res, by)
<1>1. CASE NeedsMoreMessages(rs[r]) \/ q # r
  BY <1>1 DEF TryComplete
<1>2. CASE ~ NeedsMoreMessages(rs[r]) /\ q = r
  <2>1. /\ rounds' = [rs EXCEPT ![r] = AfterTake(rs[r])]
        /\ Return(r, RoundResult(r, rs[r], by))
    BY <1>2 DEF TryComplete
  <2>2. /\ AfterTake(rs[r]) = Gone
        /\ RoundResult(r, rs[r], by) = Downcast(r, rs[r].res, by)
    BY <1>2 DEF AfterTake, RoundResult
  <2>3. returned'[r] = Append(returned[r], Downcast(r, rs[r].res, by))
    BY <2>1, <2>2 DEF Return
  <2>. QED
    BY <1>2, <2>1, <2>2, <2>3, DowncastType DEF HandedOut
<1>. QED
  BY <1>1, <1>2

\* A decided round keeps its outcome until the step that hands it out, or
\* until a foreign witness of another type is used for it.  That the awaited
\* round is never a decided one leaves the first check of a call as the only
\* step that can take a decided outcome.
THEOREM OutcomeKeptCorrect == Spec => OutcomeKept
<1> DEFINE Kept(q) == \/ rounds'[q] = rounds[q]
                      \/ /\ rounds'[q] = Gone
                         /\ \/ HandedOut(q, rounds[q].res)
                            \/ Destroyed(q, rounds[q].res)
<1>1. TypeInv /\ NeverWaitsInVain /\ [Next]_vars
        => [\A r \in Rounds :
              rounds[r].st = "Completed" /\ pc' # "panicked" =>
                 \/ rounds'[r] = rounds[r]
                 \/ /\ rounds'[r] = Gone
                    /\ \/ returned'[r] = Append(returned[r], rounds[r].res)
                       \/ /\ r \in foreign \ foreign'
                          /\ Mistyped(r, rounds[r].res, "foreign")]_vars
  <2> SUFFICES ASSUME TypeInv, NeverWaitsInVain, Next,
                      NEW q \in Rounds, rounds[q].st = "Completed",
                      pc' # "panicked"
               PROVE  Kept(q)
    BY DEF HandedOut, Destroyed
  <2>1. /\ DOMAIN rounds = Rounds
        /\ returned \in [Rounds -> Seq(CallResults)]
        /\ log \in Seq(IncomingMessages)
    BY DEF TypeInv, TypeOK
  <2>2. ASSUME NEW r \in Rounds, AddRound(r)
        PROVE  rounds'[q] = rounds[q]
    BY <2>1, <2>2 DEF AddRound, Registered, Unregistered
  <2>3. ASSUME NEW r \in Rounds, Complete(r) \/ CompleteForeign(r)
        PROVE  Kept(q)
    <3>1. PICK by \in {"own", "foreign"} :
            /\ TryComplete(rounds, r, by)
            /\ by = "foreign" => r \in foreign \ foreign'
      BY <2>3 DEF Complete, CompleteForeign
    <3>2. \/ rounds'[q] = rounds[q]
          \/ /\ rounds'[q] = Gone
             /\ \/ HandedOut(q, rounds[q].res)
                \/ /\ q = r /\ by = "foreign"
                   /\ Mistyped(q, rounds[q].res, by)
      BY <2>1, <3>1, TryCompleteKeeps
    <3>. QED
      BY <3>1, <3>2 DEF Destroyed
  <2>4. ASSUME NEW w \in Wire, Receive(w), Registered(w.round)
        PROVE  rounds'[q] = rounds[q]
    <3> DEFINE m == Incoming(w)
    <3>1. m \in IncomingMessages /\ m.round = w.round
      BY <2>1, IncomingType
    <3>2. /\ TryComplete(ReceivedMsg(m), cur, claim) /\ cur \in Rounds
          /\ q # cur
      BY <2>4 DEF Receive, TypeInv, CurOK, NeverWaitsInVain
    <3>. HIDE DEF m
    <3>3. ReceivedMsg(m)[q] = rounds[q]
      BY <2>1, <2>4, <3>1, ReceivedMsgHeld DEF Registered
    <3>4. DOMAIN ReceivedMsg(m) = Rounds
      BY <2>1, <2>4, <3>1 DEF ReceivedMsg
    <3>. QED
      BY <3>2, <3>3, <3>4 DEF TryComplete
  <2>5. ASSUME NEW w \in Wire, Receive(w), ~ Registered(w.round)
        PROVE  rounds' = rounds
    BY <2>5 DEF Receive
  <2>6. ASSUME \/ FinishSetup \/ ReceiveFails \/ CancelComplete \/ Send
               \/ SendFails \/ StartSendMany \/ Feed \/ Flush \/ LoseParty
        PROVE  rounds' = rounds
    BY <2>6 DEF FinishSetup, ReceiveFails, CancelComplete, Send, SendFails,
                StartSendMany, Feed, Flush, LoseParty
  <2>. QED
    BY <2>2, <2>3, <2>4, <2>5, <2>6 DEF Next
<1>. QED
  BY <1>1, TypeInit, TypeNext, WaitsCorrect, PTL DEF Spec, OutcomeKept

-----------------------------------------------------------------------------
(***************************************************************************)
(* Sending.  The invariant speaks of every state in which the protocol     *)
(* could call complete, not only of the waiting ones.                      *)
(***************************************************************************)
FlushInv ==
    pc \in {"setup", "idle", "completing"} /\ unflushed # 0 => sendFailed

\* Without failed sends the party awaits others only with an empty sink.
THEOREM FlushCorrect == Spec => []NothingUnflushedWhileWaiting
<1>1. Init => FlushInv
  BY DEF Init, FlushInv
<1>2. FlushInv /\ [Next]_vars => FlushInv'
  <2> SUFFICES ASSUME FlushInv, [Next]_vars
               PROVE  FlushInv'
    OBVIOUS
  <2>1. ASSUME \/ \E r \in Rounds : \/ AddRound(r)
                                    \/ Complete(r)
                                    \/ CompleteForeign(r)
               \/ \E w \in Wire : Receive(w)
               \/ FinishSetup \/ ReceiveFails \/ CancelComplete
        PROVE  FlushInv'
    <3>1. /\ pc \in {"setup", "idle", "completing"}
          /\ unflushed' = unflushed /\ sendFailed' = sendFailed
      BY <2>1 DEF AddRound, Complete, CompleteForeign, Receive,
                  FinishSetup, ReceiveFails, CancelComplete
    <3>. QED
      BY <3>1 DEF FlushInv
  <2>2. CASE Send \/ Flush
    BY <2>2 DEF Send, Flush, FlushInv
  <2>3. CASE SendFails
    BY <2>3 DEF SendFails, FlushInv
  <2>4. CASE StartSendMany \/ Feed \/ LoseParty
    BY <2>4 DEF StartSendMany, Feed, LoseParty, FlushInv
  <2>5. CASE UNCHANGED vars
    BY <2>5 DEF vars, FlushInv
  <2>. QED
    BY <2>1, <2>2, <2>3, <2>4, <2>5 DEF Next
<1>3. FlushInv => NothingUnflushedWhileWaiting
  <2>1. unflushed > 0 => unflushed # 0
    OBVIOUS
  <2>. QED
    BY <2>1 DEF FlushInv, NothingUnflushedWhileWaiting
<1>. QED
  BY <1>1, <1>2, <1>3, PTL DEF Spec
=============================================================================
