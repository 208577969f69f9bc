------------------------------ MODULE MpcParty ------------------------------
(***************************************************************************)
(* One party of a protocol: `MpcParty` (mpc/party/mod.rs) with the router  *)
(* of its rounds (mpc/party/router.rs).                                    *)
(*                                                                         *)
(* The protocol registers its rounds, finishes the setup and then awaits   *)
(* `complete(round)` for one round at a time.  `complete` is the only      *)
(* place where the party reads its incoming stream: whatever arrives is    *)
(* routed to the store of ITS round, which may be another round than the   *)
(* awaited one.  The environment chooses every message, so messages        *)
(* arrive early, late, twice, with the wrong type or for unknown rounds.   *)
(***************************************************************************)
EXTENDS RoundInput, Sequences

CONSTANTS
    N, Me,      \* number of parties, index of this one
    Rounds,     \* rounds of the protocol's message type (M::ROUND)
    TypeOf,     \* the type of messages the store of each round expects
    Empty,      \* rounds with a custom store that wants no messages at all
    Improper,   \* rounds with a custom store that never outputs
    Foreign,    \* rounds for which the protocol holds another party's witness
    OtherOutput,  \* ... given for a store with another type of output
    OtherError,   \* ... given for a store with another type of errors
    Msg, Wire,  \* payloads, and the messages the network may hand over
    MaxLog,     \* bound on the number of received messages
    MaxFeed     \* bound on the messages fed to the sink and not flushed

\* `round` is what ProtocolMsg::round() answers, `variant` the round whose
\* from_protocol_msg() accepts the message.
Message == [round : Nat, variant : Nat, sender : Nat,
            type : MessageTypes, msg : Msg]

ASSUME PartyAssumption == N \in Nat /\ N >= 2 /\ Me \in 0 .. (N - 1)

ASSUME RoundsAssumption ==
    /\ Rounds \subseteq Nat
    /\ TypeOf \in [Rounds -> MessageTypes]
    /\ Empty \subseteq Rounds /\ Improper \subseteq Rounds
    /\ Foreign \subseteq Rounds
    /\ OtherOutput \subseteq Foreign /\ OtherError \subseteq Foreign

ASSUME WireAssumption == Wire \subseteq Message

ASSUME BoundsAssumption == MaxLog \in Nat /\ MaxFeed \in Nat

VARIABLES
    pc,         \* what the protocol is doing with the party
    cur,        \* the round being completed, NoRound if there is none
    claim,      \* whose witness the pending call of complete was given
    rounds,     \* RoundsRouter::rounds
    witnesses,  \* rounds whose witness, got from add_round, is still held
    foreign,    \* rounds whose witness of another party is still held
    log,        \* history: everything received, in order
    returned,   \* history: what the calls of complete(r) returned
    unflushed,  \* messages fed to the sink since its last flush
    sendFailed  \* history: some send was refused or abandoned

vars == <<pc, cur, claim, rounds, witnesses, foreign, log, returned,
          unflushed, sendFailed>>

NoRound == -1
NoClaim == "none"

(***************************************************************************)
(* Results and errors.                                                     *)
(***************************************************************************)
Ok(out) == [ok |-> TRUE, out |-> out]
Err(e) == [ok |-> FALSE, err |-> e]

UnregisteredRound(n, witness) ==
    [kind |-> "UnregisteredRound", n |-> n, witness |-> witness]
StoreDidntOutput == [kind |-> "StoreDidntOutput"]
MessageFromAnotherRound(actual, expected) ==
    [kind |-> "MessageFromAnotherRound", actual |-> actual,
     expected |-> expected]
AlreadyTaken == [kind |-> "AlreadyTaken"]
IoError == [kind |-> "Io"]
UnexpectedEof == [kind |-> "UnexpectedEof"]
MismatchedOutputType == [kind |-> "MismatchedOutputType"]
MismatchedErrorType == [kind |-> "MismatchedErrorType"]

(***************************************************************************)
(* The router's record of one round, ProcessRoundMessageImpl.              *)
(***************************************************************************)
Unregistered == [st |-> "Unregistered"]
InProgress(store) == [st |-> "InProgress", store |-> store]
Completed(res) == [st |-> "Completed", res |-> res]
Gone == [st |-> "Gone"]

\* The stores: a RoundInput, unless the round has one of the custom stores.
StoreWantsMore(r, store) == r \notin Empty /\ WantsMore(store)
StoreOutput(r, store) ==
    IF r \in Improper THEN Err(StoreDidntOutput) ELSE Ok(Output(store))

\* Mutant: the output is asked of a store that still wants messages.
WantsMoreNotAsked(r, store) ==
    Completed(IF StoreWantsMore(r, store) THEN Err(StoreDidntOutput)
                                          ELSE StoreOutput(r, store))

\* A store that wants no more messages is completed with what it outputs.
Settle(r, store) ==
    IF StoreWantsMore(r, store)
      THEN InProgress(store)
      ELSE Completed(StoreOutput(r, store))

NewRound(r) == Settle(r, RoundInputNew(Me, N, TypeOf[r]))

ProcessMessage(r, store, m) ==
    IF m.variant # r
      THEN Completed(Err(MessageFromAnotherRound(m.round, r)))
    ELSE IF AddMessageError(store, m) # NoError
      THEN Completed(Err(AddMessageError(store, m)))
    ELSE Settle(r, AddMessage(store, m))

NeedsMoreMessages(round) == round.st = "InProgress"

\* Mutant: a message that comes after the round is decided is an error.
LateMessageIsError(m) ==
    CASE NeedsMoreMessages(rounds[m.round]) ->
           [rounds EXCEPT ![m.round] = ProcessMessage(m.round, @.store, m)]
      [] rounds[m.round].st = "Completed" ->
           [rounds EXCEPT ![m.round] = Completed(Err(
                AttemptToOverwriteReceivedMsg(0, m.id, m.sender)))]
      [] OTHER -> rounds

\* Only a round that still needs messages looks at them.
ReceivedMsg(m) ==
    IF NeedsMoreMessages(rounds[m.round])
      THEN [rounds EXCEPT ![m.round] = ProcessMessage(m.round, @.store, m)]
      ELSE rounds

Registered(r) == r \in Rounds /\ rounds[r] # Unregistered

\* A witness is typed by its store and the router's rounds are not: what was
\* taken out of round r is downcast to the output or the error type of the
\* witness, which fails for a foreign witness of another type.
Mistyped(r, res, by) ==
    by = "foreign" /\ r \in (IF res.ok THEN OtherOutput ELSE OtherError)

Downcast(r, res, by) ==
    IF ~ Mistyped(r, res, by)
      THEN res
      ELSE Err(IF res.ok THEN MismatchedOutputType ELSE MismatchedErrorType)

\* complete_round, for a round that does not need more messages: what is
\* returned and what is left in the router, a failed downcast or not.
RoundResult(r, round, by) ==
    CASE round.st = "Unregistered" -> Err(UnregisteredRound(r, TRUE))
      [] round.st = "Completed"    -> Downcast(r, round.res, by)
      [] round.st = "Gone"         -> Err(AlreadyTaken)

\* Mutant: the output is read and not taken.
NotTaken(round) == round

AfterTake(round) == IF round.st = "Completed" THEN Gone ELSE round

(***************************************************************************)
(* Steps.                                                                  *)
(***************************************************************************)
Return(r, res) ==
    /\ pc' = "idle"
    /\ cur' = NoRound /\ claim' = NoClaim
    /\ returned' = [returned EXCEPT ![r] = Append(@, res)]

\* Check whether round r is completed in the router rs: either it is and
\* complete(r), called with the witness `by`, returns, or it waits for the
\* next message.
TryComplete(rs, r, by) ==
    IF NeedsMoreMessages(rs[r])
      THEN /\ pc' = "completing"
           /\ cur' = r /\ claim' = by
           /\ rounds' = rs
           /\ UNCHANGED returned
      ELSE /\ rounds' = [rs EXCEPT ![r] = AfterTake(@)]
           /\ Return(r, RoundResult(r, rs[r], by))

Init ==
    /\ pc = "setup"
    /\ cur = NoRound /\ claim = NoClaim
    /\ rounds = [r \in Rounds |-> Unregistered]
    /\ witnesses = {}
    /\ foreign = Foreign
    /\ log = <<>>
    /\ returned = [r \in Rounds |-> <<>>]
    /\ unflushed = 0
    /\ sendFailed = FALSE

\* The new store replaces the registered one before the code panics.
AddRound(r) ==
    /\ pc = "setup"
    /\ rounds' = [rounds EXCEPT ![r] = NewRound(r)]
    /\ IF Registered(r)
         THEN pc' = "panicked" /\ UNCHANGED witnesses
         ELSE witnesses' = witnesses \cup {r} /\ UNCHANGED pc
    /\ UNCHANGED <<cur, claim, foreign, log, returned, unflushed, sendFailed>>

FinishSetup ==
    /\ pc = "setup"
    /\ pc' = "idle"
    /\ UNCHANGED <<cur, claim, rounds, witnesses, foreign, log, returned,
                   unflushed, sendFailed>>

\* Mutants of complete: it awaits a message before it looks at the router;
\* it does not consume the witness.
AwaitFirst(r) ==
    /\ pc = "idle"
    /\ r \in witnesses
    /\ witnesses' = witnesses \ {r}
    /\ pc' = "completing" /\ cur' = r /\ claim' = "own"
    /\ UNCHANGED <<rounds, returned, foreign, log, unflushed, sendFailed>>

WitnessKept(r) ==
    /\ pc = "idle"
    /\ r \in witnesses
    /\ TryComplete(rounds, r, "own")
    /\ UNCHANGED <<witnesses, foreign, log, unflushed, sendFailed>>

\* complete(r) up to its first await.  The witness is consumed by the call.
Complete(r) ==
    /\ pc = "idle"
    /\ r \in witnesses
    /\ witnesses' = witnesses \ {r}
    /\ TryComplete(rounds, r, "own")
    /\ UNCHANGED <<foreign, log, unflushed, sendFailed>>

\* complete(r) with the witness that another party gave for the same round.
CompleteForeign(r) ==
    /\ pc = "idle"
    /\ r \in foreign
    /\ foreign' = foreign \ {r}
    /\ TryComplete(rounds, r, "foreign")
    /\ UNCHANGED <<witnesses, log, unflushed, sendFailed>>

Incoming(w) == [id |-> Len(log) + 1, round |-> w.round, variant |-> w.variant,
                sender |-> w.sender, type |-> w.type, msg |-> w.msg]

\* One turn of the loop of complete: a message comes, the router gets it,
\* and the awaited round is checked again.  No await separates the three.
Receive(w) ==
    /\ pc = "completing"
    /\ Len(log) < MaxLog
    /\ log' = Append(log, Incoming(w))
    /\ IF Registered(w.round)
         THEN TryComplete(ReceivedMsg(Incoming(w)), cur, claim)
         ELSE /\ Return(cur, Err(UnregisteredRound(w.round, FALSE)))
              /\ UNCHANGED rounds
    /\ UNCHANGED <<witnesses, foreign, unflushed, sendFailed>>

\* The incoming stream ends or fails.
ReceiveFails ==
    /\ pc = "completing"
    /\ \E e \in {IoError, UnexpectedEof} : Return(cur, Err(e))
    /\ UNCHANGED <<rounds, witnesses, foreign, log, unflushed, sendFailed>>

\* The protocol drops the future of complete (a timeout, a select).
CancelComplete ==
    /\ pc = "completing"
    /\ pc' = "idle"
    /\ cur' = NoRound /\ claim' = NoClaim
    /\ UNCHANGED <<rounds, witnesses, foreign, log, returned,
                   unflushed, sendFailed>>

\* send: feed and flush in one call.
Send ==
    /\ pc = "idle"
    /\ unflushed' = 0
    /\ UNCHANGED <<pc, cur, claim, rounds, witnesses, foreign, log, returned,
                   sendFailed>>

\* send fails, or its future is dropped, before or after the message was fed.
SendFails ==
    /\ pc = "idle"
    /\ unflushed < MaxFeed
    /\ unflushed' \in {unflushed, unflushed + 1}
    /\ sendFailed' = TRUE
    /\ UNCHANGED <<pc, cur, claim, rounds, witnesses, foreign, log, returned>>

\* send_many takes the party; only a successful flush gives it back.
StartSendMany ==
    /\ pc = "idle"
    /\ pc' = "sending"
    /\ UNCHANGED <<cur, claim, rounds, witnesses, foreign, log, returned,
                   unflushed, sendFailed>>

Feed ==
    /\ pc = "sending"
    /\ unflushed < MaxFeed
    /\ unflushed' = unflushed + 1
    /\ UNCHANGED <<pc, cur, claim, rounds, witnesses, foreign, log, returned,
                   sendFailed>>

\* Mutant: SendMany gives the party back without flushing.
FlushSkipped ==
    /\ pc = "sending"
    /\ pc' = "idle"
    /\ UNCHANGED <<cur, claim, rounds, witnesses, foreign, log, returned,
                   unflushed, sendFailed>>

Flush ==
    /\ pc = "sending"
    /\ pc' = "idle"
    /\ unflushed' = 0
    /\ UNCHANGED <<cur, claim, rounds, witnesses, foreign, log, returned,
                   sendFailed>>

\* flush fails, or SendMany is dropped: the party is gone with it.
LoseParty ==
    /\ pc = "sending"
    /\ pc' = "lost"
    /\ UNCHANGED <<cur, claim, rounds, witnesses, foreign, log, returned,
                   unflushed, sendFailed>>

Next ==
    \/ \E r \in Rounds : AddRound(r) \/ Complete(r) \/ CompleteForeign(r)
    \/ \E w \in Wire : Receive(w)
    \/ FinishSetup
    \/ ReceiveFails
    \/ CancelComplete
    \/ Send
    \/ SendFails
    \/ StartSendMany
    \/ Feed
    \/ Flush
    \/ LoseParty

Spec == Init /\ [][Next]_vars

-----------------------------------------------------------------------------
(***************************************************************************)
(* Types.                                                                  *)
(***************************************************************************)
Stores(r) == RoundInputs(Me, N, TypeOf[r], Msg)

Outputs ==
    [i : {Me}, ids : [Slots(N) -> Nat],
     messages : UNION {[0 .. (k - 1) -> Msg] : k \in 0 .. (N - 1)}]

MessageErrors ==
    [kind : {"MismatchedMessageType"}, id : Nat,
     expected : MessageTypes, actual : MessageTypes]
    \cup [kind : {"AttemptToOverwriteReceivedMsg"}, first : Nat,
          second : Nat, sender : Nat]
    \cup [kind : {"SenderIndexOutOfRange"}, id : Nat, sender : Nat, n : {N}]
    \cup [kind : {"MessageFromAnotherRound"}, actual : Nat, expected : Nat]

CallErrors ==
    [kind : {"UnregisteredRound"}, n : Nat, witness : BOOLEAN]
    \cup {AlreadyTaken, IoError, UnexpectedEof,
          MismatchedOutputType, MismatchedErrorType}

RoundResults ==
    [ok : {TRUE}, out : Outputs]
    \cup [ok : {FALSE}, err : MessageErrors \cup {StoreDidntOutput}]

CallResults == RoundResults \cup [ok : {FALSE}, err : CallErrors]

IncomingMessages ==
    [id : Nat, round : Nat, variant : Nat, sender : Nat,
     type : MessageTypes, msg : Msg]

RoundStates(r) ==
    {Unregistered, Gone}
    \cup [st : {"InProgress"}, store : Stores(r)]
    \cup [st : {"Completed"}, res : RoundResults]

\* Every variable has its type, in particular the store of a round in
\* progress has n-1 slots whatever was received.
TypeOK ==
    /\ pc \in {"setup", "panicked", "idle", "completing", "sending", "lost"}
    /\ cur \in Rounds \cup {NoRound}
    /\ claim \in {NoClaim, "own", "foreign"}
    /\ DOMAIN rounds = Rounds
    /\ \A r \in Rounds : rounds[r] \in RoundStates(r)
    /\ witnesses \subseteq Rounds
    /\ foreign \subseteq Rounds
    /\ log \in Seq(IncomingMessages)
    /\ returned \in [Rounds -> Seq(CallResults)]
    /\ unflushed \in 0 .. MaxFeed
    /\ sendFailed \in BOOLEAN

(***************************************************************************)
(* What a round must have come to, told from the log l of the received     *)
(* messages alone.                                                         *)
(***************************************************************************)
\* The types of messages that suit round r: broadcasting reliably is more
\* than a broadcast round asks for.
Accepted(r) ==
    IF TypeOf[r] = "Broadcast" THEN {"Broadcast", "ReliableBroadcast"}
                               ELSE {TypeOf[r]}

\* The p-th received message belongs to round r.
Of(l, r, p) == l[p].round = r

\* The p-th message repeats the sender of the earlier q-th one in round r.
Repeats(l, r, q, p) ==
    q < p /\ Of(l, r, q) /\ l[q].sender = l[p].sender

\* The p-th message is one that round r may not accept.
Bad(l, r, p) ==
    /\ Of(l, r, p)
    /\ \/ l[p].variant # r
       \/ l[p].type \notin Accepted(r)
       \/ l[p].sender \notin 0 .. (N - 1)
       \/ l[p].sender # Me /\ \E q \in 1 .. (p - 1) : Repeats(l, r, q, p)

Clean(l, r, p) == \A q \in 1 .. p : ~ Bad(l, r, q)

\* All the other parties are heard in round r by the p-th message.
AllHeard(l, r, p) ==
    \A j \in Others(Me, N) :
        \E q \in 1 .. p : Of(l, r, q) /\ l[q].sender = j

\* It is the p-th message that completes round r.
FilledBy(l, r, p) ==
    /\ Of(l, r, p) /\ Clean(l, r, p)
    /\ AllHeard(l, r, p) /\ ~ AllHeard(l, r, p - 1)

\* It is the p-th message that breaks round r.
BrokenBy(l, r, p) ==
    Bad(l, r, p) /\ Clean(l, r, p - 1) /\ ~ AllHeard(l, r, p - 1)

\* The error names the message that broke the round and, for a repetition,
\* the message of the same sender that it would overwrite.
Blames(l, r, p, e) ==
    LET m == l[p] IN
    \/ m.variant # r /\ e = MessageFromAnotherRound(r, r)
    \/ /\ m.variant = r
       /\ m.type \notin Accepted(r)
       /\ e = MismatchedMessageType(p, TypeOf[r], m.type)
    \/ /\ m.variant = r
       /\ m.type \in Accepted(r)
       /\ m.sender # Me
       /\ \/ m.sender >= N /\ e = SenderIndexOutOfRange(p, m.sender, N)
          \/ \E q \in 1 .. (p - 1) :
                /\ Repeats(l, r, q, p)
                /\ e = AttemptToOverwriteReceivedMsg(q, p, m.sender)

\* The slot of each other party holds its message among the first p ones.
HoldsMessages(l, r, p, ids, messages) ==
    \A j \in Others(Me, N) :
        LET s == SlotOf(Me, j) IN
        IF s \in DOMAIN messages
          THEN \E q \in 1 .. p : /\ Of(l, r, q)
                                 /\ l[q].sender = j
                                 /\ ids[s] = q
                                 /\ messages[s] = l[q].msg
          ELSE \A q \in 1 .. p : Of(l, r, q) => l[q].sender # j

StoreJustified(l, r, store) ==
    /\ Clean(l, r, Len(l))
    /\ ~ AllHeard(l, r, Len(l))
    /\ HoldsMessages(l, r, Len(l), store.ids, store.messages)

ResultJustified(l, r, res) ==
    IF res.ok
      THEN /\ r \notin Improper
           /\ DOMAIN res.out.messages = Slots(N)
           /\ \E p \in 1 .. Len(l) :
                /\ FilledBy(l, r, p)
                /\ HoldsMessages(l, r, p, res.out.ids, res.out.messages)
      ELSE IF res.err = StoreDidntOutput
      THEN r \in Improper /\ \E p \in 1 .. Len(l) : FilledBy(l, r, p)
      ELSE \E p \in 1 .. Len(l) :
                BrokenBy(l, r, p) /\ Blames(l, r, p, res.err)

RoundJustified(l, r, round) ==
    /\ round.st = "InProgress" => StoreJustified(l, r, round.store)
    /\ round.st = "Completed" => ResultJustified(l, r, round.res)

(***************************************************************************)
(* Properties.                                                             *)
(***************************************************************************)
\* The router's record of a round is a function of the messages of that
\* round alone, in the order in which they came, whatever round the protocol
\* was awaiting then: the first message of each sender is the one that
\* counts, the first offending one breaks the round and is blamed by its id,
\* and nothing that comes after the round is decided changes the outcome.
RouterFollowsLog ==
    \A r \in Rounds \ Empty : RoundJustified(log, r, rounds[r])

\* What complete(r) hands to the protocol is justified in the same way by
\* what was received, long after the router has forgotten the round; the
\* errors of the call itself (stream, unknown round, taken output) aside.
ReturnedFollowsLog ==
    \A r \in Rounds \ Empty :
        \A k \in DOMAIN returned[r] :
            returned[r][k] \in RoundResults
                => ResultJustified(log, r, returned[r][k])

\* The protocol reads an output through its indexed views: each entry names
\* the party that really sent the message with this id and payload in this
\* round, and in the vector with the party's own message inserted, the j-th
\* element is the message of party j.
EntriesNameSenders ==
    \A r \in Rounds \ Empty : \A k \in DOMAIN returned[r] :
        returned[r][k].ok =>
            LET out == returned[r][k].out IN
            /\ \A s \in DOMAIN out.messages :
                 LET e == IterIndexed(out)[s] IN
                 /\ e.id \in DOMAIN log
                 /\ log[e.id].round = r
                 /\ log[e.id].sender = e.party
                 /\ log[e.id].msg = e.msg
            /\ \A mine \in Msg :
                 /\ IncludingMe(out, mine)[Me] = mine
                 /\ \A j \in Others(Me, N) :
                      \E s \in DOMAIN out.messages :
                        /\ IterIndexed(out)[s].party = j
                        /\ IterIndexed(out)[s].msg = IncludingMe(out, mine)[j]

\* complete(r) never waits for a message when round r is already decided:
\* the loop looks at the router before each await.
NeverWaitsInVain ==
    pc = "completing" => rounds[cur].st = "InProgress"

\* While the protocol holds the witness of a round the router still has the
\* round; so without foreign witnesses complete never answers with the
\* router's own errors about witnesses.
WitnessGuardsRound ==
    Foreign = {} =>
        /\ \A r \in witnesses : rounds[r].st \in {"InProgress", "Completed"}
        /\ \A r \in Rounds : \A k \in DOMAIN returned[r] :
              returned[r][k] \notin {Err(AlreadyTaken),
                                     Err(UnregisteredRound(r, TRUE))}

\* The call that was answered res has taken the outcome of its round out of
\* the router, and with a failed downcast it has destroyed it.
TakesOutcome(res) ==
    \/ res \in RoundResults
    \/ res \in {Err(MismatchedOutputType), Err(MismatchedErrorType)}

\* However many witnesses of a round there are, its outcome is taken exactly
\* once: the router has forgotten the round if and only if some call took the
\* outcome, and every later call, and none before, is answered that it is
\* taken.  The outcome is destroyed by the call that took it only if a
\* foreign witness of another type was used up.
OutcomeTakenOnce ==
    \A r \in Rounds :
        /\ rounds[r] = Gone
             <=> \E k \in DOMAIN returned[r] : TakesOutcome(returned[r][k])
        /\ \A k \in DOMAIN returned[r] :
             /\ returned[r][k] = Err(AlreadyTaken)
                  <=> \E j \in 1 .. (k - 1) : TakesOutcome(returned[r][j])
             /\ returned[r][k] = Err(MismatchedOutputType)
                  => r \in OtherOutput \ foreign
             /\ returned[r][k] = Err(MismatchedErrorType)
                  => r \in OtherError \ foreign

\* A decided round keeps its outcome until the step that hands exactly this
\* outcome to the protocol, even if other rounds fail, calls are cancelled
\* or the stream breaks in between; only a call with a foreign witness of
\* another type removes it without handing it out.
OutcomeKept ==
    [][\A r \in Rounds :
         rounds[r].st = "Completed" /\ pc' # "panicked" =>
            \/ rounds'[r] = rounds[r]
            \/ /\ rounds'[r] = Gone
               /\ \/ returned'[r] = Append(returned[r], rounds[r].res)
                  \/ /\ r \in foreign \ foreign'
                     /\ Mistyped(r, rounds[r].res, "foreign")]_vars

\* The party awaits messages of others only when everything it has sent is
\* flushed, unless a send failed: SendMany gives the party back only after a
\* flush.
NothingUnflushedWhileWaiting ==
    pc = "completing" /\ unflushed > 0 => sendFailed
=============================================================================
