--------------------------- MODULE EchoBroadcast ---------------------------
(***************************************************************************)
(* Parties that run a protocol over `WithEchoBroadcast`                    *)
(* (echo_broadcast/mod.rs, echo_broadcast/store.rs).                       *)
(*                                                                         *)
(* The protocol has rounds 0 .. R-1.  In each of them a party broadcasts a *)
(* message and completes the round; in a reliable round completing means:  *)
(* collect the messages of the round, send everybody a hash of them,       *)
(* collect the hashes of the others and give the messages to the protocol  *)
(* only if all the hashes are the same.  A Careless protocol also sends    *)
(* what it should not, sends again what failed, does not send at all, and  *)
(* drops the future of complete.                                           *)
(*                                                                         *)
(* The parties that are not Honest send anything to anyone at any time.    *)
(* The network authenticates senders, reorders, and may duplicate.  A hash *)
(* stands for what is hashed: it is assumed to have no collisions.         *)
(***************************************************************************)
EXTENDS RoundInput

CONSTANTS
    N,              \* number of parties
    Honest,         \* parties that run the code
    R,              \* number of rounds
    Stores,         \* type of the messages of each round's store, and the
                    \* property RequiresReliableBroadcast if set_prop set it
    Values,         \* what a party may broadcast in a round
    ByzMain,        \* round, type and payload of dishonest parties' messages
    ByzEchoes,      \* round field, type and hash of their echoes
    U16,            \* number of values of the u16 round numbers
    OwnDelivery,    \* parties that the network gives their own broadcasts
    Duplicates,     \* whether the network may deliver a message twice
    SendsFail,      \* parties whose sends may fail, having reached only some
    Careless,       \* parties whose protocol is careless
    MaxCast         \* bound: messages that a careless party sends

Parties == 0 .. (N - 1)
Rounds == 0 .. (R - 1)
Byzantine == Parties \ Honest

\* read_prop: what set_prop has set overrides what the store itself says.
ReadProp(store) ==
    IF store.prop = "unset"
      THEN RequiresReliableBroadcast(store.type)
      ELSE store.prop = "true"

\* The rounds for which add_round adds a round of echoes.
Reliable == {r \in Rounds : ReadProp(Stores[r])}

ASSUME EchoAssumption ==
    /\ N \in Nat /\ N >= 2
    /\ Honest \subseteq Parties
    /\ R \in Nat
    /\ Stores \in [Rounds -> [type : MessageTypes,
                             prop : {"unset", "true", "false"}]]
    /\ U16 \in Nat /\ U16 % 2 = 0 /\ 2 * R <= U16
    /\ \A m \in ByzMain : /\ m.round \in Rounds
                          /\ m.type \in MessageTypes
                          /\ m.msg \in Values
    /\ \A e \in ByzEchoes : /\ e.round \in 0 .. (U16 - 1)
                            /\ e.type \in MessageTypes
    /\ OwnDelivery \subseteq Parties
    /\ Duplicates \in BOOLEAN
    /\ SendsFail \subseteq Honest
    /\ Careless \subseteq Honest
    /\ MaxCast \in Nat

VARIABLES
    pc,       \* what each honest party is doing
    rnd,      \* the round each honest party is in
    main,     \* router entry of the main round, per party and round
    echo,     \* router entry of the echo round, per party and round
    sent,     \* sent_reliable_msgs: the entries that are Some(msg)
    slots,    \* sent_reliable_msgs: the registered rounds
    check,    \* ReliabilityCheck of the rounds whose main part is complete
    exposed,  \* history: what complete returned to the protocol
    error,    \* history: the error that ended the run of a party
    net,      \* messages of honest parties on their way
    cast,     \* history: what honest parties have sent, by sender and round
    late      \* history: parties that sent in a reliable round after they
              \* had collected its messages

vars == <<pc, rnd, main, echo, sent, slots, check, exposed, error, net, cast,
          late>>

(***************************************************************************)
(* Messages.  `round` is a field of the message, not yet the number of the *)
(* router's round.                                                         *)
(***************************************************************************)
Packet(from, to, kind, round, type, msg) ==
    [from |-> from, to |-> to, kind |-> kind, round |-> round,
     type |-> type, msg |-> msg]

\* A message may be sent to everyone, reliably or not, or to one party.
Destinations == {"Reliable", "All", "P2P"}

\* The honest parties a message of p may go to.
Recipients(p, dest) ==
    IF dest = "P2P"
      THEN {{q} : q \in Honest \ {p}}
      ELSE {IF p \in OwnDelivery THEN Honest ELSE Honest \ {p}}

WireType(dest) == IF dest = "P2P" THEN "P2P" ELSE "Broadcast"

Broadcast(from, kind, round, msg) ==
    {Packet(from, to, kind, round, "Broadcast", msg) :
        to \in UNION Recipients(from, "All")}

\* What the dishonest parties can make arrive at party p.
ByzPackets(p) ==
    {Packet(b, p, "Main", m.round, m.type, m.msg) :
        b \in Byzantine, m \in ByzMain}
    \cup {Packet(b, p, "Echo", e.round, e.type, e.hash) :
        b \in Byzantine, e \in ByzEchoes}

\* ProtocolMsg::round() of the wrapped message, a u16.
Overflows(m) == m.kind = "Echo" /\ 2 * m.round + 1 >= U16
RouterRound(m) ==
    IF m.kind = "Echo" THEN (2 * m.round + 1) % U16 ELSE 2 * m.round

\* The router has round 2r for the main part of round r, and 2r+1 for the
\* echoes of r if r is a reliable round.
IsRegistered(k) ==
    \E r \in Rounds : k = 2 * r \/ (r \in Reliable /\ k = 2 * r + 1)

\* The message as the round store sees it.  Ids play no role here.
AsIncoming(m) ==
    [id |-> 0, sender |-> m.from, type |-> m.type, msg |-> m.msg]

(***************************************************************************)
(* The entries of the router.                                              *)
(***************************************************************************)
Failed(kind) == [st |-> "Failed", err |-> kind]
Gone == [st |-> "Gone"]
Collected(out, received) ==
    [st |-> "Collected", out |-> out, received |-> received]
Ongoing(store, received) ==
    [st |-> "Ongoing", store |-> store, received |-> received]

NoMessages == [s \in {} |-> 0]

With(f, x, y) == [z \in DOMAIN f \cup {x} |-> IF z = x THEN y ELSE f[z]]

NewMain(p, r) == Ongoing(RoundInputNew(p, N, Stores[r].type), NoMessages)

\* Mutant: the round of the echoes wants no messages.
EchoNotAwaited(p) ==
    Collected([i |-> p, ids |-> NoMessages, messages |-> NoMessages],
              NoMessages)

NewEcho(p) == Ongoing(RoundInputNew(p, N, "Broadcast"), NoMessages)

\* A store, with the messages received so far, once it has taken a message.
Settled(store, received) ==
    IF WantsMore(store)
      THEN Ongoing(store, received)
      ELSE Collected(Output(store), received)

\* Mutant: the copy for the hash goes to the slot of the store.
CopiedToStoreSlot(entry, m) ==
    LET in == [AsIncoming(m) EXCEPT !.type = "ReliableBroadcast"]
        err == AddMessageError(entry.store, in)
        slot == SlotOf(entry.store.i, m.from)
    IN IF err # NoError
         THEN Failed(err.kind)
       ELSE IF slot \in DOMAIN entry.received
         THEN Failed("StoreReceivedTwoMsgsFromSameParty")
       ELSE Settled(AddMessage(entry.store, in),
                    With(entry.received, slot, m.msg))

\* MainRound::add_message: the message is passed on as if it was reliably
\* broadcast, and kept a second time for the hash.  The store ignores the
\* messages of the party itself, so it is here that a second one is refused.
AddReliable(entry, m) ==
    LET in == [AsIncoming(m) EXCEPT !.type = "ReliableBroadcast"]
        err == AddMessageError(entry.store, in)
    IN IF err # NoError
         THEN Failed(err.kind)
       ELSE IF m.from \in DOMAIN entry.received
         THEN Failed("StoreReceivedTwoMsgsFromSameParty")
       ELSE Settled(AddMessage(entry.store, in),
                    With(entry.received, m.from, m.msg))

\* A round without reliability check, and the round of the echoes.
AddPlain(entry, m) ==
    LET err == AddMessageError(entry.store, AsIncoming(m)) IN
    IF err # NoError
      THEN Failed(err.kind)
      ELSE Settled(AddMessage(entry.store, AsIncoming(m)), entry.received)

ProcessMain(entry, m) ==
    IF m.round \in Reliable THEN AddReliable(entry, m) ELSE AddPlain(entry, m)

\* The echo round r extracts only echoes whose field is r; another one gets
\* here if the number of its round wraps around.
ProcessEcho(entry, r, m) ==
    IF m.round # r THEN Failed("MessageFromAnotherRound") ELSE AddPlain(entry, m)

\* RoundsRouter::received_msg, for the entries of one party.
RouteMain(entries, m) ==
    IF m.kind = "Main" /\ entries[m.round].st = "Ongoing"
      THEN [entries EXCEPT ![m.round] = ProcessMain(@, m)]
      ELSE entries

RouteEcho(entries, m) ==
    LET r == (RouterRound(m) - 1) \div 2 IN
    IF m.kind = "Echo" /\ entries[r].st = "Ongoing"
      THEN [entries EXCEPT ![r] = ProcessEcho(@, r, m)]
      ELSE entries

(***************************************************************************)
(* The hash, and the check of the echoes.                                  *)
(***************************************************************************)
\* with_my_msg: the party's own message, if it sent one, takes its slot.
WithMyMsg(p, received, mine) ==
    [j \in (DOMAIN received \ {p}) \cup DOMAIN mine |->
        IF j = p THEN mine[p] ELSE received[j]]

HashOf(msgs, r) == [msgs |-> msgs, round |-> r]

\* Mutant: one echo that agrees is enough.
SomeEchoAgrees(out, hash) ==
    \E s \in DOMAIN out.messages : out.messages[s] = hash

\* with_echo_output
EchoesAgree(out, hash) ==
    \A s \in DOMAIN out.messages : out.messages[s] = hash

(***************************************************************************)
(* Steps of an honest party.                                               *)
(***************************************************************************)
Fail(p, kind) ==
    /\ pc' = [pc EXCEPT ![p] = "failed"]
    /\ error' = [error EXCEPT ![p] = kind]
    /\ UNCHANGED <<rnd, exposed, check, sent, slots>>

\* complete returns the messages of its round to the protocol.
Expose(p, out) ==
    /\ exposed' = [exposed EXCEPT ![p] = With(@, rnd[p], out)]
    /\ rnd' = [rnd EXCEPT ![p] = @ + 1]
    /\ pc' = [pc EXCEPT ![p] = IF rnd[p] + 1 = R THEN "done" ELSE "idle"]
    /\ UNCHANGED <<error, check, sent, slots>>

\* Check the main part of the current round, whose entries are es.
TryCompleteMain(p, es) ==
    LET r == rnd[p]
        entry == es[r]
        mine == IF r \in DOMAIN sent[p]
                  THEN [j \in {p} |-> sent[p][r]] ELSE NoMessages
    IN \/ /\ entry.st = "Ongoing"
          /\ main' = [main EXCEPT ![p] = es]
          /\ pc' = [pc EXCEPT ![p] = "main"]
          /\ UNCHANGED <<rnd, exposed, error, check, sent, slots>>
       \/ /\ entry.st = "Failed"
          /\ main' = [main EXCEPT ![p] = [es EXCEPT ![r] = Gone]]
          /\ Fail(p, entry.err)
       \/ /\ entry.st = "Collected" /\ r \notin Reliable
          /\ main' = [main EXCEPT ![p] = [es EXCEPT ![r] = Gone]]
          /\ Expose(p, entry.out)
       \/ /\ entry.st = "Collected" /\ r \in Reliable
          /\ main' = [main EXCEPT ![p] = [es EXCEPT ![r] = Gone]]
          /\ slots' = [slots EXCEPT ![p] = @ \ {r}]
          /\ sent' = [sent EXCEPT ![p] = [q \in DOMAIN @ \ {r} |-> @[q]]]
          /\ check' = [check EXCEPT ![p] = With(@, r,
                [out |-> entry.out,
                 hash |-> HashOf(WithMyMsg(p, entry.received, mine), r)])]
          /\ pc' = [pc EXCEPT ![p] = "sendEcho"]
          /\ UNCHANGED <<rnd, exposed, error>>

\* Check the echoes of the current round, whose entries are es.
TryCompleteEcho(p, es) ==
    LET r == rnd[p]
        entry == es[r]
    IN \/ /\ entry.st = "Ongoing"
          /\ echo' = [echo EXCEPT ![p] = es]
          /\ pc' = [pc EXCEPT ![p] = "echo"]
          /\ UNCHANGED <<rnd, exposed, error, check, sent, slots>>
       \/ /\ entry.st # "Ongoing"
          /\ echo' = [echo EXCEPT ![p] = [es EXCEPT ![r] = Gone]]
          /\ \/ entry.st = "Failed" /\ Fail(p, entry.err)
             \/ /\ entry.st = "Collected"
                /\ EchoesAgree(entry.out, check[p][r].hash)
                /\ Expose(p, check[p][r].out)
             \/ /\ entry.st = "Collected"
                /\ ~ EchoesAgree(entry.out, check[p][r].hash)
                /\ Fail(p, "MismatchedHash")

Init ==
    /\ pc = [p \in Honest |-> IF R = 0 THEN "done" ELSE "idle"]
    /\ rnd = [p \in Honest |-> 0]
    /\ main = [p \in Honest |-> [r \in Rounds |-> NewMain(p, r)]]
    /\ echo = [p \in Honest |-> [r \in Reliable |-> NewEcho(p)]]
    /\ slots = [p \in Honest |-> Reliable]
    /\ sent = [p \in Honest |-> NoMessages]
    /\ check = [p \in Honest |-> NoMessages]
    /\ exposed = [p \in Honest |-> NoMessages]
    /\ error = [p \in Honest |-> "none"]
    /\ net = {}
    /\ cast = {}
    /\ late = {}

(***************************************************************************)
(* on_send, by which both send and SendMany::send begin.                   *)
(***************************************************************************)
\* Mutant: a message that was kept may be replaced.
RetryAllowed(p, r, dest) ==
    IF (r \in slots[p]) = (dest = "Reliable") THEN "none" ELSE "refused"

OnSendError(p, r, dest) ==
    CASE r \in slots[p] /\ dest # "Reliable" ->
           "SentNonReliableMsgInReliableRound"
      [] r \in slots[p] /\ dest = "Reliable" /\ r \in DOMAIN sent[p] ->
           "SendTwice"
      [] r \notin slots[p] /\ dest = "Reliable" ->
           "SentReliableMsgInNonReliableRound"
      [] OTHER -> "none"

\* A message of round r is kept, then a part of its copies is handed to the
\* network.  The network is asked for an ordinary broadcast only.
Hand(p, r, dest, v, some) ==
    /\ sent' = IF r \in slots[p] THEN [sent EXCEPT ![p] = With(@, r, v)]
                                 ELSE sent
    /\ net' = net \cup {Packet(p, q, "Main", r, WireType(dest), v) : q \in some}
    /\ cast' = IF some = {}
                 THEN cast
                 ELSE cast \cup {[sender |-> p, round |-> r, msg |-> v]}
    /\ late' = IF some # {} /\ r \in Reliable \ slots[p]
                 THEN late \cup {p} ELSE late
    /\ UNCHANGED <<rnd, main, echo, slots, check, exposed>>

\* What the protocol may send: once in each round, the way the round demands,
\* unless it is careless.
MaySend(p, r, dest) ==
    IF p \in Careless
      THEN /\ pc[p] \in {"idle", "sent"}
           /\ Cardinality({c \in cast : c.sender = p}) < MaxCast
      ELSE /\ pc[p] = "idle"
           /\ r = rnd[p]
           /\ dest = IF r \in Reliable THEN "Reliable" ELSE "All"

Send(p, r, dest, v) ==
    /\ MaySend(p, r, dest)
    /\ OnSendError(p, r, dest) = "none"
    /\ \E qs \in Recipients(p, dest) : Hand(p, r, dest, v, qs)
    /\ pc' = [pc EXCEPT ![p] = "sent"]
    /\ UNCHANGED error

\* The network fails when the message is kept already and some parties have
\* got it.  The protocol gives up, as it has to if the failure is that of
\* SendMany::flush, or a careless one goes on.
SendFails(p, r, dest, v) ==
    /\ p \in SendsFail
    /\ MaySend(p, r, dest)
    /\ OnSendError(p, r, dest) = "none"
    /\ \E qs \in Recipients(p, dest) : \E some \in SUBSET qs :
            Hand(p, r, dest, v, some)
    /\ \/ /\ pc' = [pc EXCEPT ![p] = "failed"]
          /\ error' = [error EXCEPT ![p] = "Send"]
       \/ p \in Careless /\ UNCHANGED <<pc, error>>

\* on_send refuses the message and the protocol gives up.  If it goes on
\* instead, nothing has happened.
SendRefused(p, r, dest) ==
    /\ MaySend(p, r, dest)
    /\ OnSendError(p, r, dest) # "none"
    /\ Fail(p, OnSendError(p, r, dest))
    /\ UNCHANGED <<main, echo, net, cast, late>>

(***************************************************************************)
(* complete.                                                               *)
(***************************************************************************)
\* complete, up to its first await.
Complete(p) ==
    /\ pc[p] = "sent" \/ (p \in Careless /\ pc[p] = "idle")
    /\ TryCompleteMain(p, main[p])
    /\ UNCHANGED <<echo, net, cast, late>>

\* The future of complete is dropped while it awaits, and the protocol goes on
\* with the next round.
CancelComplete(p) ==
    /\ p \in Careless
    /\ pc[p] \in {"main", "sendEcho", "echo"}
    /\ rnd' = [rnd EXCEPT ![p] = @ + 1]
    /\ pc' = [pc EXCEPT ![p] = IF rnd[p] + 1 = R THEN "done" ELSE "idle"]
    /\ UNCHANGED <<main, echo, sent, slots, check, exposed, error, net, cast,
                   late>>

\* Mutant: complete awaits a message before it looks at the echoes.
EchoAwaitedFirst(p) ==
    /\ pc[p] = "sendEcho"
    /\ net' = net \cup Broadcast(p, "Echo", rnd[p], check[p][rnd[p]].hash)
    /\ pc' = [pc EXCEPT ![p] = "echo"]
    /\ UNCHANGED <<rnd, main, echo, sent, slots, check, exposed, error, cast,
                   late>>

\* The hash goes to all the parties, then the echoes are looked at.
SendEcho(p) ==
    /\ pc[p] = "sendEcho"
    /\ net' = net \cup Broadcast(p, "Echo", rnd[p], check[p][rnd[p]].hash)
    /\ TryCompleteEcho(p, echo[p])
    /\ UNCHANGED <<main, cast, late>>

SendEchoFails(p) ==
    /\ p \in SendsFail
    /\ pc[p] = "sendEcho"
    /\ \E some \in SUBSET Broadcast(p, "Echo", rnd[p],
                                    check[p][rnd[p]].hash) :
            net' = net \cup some
    /\ Fail(p, "Send")
    /\ UNCHANGED <<main, echo, cast, late>>

\* A party that awaits a round gets a message, of any round: a message of an
\* unknown round fails the call, any other is routed before the awaited round
\* is checked again.  When the round number overflows, a build with overflow
\* checks panics and a build without them wraps around.
Handle(p, m) ==
    \/ /\ Overflows(m)
       /\ Fail(p, "panic")
       /\ UNCHANGED <<main, echo>>
    \/ /\ ~ IsRegistered(RouterRound(m))
       /\ Fail(p, "UnregisteredRound")
       /\ UNCHANGED <<main, echo>>
    \/ /\ IsRegistered(RouterRound(m))
       /\ pc[p] = "main"
       /\ TryCompleteMain(p, RouteMain(main[p], m))
       /\ echo' = [echo EXCEPT ![p] = RouteEcho(@, m)]
    \/ /\ IsRegistered(RouterRound(m))
       /\ pc[p] = "echo"
       /\ TryCompleteEcho(p, RouteEcho(echo[p], m))
       /\ main' = [main EXCEPT ![p] = RouteMain(@, m)]

Receive(p, m) ==
    /\ pc[p] \in {"main", "echo"}
    /\ Handle(p, m)
    /\ \/ net' = net \ {m}
       \/ Duplicates /\ net' = net
    /\ UNCHANGED <<cast, late>>

ReceiveByz(p, m) ==
    /\ pc[p] \in {"main", "echo"}
    /\ Handle(p, m)
    /\ UNCHANGED <<net, cast, late>>

Next ==
    \E p \in Honest :
        \/ \E r \in Rounds, dest \in Destinations :
              \/ \E v \in Values : Send(p, r, dest, v) \/ SendFails(p, r, dest, v)
              \/ SendRefused(p, r, dest)
        \/ Complete(p)
        \/ CancelComplete(p)
        \/ SendEcho(p)
        \/ SendEchoFails(p)
        \/ \E m \in {x \in net : x.to = p} : Receive(p, m)
        \/ \E m \in ByzPackets(p) : ReceiveByz(p, m)

Spec == Init /\ [][Next]_vars

\* A party that can run does run, and every message of an honest party is
\* delivered in the end to a party that goes on receiving.
Progress(p) ==
    \/ \E r \in Rounds, dest \in Destinations, v \in Values :
          Send(p, r, dest, v)
    \/ Complete(p)
    \/ SendEcho(p)
    \/ \E m \in {x \in net : x.to = p} : Receive(p, m)

FairSpec == Spec /\ \A p \in Honest : WF_vars(Progress(p))

-----------------------------------------------------------------------------
Hashes == [msgs : UNION {[S -> Values] : S \in SUBSET Parties}, round : Rounds]

Outputs(p, M) == [i : {p}, ids : [Slots(N) -> Nat], messages : [Slots(N) -> M]]

\* The errors by which a round can fail.
RoundErrors ==
    {"MismatchedMessageType", "AttemptToOverwriteReceivedMsg",
     "SenderIndexOutOfRange", "StoreReceivedTwoMsgsFromSameParty",
     "MessageFromAnotherRound"}

Entries(p, type, M) ==
    {Gone} \cup [st : {"Failed"}, err : RoundErrors]
    \cup [st : {"Ongoing"}, store : RoundInputs(p, N, type, M),
          received : UNION {[S -> Values] : S \in SUBSET Parties}]
    \cup [st : {"Collected"}, out : Outputs(p, M),
          received : UNION {[S -> Values] : S \in SUBSET Parties}]

\* Every variable has its type; a reliable round that is collected has a
\* full output.
TypeOK ==
    /\ pc \in [Honest -> {"idle", "sent", "main", "sendEcho", "echo",
                          "done", "failed"}]
    /\ rnd \in [Honest -> 0 .. R]
    /\ \A p \in Honest :
        /\ DOMAIN main[p] = Rounds /\ DOMAIN echo[p] = Reliable
        /\ \A r \in Rounds :
             main[p][r] \in Entries(p, Stores[r].type, Values)
        /\ \A r \in Reliable :
             echo[p][r] \in Entries(p, "Broadcast", Hashes \cup {e.hash : e \in ByzEchoes})
        /\ slots[p] \subseteq Reliable
        /\ DOMAIN sent[p] \subseteq slots[p]
        /\ \A r \in DOMAIN sent[p] : sent[p][r] \in Values
        /\ DOMAIN check[p] \subseteq Reliable
        /\ \A r \in DOMAIN check[p] :
             check[p][r] \in [out : Outputs(p, Values), hash : Hashes]
        /\ DOMAIN exposed[p] \subseteq Rounds
        /\ \A r \in DOMAIN exposed[p] : exposed[p][r] \in Outputs(p, Values)
    /\ \A m \in net : m.from \in Honest /\ m.to \in Honest
    /\ cast \subseteq [sender : Honest, round : Rounds, msg : Values]
    /\ late \subseteq Honest

(***************************************************************************)
(* Properties.                                                             *)
(***************************************************************************)
\* What party q holds for the sender s of round r once q has collected the
\* messages of the round; for s = q it is what q has sent.
HoldsFor(q, r, s, v) ==
    IF s = q
      THEN q \in DOMAIN check[q][r].hash.msgs
           /\ check[q][r].hash.msgs[q] = v
      ELSE check[q][r].out.messages[SlotOf(q, s)] = v

\* Reliable broadcast: once complete has given a party the messages of a
\* reliable round, every honest party has collected the messages of that
\* round and holds, for every sender, honest or not, the same message.
Agreement ==
    \A p, q \in Honest, r \in Reliable :
        r \in DOMAIN exposed[p] =>
            /\ r \in DOMAIN check[q]
            /\ \A s \in Parties \ {p} :
                 HoldsFor(q, r, s, exposed[p][r].messages[SlotOf(p, s)])

\* The promise of the wrapper, and what of its state the promise is about: the
\* messages of honest parties in reliable rounds, and the outputs of these
\* rounds by sender.
RB == INSTANCE ReliableBroadcast WITH
        cast <- {c \in cast : c.round \in Reliable},
        out <- [p \in Honest |->
                 [r \in DOMAIN exposed[p] \cap Reliable |->
                   [s \in Parties \ {p} |->
                      exposed[p][r].messages[SlotOf(p, s)]]]]

\* Every step of the parties, of the network and of the dishonest parties is a
\* step of a reliable broadcast or none.
ImplementsReliableBroadcast == RB!Spec

\* The messages that are hashed and the messages that are given to the
\* protocol are kept in two places; they are the same.
HashCoversOutput ==
    \A p \in Honest : \A r \in DOMAIN check[p] :
        /\ DOMAIN check[p][r].hash.msgs \ {p} = Others(p, N)
        /\ \A s \in Others(p, N) :
             check[p][r].hash.msgs[s] = check[p][r].out.messages[SlotOf(p, s)]

\* If everybody is honest, sends succeed and nothing is duplicated, no party
\* fails (stores expect broadcasts here, reliable ones only with echoes):
\* whatever overtakes whatever, including messages and echoes of rounds that a
\* slow party has not reached, and own broadcasts that come back.
HonestNeverFail ==
    Byzantine = {} /\ ~ Duplicates /\ SendsFail = {} /\ Careless = {} =>
        \A p \in Honest : pc[p] # "failed"

\* A party is told of an unreliable broadcast (mismatched hashes) only if
\* there is a dishonest party: neither the order of the messages, nor their
\* duplication, nor failed sends and what a careless protocol does next make
\* honest hashes differ, for on_send lets a party send one message only.  The
\* exception is a party that sends in a reliable round whose messages it has
\* collected: on_send does not know the round any more.
MismatchMeansDishonest ==
    \A p \in Honest :
        error[p] = "MismatchedHash" => Byzantine # {} \/ late # {}

\* If everybody is honest and sends, all complete all their rounds.
EveryoneFinishes == <>(\A p \in Honest : pc[p] = "done")

\* mpc/party/mod.rs on the router's errors: "When implementation is correct,
\* this error never appears.  Thus, it should not be possible for the
\* adversary to make this error happen."
NoRouterErrors ==
    \A p \in Honest :
        error[p] \notin {"UnregisteredRound", "MessageFromAnotherRound"}
=============================================================================
