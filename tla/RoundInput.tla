----------------------------- MODULE RoundInput -----------------------------
(***************************************************************************)
(* The round store of round/simple_store.rs: `RoundInput` collects one     *)
(* message of a given type from every other party, `RoundMsgs` is what it  *)
(* outputs.  A store is a value and its methods are operators on it, so    *)
(* that every module which owns stores (the router, the echo broadcast)    *)
(* can keep them in its own state.                                         *)
(*                                                                         *)
(* Parties are 0 .. n-1, as in the code.  A `Vec` of length k is a         *)
(* function on 0 .. k-1.  The `Vec<Option<M>>` of the received messages is *)
(* a partial function: the slots in its domain are the occupied ones.      *)
(***************************************************************************)
EXTENDS Integers, FiniteSets

\* delivery.rs, MessageType
MessageTypes == {"P2P", "Broadcast", "ReliableBroadcast"}

\* The n-1 slots of a store of n parties.
Slots(n) == 0 .. (n - 2)

Others(i, n) == (0 .. (n - 1)) \ {i}

\* `RoundInput::new`; its two assertions are the guards 2 <= n and i < n of
\* whoever constructs a store.
RoundInputNew(i, n, type) ==
    [i |-> i, n |-> n, expected |-> type, left |-> n - 1,
     ids |-> [s \in Slots(n) |-> 0],
     messages |-> [s \in {} |-> 0]]

\* An unreliable broadcast is also delivered by a reliable one, not conversely.
IsExpectedTypeOfMsg(expected, actual) ==
    \/ expected = actual
    \/ expected = "Broadcast" /\ actual = "ReliableBroadcast"

\* What read_any_prop answers for a store that expects this type.
RequiresReliableBroadcast(expected) == expected = "ReliableBroadcast"

\* Mutant: off by one at the own index.
PartyOfOffByOne(i, s) == IF s <= i THEN s ELSE s + 1

\* The slot of party j at party i, and the party of slot s.
SlotOf(i, j) == IF j < i THEN j ELSE j - 1
PartyOf(i, s) == IF s < i THEN s ELSE s + 1

MismatchedMessageType(id, expected, actual) ==
    [kind |-> "MismatchedMessageType", id |-> id,
     expected |-> expected, actual |-> actual]

AttemptToOverwriteReceivedMsg(first, second, sender) ==
    [kind |-> "AttemptToOverwriteReceivedMsg", first |-> first,
     second |-> second, sender |-> sender]

SenderIndexOutOfRange(id, sender, n) ==
    [kind |-> "SenderIndexOutOfRange", id |-> id, sender |-> sender, n |-> n]

NoError == [kind |-> "NoError"]

\* Mutants of add_message: the index is not checked against the length; an
\* occupied slot is overwritten; own messages are not ignored.
NoRangeCheck(store, m) ==
    LET slot == SlotOf(store.i, m.sender) IN
    IF ~ IsExpectedTypeOfMsg(store.expected, m.type)
      THEN MismatchedMessageType(m.id, store.expected, m.type)
    ELSE IF m.sender # store.i /\ slot \in DOMAIN store.messages
      THEN AttemptToOverwriteReceivedMsg(store.ids[slot], m.id, m.sender)
    ELSE NoError

OverwriteAllowed(store, m) ==
    LET slot == SlotOf(store.i, m.sender) IN
    IF ~ IsExpectedTypeOfMsg(store.expected, m.type)
      THEN MismatchedMessageType(m.id, store.expected, m.type)
    ELSE IF m.sender # store.i /\ slot \notin Slots(store.n)
      THEN SenderIndexOutOfRange(m.id, m.sender, store.n)
    ELSE NoError

OwnNotIgnored(store, m) ==
    LET slot == SlotOf(store.i, m.sender) IN
    IF ~ IsExpectedTypeOfMsg(store.expected, m.type)
      THEN MismatchedMessageType(m.id, store.expected, m.type)
    ELSE IF slot \notin Slots(store.n)
      THEN SenderIndexOutOfRange(m.id, m.sender, store.n)
    ELSE IF slot \in DOMAIN store.messages
      THEN AttemptToOverwriteReceivedMsg(store.ids[slot], m.id, m.sender)
    ELSE NoError

(***************************************************************************)
(* add_message: the error the store answers, and the store afterwards.  A  *)
(* message of the party itself is accepted and dropped; an error leaves    *)
(* the store as it was.                                                    *)
(***************************************************************************)
AddMessageError(store, m) ==
    LET slot == SlotOf(store.i, m.sender) IN
    IF ~ IsExpectedTypeOfMsg(store.expected, m.type)
      THEN MismatchedMessageType(m.id, store.expected, m.type)
    ELSE IF m.sender = store.i
      THEN NoError
    ELSE IF slot \notin Slots(store.n)
      THEN SenderIndexOutOfRange(m.id, m.sender, store.n)
    ELSE IF slot \in DOMAIN store.messages
      THEN AttemptToOverwriteReceivedMsg(store.ids[slot], m.id, m.sender)
    ELSE NoError

\* Mutant: the id of the message is not kept.
IdNotKept(store, m) ==
    LET slot == SlotOf(store.i, m.sender) IN
    IF AddMessageError(store, m) # NoError \/ m.sender = store.i
      THEN store
      ELSE [store EXCEPT
              !.left = @ - 1,
              !.messages = [s \in DOMAIN store.messages \cup {slot} |->
                              IF s = slot THEN m.msg ELSE store.messages[s]]]

AddMessage(store, m) ==
    LET slot == SlotOf(store.i, m.sender) IN
    IF AddMessageError(store, m) # NoError \/ m.sender = store.i
      THEN store
      ELSE [store EXCEPT
              !.left = @ - 1,
              !.ids[slot] = m.id,
              !.messages = [s \in DOMAIN store.messages \cup {slot} |->
                              IF s = slot THEN m.msg ELSE store.messages[s]]]

WantsMore(store) == store.left > 0

\* The position an occupied slot gets when the vacant ones are skipped.
RankIn(full, s) == Cardinality({t \in full : t < s})

\* `messages.into_iter().flatten().collect()`
Flatten(messages) ==
    LET full == DOMAIN messages IN
    [k \in 0 .. (Cardinality(full) - 1) |->
        messages[CHOOSE s \in full : RankIn(full, s) = k]]

\* `output`, for a store that wants no more messages.
Output(store) ==
    [i |-> store.i, ids |-> store.ids, messages |-> Flatten(store.messages)]

\* The stores of party i of n for messages in M, with a count of the missing
\* messages that agrees with the vacant slots.
RoundInputs(i, n, type, M) ==
    [i : {i}, n : {n}, expected : {type}, left : 0 .. (n - 1),
     ids : [Slots(n) -> Nat],
     messages : UNION {[S -> M] : S \in SUBSET Slots(n)}]

Counted(store) ==
    store.left = store.n - 1 - Cardinality(DOMAIN store.messages)

(***************************************************************************)
(* What the protocol reads from the output: the entry of another party     *)
(* (`iter_indexed`, `into_iter_indexed`) and the vector in which the party *)
(* has put its own message (`into_vec_including_me`,                       *)
(* `iter_including_me`, `into_iter_including_me`).                         *)
(***************************************************************************)
IterIndexed(out) ==
    [s \in DOMAIN out.messages |->
        [party |-> PartyOf(out.i, s), id |-> out.ids[s],
         msg |-> out.messages[s]]]

\* The own message is inserted at position i.
IncludingMe(out, mine) ==
    [j \in 0 .. Cardinality(DOMAIN out.messages) |->
        IF j < out.i THEN out.messages[j]
        ELSE IF j = out.i THEN mine
        ELSE out.messages[j - 1]]
=============================================================================
