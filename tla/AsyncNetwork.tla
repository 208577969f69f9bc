---------------------------- MODULE AsyncNetwork ----------------------------
(***************************************************************************)
(* The simulated network of sim/async_env.rs: all parties share one        *)
(* bounded broadcast channel of tokio, and each keeps the messages that    *)
(* are for it.                                                             *)
(*                                                                         *)
(* Parties run on threads of their own.  An id is drawn from the shared    *)
(* counter before the message is put in the channel, hence start_send is   *)
(* two steps; an iteration of the loop of poll_next reads the channel      *)
(* once, hence is one step.  A half of a party's delivery, or the Network, *)
(* may be dropped at any time.                                             *)
(***************************************************************************)
EXTENDS Naturals, Sequences

CONSTANTS
    MaxParties,     \* bound: parties that are connected
    Capacities,     \* the capacities that may be given to with_capacity
    MaxSends        \* bound: calls of start_send

ASSUME AsyncNetworkAssumption ==
    /\ MaxParties \in Nat
    /\ Capacities \subseteq Nat \ {0}
    /\ MaxSends \in Nat

\* Every capacity can be rounded up to a power of two.
ASSUME PowersOfTwo ==
    \A c \in Capacities :
        /\ \A k \in 0 .. c : 2 ^ k \in Nat
        /\ \E k \in 0 .. c : 2 ^ k >= c /\ 2 ^ k < 2 * c

Parties == 0 .. (MaxParties - 1)

\* MessageDestination::AllParties; OneParty(i) is i.  Whether the broadcast is
\* to be reliable is passed on and has no effect here.
AllParties == MaxParties

Messages == [id : Nat, sender : Parties, recipient : Parties \cup {AllParties}]

VARIABLES
    capacity,       \* the capacity of the channel, a choice of the caller
    network,        \* whether the Network exists
    nextPartyIdx,   \* Network::next_party_idx
    nextMsgId,      \* NextMessageId
    channel,        \* all messages ever put in the channel
    outgoing,       \* parties whose MockedOutgoing exists
    sending,        \* messages inside start_send, at most one per party
    incoming,       \* parties whose MockedIncoming exists
    from,           \* where in the channel a receiver was subscribed
    cursor,         \* the place in the channel a receiver reads next
    yielded,        \* history: what poll_next has returned
    closed          \* history: parties to which poll_next has returned None

vars == <<capacity, network, nextPartyIdx, nextMsgId, channel, outgoing,
          sending, incoming, from, cursor, yielded, closed>>

\* with_capacity; nobody is connected yet.
Init ==
    /\ capacity \in Capacities
    /\ network = TRUE
    /\ nextPartyIdx = 0
    /\ nextMsgId = 0
    /\ channel = << >>
    /\ outgoing = {}
    /\ sending = {}
    /\ incoming = {}
    /\ from = [p \in Parties |-> 1]
    /\ cursor = [p \in Parties |-> 1]
    /\ yielded = [p \in Parties |-> << >>]
    /\ closed = {}

(***************************************************************************)
(* The channel (tokio::sync::broadcast).                                   *)
(***************************************************************************)
\* Mutant: the capacity is rounded down to a buffer with a slot less.
OneSlotShort == IF capacity = 1 THEN 1 ELSE capacity - 1

\* The length of the buffer: the capacity rounded up to a power of two.
BufferLen ==
    CHOOSE n \in {2 ^ k : k \in 0 .. capacity} :
        n >= capacity /\ n < 2 * capacity

\* The places of the channel that are still in the buffer.
Buffered == {i \in 1 .. Len(channel) : i + BufferLen > Len(channel)}

Read(p) == channel[cursor[p]]

(***************************************************************************)
(* Network.                                                                *)
(***************************************************************************)
\* Mutant: the index is not used up.
SameIndex(p) == p = nextPartyIdx /\ UNCHANGED nextPartyIdx

TakeIndex(p) == p = nextPartyIdx /\ nextPartyIdx' = nextPartyIdx + 1

\* connect_new_party, also as part of add_party and of the loop of
\* run_with_capacity_and_setup.
ConnectNewParty ==
    \E p \in Parties :
        /\ network
        /\ TakeIndex(p)
        /\ outgoing' = outgoing \cup {p}
        /\ incoming' = incoming \cup {p}
        /\ from' = [from EXCEPT ![p] = Len(channel) + 1]
        /\ cursor' = [cursor EXCEPT ![p] = Len(channel) + 1]
        /\ UNCHANGED <<capacity, network, nextMsgId, channel, sending, yielded,
                       closed>>

DropNetwork ==
    /\ network
    /\ network' = FALSE
    /\ UNCHANGED <<capacity, nextPartyIdx, nextMsgId, channel, outgoing,
                   sending, incoming, from, cursor, yielded, closed>>

(***************************************************************************)
(* MockedOutgoing.                                                         *)
(***************************************************************************)
Idle(p) == p \in outgoing /\ \A m \in sending : m.sender # p

\* Mutant: the counter is read here and written when the message is sent.
IdOnlyRead == nextMsgId' = nextMsgId

\* fetch_add of NextMessageId::next.
UseUpId == nextMsgId' = nextMsgId + 1

\* start_send until the id is drawn.
StartSend(p, recipient) ==
    /\ Idle(p)
    /\ nextMsgId < MaxSends
    /\ UseUpId
    /\ sending' = sending \cup
            {[id |-> nextMsgId, sender |-> p, recipient |-> recipient]}
    /\ UNCHANGED <<capacity, network, nextPartyIdx, channel, outgoing, incoming,
                   from, cursor, yielded, closed>>

\* The rest of start_send: the channel refuses the message if there is no
\* receiver, and start_send returns an error.
SendToChannel(m) ==
    /\ m \in sending
    /\ sending' = sending \ {m}
    /\ channel' = IF incoming = {} THEN channel ELSE Append(channel, m)
    /\ UNCHANGED <<capacity, network, nextPartyIdx, nextMsgId, outgoing,
                   incoming, from, cursor, yielded, closed>>

DropOutgoing(p) ==
    /\ Idle(p)
    /\ outgoing' = outgoing \ {p}
    /\ UNCHANGED <<capacity, network, nextPartyIdx, nextMsgId, channel, sending,
                   incoming, from, cursor, yielded, closed>>

(***************************************************************************)
(* MockedIncoming::poll_next.  What it returns is recorded as the place of *)
(* the message in the channel, or as Lagged.                               *)
(***************************************************************************)
Lagged == 0

\* Mutants: the recipient is not looked at; the error is not returned; None is
\* returned while there may be another message.
DeliverAll(p, recipient) == TRUE
SkipLost(p) == UNCHANGED yielded
NothingToRead == TRUE

\* Not the p2p message of another party.  A party gets its own broadcasts.
IsForMe(p, recipient) == recipient = AllParties \/ recipient = p

ReturnLagged(p) == yielded' = [yielded EXCEPT ![p] = Append(@, Lagged)]

\* There is no Sender that could put a message in the channel.
NoSenderLeft == ~network /\ outgoing = {}

\* Ok(m): the message is returned, or skipped.
ReadMessage(p) ==
    /\ p \in incoming
    /\ cursor[p] \in Buffered
    /\ cursor' = [cursor EXCEPT ![p] = @ + 1]
    /\ yielded' = IF IsForMe(p, Read(p).recipient)
                    THEN [yielded EXCEPT ![p] = Append(@, cursor[p])]
                    ELSE yielded
    /\ UNCHANGED <<capacity, network, nextPartyIdx, nextMsgId, channel,
                   outgoing, sending, incoming, from, closed>>

\* Err(Lagged): the message was overwritten; the receiver goes on with the
\* oldest one there is.
ReadLagged(p) ==
    /\ p \in incoming
    /\ cursor[p] \in (1 .. Len(channel)) \ Buffered
    /\ cursor' = [cursor EXCEPT ![p] = Len(channel) - BufferLen + 1]
    /\ ReturnLagged(p)
    /\ UNCHANGED <<capacity, network, nextPartyIdx, nextMsgId, channel,
                   outgoing, sending, incoming, from, closed>>

\* None: all was read and the channel is closed.
ReadClosed(p) ==
    /\ p \in incoming
    /\ cursor[p] = Len(channel) + 1
    /\ NoSenderLeft
    /\ closed' = closed \cup {p}
    /\ UNCHANGED <<capacity, network, nextPartyIdx, nextMsgId, channel,
                   outgoing, sending, incoming, from, cursor, yielded>>

DropIncoming(p) ==
    /\ p \in incoming
    /\ incoming' = incoming \ {p}
    /\ UNCHANGED <<capacity, network, nextPartyIdx, nextMsgId, channel,
                   outgoing, sending, from, cursor, yielded, closed>>

(***************************************************************************)
Next ==
    \/ ConnectNewParty
    \/ DropNetwork
    \/ \E p \in Parties, r \in Parties \cup {AllParties} : StartSend(p, r)
    \/ \E m \in sending : SendToChannel(m)
    \/ \E p \in Parties : \/ ReadMessage(p)
                          \/ ReadLagged(p)
                          \/ ReadClosed(p)
                          \/ DropOutgoing(p)
                          \/ DropIncoming(p)

Spec == Init /\ [][Next]_vars

(***************************************************************************)
(* Properties.                                                             *)
(***************************************************************************)
\* Types; halves are in the hands of connected parties only, and a receiver is
\* never ahead of the channel or behind its subscription.
TypeOK ==
    /\ capacity \in Capacities
    /\ network \in BOOLEAN
    /\ nextPartyIdx \in 0 .. MaxParties
    /\ nextMsgId \in Nat
    /\ channel \in Seq(Messages)
    /\ sending \subseteq Messages
    /\ outgoing \subseteq 0 .. (nextPartyIdx - 1)
    /\ incoming \subseteq 0 .. (nextPartyIdx - 1)
    /\ from \in [Parties -> Nat \ {0}]
    /\ cursor \in [Parties -> Nat \ {0}]
    /\ yielded \in [Parties -> Seq(Nat)]
    /\ closed \subseteq Parties
    /\ \A p \in Parties :
        from[p] <= cursor[p] /\ cursor[p] <= Len(channel) + 1

\* No two messages have the same id, though parties draw ids concurrently and
\* an id is drawn before its message is in the channel (NextMessageId::next).
IdsAreUnique ==
    /\ \A i, j \in 1 .. Len(channel) :
        channel[i].id = channel[j].id => i = j
    /\ \A m \in sending, i \in 1 .. Len(channel) : m.id # channel[i].id
    /\ \A l, m \in sending : l.id = m.id => l = m

\* A party gets what was sent after it was connected and is for it, its own
\* broadcasts included: nothing twice and everything in the order of the
\* channel (poll_next skips p2p messages of others).
GetsOwnMessagesInOrder ==
    \A p \in Parties : \A k \in 1 .. Len(yielded[p]) :
        LET i == yielded[p][k]
        IN  i # Lagged =>
              /\ i \in from[p] .. Len(channel)
              /\ channel[i].recipient \in {p, AllParties}
              /\ \A l \in 1 .. (k - 1) : yielded[p][l] < i

\* A message for a party that it has passed over was lost to lag, and then the
\* error came between what the party got before and after it (poll_next
\* returns the error of the stream).
NoSilentLoss ==
    \A p \in Parties : \A i \in from[p] .. (cursor[p] - 1) :
        channel[i].recipient \in {p, AllParties} =>
            \E k \in 1 .. Len(yielded[p]) :
                \/ yielded[p][k] = i
                \/ /\ yielded[p][k] = Lagged
                   /\ \A l \in 1 .. (k - 1) : yielded[p][l] < i
                   /\ \A l \in (k + 1) .. Len(yielded[p]) :
                        yielded[p][l] = Lagged \/ yielded[p][l] > i

\* With a capacity "that can fit all the messages sent by all the parties" a
\* receiver never lags (with_capacity).
CapacityIsEnough ==
    Len(channel) <= capacity =>
        \A p \in Parties : \A k \in 1 .. Len(yielded[p]) :
            yielded[p][k] # Lagged

\* The end of the stream is final: poll_next has returned None only if no
\* message can come any more, and everything in the channel was looked at.
ClosedIsFinal ==
    \A p \in closed :
        /\ sending = {} /\ outgoing = {} /\ ~network
        /\ cursor[p] = Len(channel) + 1
=============================================================================
