------------------------- MODULE AsyncNetworkProofs -------------------------
(***************************************************************************)
(* The asynchronous network, for any number of parties, any capacity and   *)
(* any number of messages: ids are unique; a party gets its messages in    *)
(* order, and what it loses it is told of; the end of the stream is final. *)
(***************************************************************************)
EXTENDS AsyncNetwork, TLAPS

\* All ids were drawn from the counter: what makes the id of a new message new.
IdsAreDrawn ==
    /\ \A i \in 1 .. Len(channel) : channel[i].id < nextMsgId
    /\ \A m \in sending : m.id < nextMsgId

\* The types of the variables ids are in.
IdTypes ==
    /\ nextMsgId \in Nat
    /\ channel \in Seq(Messages)
    /\ sending \subseteq Messages

IdsInv == IdTypes /\ IdsAreDrawn /\ IdsAreUnique

\* Drawing an id (fetch_add at the start of start_send) keeps ids unique.
LEMMA StartSendKeepsIds ==
    ASSUME IdsInv,
           NEW p \in Parties,
           NEW r \in Parties \cup {AllParties},
           StartSend(p, r)
    PROVE  IdsInv'
<1> DEFINE m == [id |-> nextMsgId, sender |-> p, recipient |-> r]
<1>1. /\ nextMsgId' = nextMsgId + 1
      /\ sending' = sending \cup {m}
      /\ channel' = channel
  BY DEF StartSend, UseUpId
<1>2. m \in Messages /\ m.id = nextMsgId
  BY DEF Messages, IdsInv, IdTypes
<1> HIDE DEF m
<1>3. IdTypes'
  BY <1>1, <1>2 DEF IdsInv, IdTypes
<1>4. \A i \in 1 .. Len(channel) : channel[i].id \in Nat
  <2>1. \A i \in 1 .. Len(channel) : channel[i] \in Messages
    BY DEF IdsInv, IdTypes
  <2> QED
    BY <2>1 DEF Messages
<1>5. \A l \in sending : l.id \in Nat
  BY DEF IdsInv, IdTypes, Messages
<1>6. IdsAreDrawn'
  BY <1>1, <1>2, <1>4, <1>5 DEF IdsInv, IdTypes, IdsAreDrawn
<1>7. IdsAreUnique'
  BY <1>1, <1>2, <1>4, <1>5 DEF IdsInv, IdTypes, IdsAreDrawn, IdsAreUnique
<1> QED
  BY <1>3, <1>6, <1>7 DEF IdsInv

\* Putting a message in the channel, or the channel refusing it, keeps ids
\* unique (the end of start_send).
LEMMA SendToChannelKeepsIds ==
    ASSUME IdsInv,
           NEW m \in sending,
           SendToChannel(m)
    PROVE  IdsInv'
<1>1. /\ nextMsgId' = nextMsgId
      /\ sending' = sending \ {m}
  BY DEF SendToChannel
<1>2. m \in Messages
  BY DEF IdsInv, IdTypes
<1>3. CASE incoming = {}
  <2>1. channel' = channel
    BY <1>3 DEF SendToChannel
  <2> QED
    BY <1>1, <2>1 DEF IdsInv, IdTypes, IdsAreDrawn, IdsAreUnique
<1>4. CASE incoming # {}
  <2>1. channel' = Append(channel, m)
    BY <1>4 DEF SendToChannel
  <2>2. /\ channel' \in Seq(Messages)
        /\ Len(channel) \in Nat
        /\ Len(channel') = Len(channel) + 1
        /\ channel'[Len(channel) + 1] = m
        /\ \A i \in 1 .. Len(channel) : channel'[i] = channel[i]
    BY <1>2, <2>1 DEF IdsInv, IdTypes
  <2>3. \A i \in 1 .. Len(channel') :
            i = Len(channel) + 1 \/ i \in 1 .. Len(channel)
    BY <2>2
  <2>4. IdTypes'
    BY <1>1, <2>2 DEF IdsInv, IdTypes
  <2>5. IdsAreDrawn'
    BY <1>1, <2>2, <2>3 DEF IdsInv, IdsAreDrawn
  <2>6. IdsAreUnique'
    BY <1>1, <2>2, <2>3 DEF IdsInv, IdsAreUnique
  <2> QED
    BY <2>4, <2>5, <2>6 DEF IdsInv
<1> QED
  BY <1>3, <1>4

\* No two messages have the same id, whatever the parties do concurrently
\* (NextMessageId::next, start_send).
THEOREM IdsAreUniqueTheorem == Spec => []IdsAreUnique
<1>1. Init => IdsInv
  BY DEF Init, IdsInv, IdTypes, IdsAreDrawn, IdsAreUnique
<1>2. IdsInv /\ [Next]_vars => IdsInv'
  <2> SUFFICES ASSUME IdsInv, [Next]_vars
               PROVE  IdsInv'
    OBVIOUS
  <2>1. ASSUME UNCHANGED <<nextMsgId, channel, sending>>
        PROVE  IdsInv'
    BY <2>1 DEF IdsInv, IdTypes, IdsAreDrawn, IdsAreUnique
  <2>2. CASE ConnectNewParty
    BY <2>1, <2>2 DEF ConnectNewParty
  <2>3. CASE DropNetwork
    BY <2>1, <2>3 DEF DropNetwork
  <2>4. ASSUME NEW p \in Parties, NEW r \in Parties \cup {AllParties},
               StartSend(p, r)
        PROVE  IdsInv'
    BY <2>4, StartSendKeepsIds
  <2>5. ASSUME NEW m \in sending, SendToChannel(m)
        PROVE  IdsInv'
    BY <2>5, SendToChannelKeepsIds
  <2>6. ASSUME NEW p \in Parties,
               \/ ReadMessage(p) \/ ReadLagged(p) \/ ReadClosed(p)
               \/ DropOutgoing(p) \/ DropIncoming(p)
        PROVE  IdsInv'
    BY <2>1, <2>6 DEF ReadMessage, ReadLagged, ReadClosed, DropOutgoing,
                      DropIncoming
  <2>7. CASE UNCHANGED vars
    BY <2>1, <2>7 DEF vars
  <2> QED
    BY <2>2, <2>3, <2>4, <2>5, <2>6, <2>7 DEF Next
<1>3. IdsInv => IdsAreUnique
  BY DEF IdsInv
<1> QED
  BY <1>1, <1>2, <1>3, PTL DEF Spec

-----------------------------------------------------------------------------
(***************************************************************************)
(* What the parties get.                                                   *)
(***************************************************************************)
\* The length of the buffer is that of a buffer that fits the capacity.
LEMMA BufferFits ==
    ASSUME capacity \in Capacities
    PROVE  BufferLen \in Nat /\ BufferLen >= capacity /\ capacity \in Nat
<1>1. capacity \in Nat /\ \A k \in 0 .. capacity : 2 ^ k \in Nat
  BY PowersOfTwo, AsyncNetworkAssumption
<1>2. \E n \in {2 ^ k : k \in 0 .. capacity} :
          n >= capacity /\ n < 2 * capacity
  BY PowersOfTwo
<1>3. /\ BufferLen \in {2 ^ k : k \in 0 .. capacity}
      /\ BufferLen >= capacity /\ BufferLen < 2 * capacity
  BY <1>2 DEF BufferLen
<1>. QED
  BY <1>1, <1>3

\* A party that is not connected yet has got nothing.
NothingEarly ==
    \A p \in Parties : p >= nextPartyIdx => yielded[p] = << >>

\* A message that is being sent is in the hands of its sender.
SendersExist == \A m \in sending : m.sender \in outgoing

\* What was returned is behind the cursor.
Behind(p) == \A k \in 1 .. Len(yielded[p]) : yielded[p][k] < cursor[p]

InOrder(p) ==
    \A k \in 1 .. Len(yielded[p]) :
        yielded[p][k] # Lagged =>
            /\ yielded[p][k] \in from[p] .. Len(channel)
            /\ channel[yielded[p][k]].recipient \in {p, AllParties}
            /\ \A l \in 1 .. (k - 1) : yielded[p][l] < yielded[p][k]

\* Message i was returned to p, or an error in its place.
Accounted(p, i) ==
    \E k \in 1 .. Len(yielded[p]) :
        \/ yielded[p][k] = i
        \/ /\ yielded[p][k] = Lagged
           /\ \A l \in 1 .. (k - 1) : yielded[p][l] < i
           /\ \A l \in (k + 1) .. Len(yielded[p]) :
                yielded[p][l] = Lagged \/ yielded[p][l] > i

NothingLost(p) ==
    \A i \in from[p] .. (cursor[p] - 1) :
        channel[i].recipient \in {p, AllParties} => Accounted(p, i)

Reads(p) == Behind(p) /\ InOrder(p) /\ NothingLost(p)

NetInv ==
    /\ TypeOK
    /\ NothingEarly
    /\ SendersExist
    /\ \A p \in Parties : Reads(p)
    /\ CapacityIsEnough
    /\ ClosedIsFinal

\* The numbers that the properties of a party are about.
LEMMA PartyTypes ==
    ASSUME TypeOK, NEW p \in Parties
    PROVE  /\ from[p] \in Nat /\ from[p] >= 1
           /\ cursor[p] \in Nat /\ cursor[p] >= 1
           /\ from[p] <= cursor[p] /\ cursor[p] <= Len(channel) + 1
           /\ yielded[p] \in Seq(Nat) /\ Len(yielded[p]) \in Nat
           /\ \A k \in 1 .. Len(yielded[p]) : yielded[p][k] \in Nat
           /\ channel \in Seq(Messages) /\ Len(channel) \in Nat
<1>1. yielded[p] \in Seq(Nat) /\ channel \in Seq(Messages)
  BY DEF TypeOK
<1>. QED
  BY <1>1 DEF TypeOK

\* Nothing changes for a party.
LEMMA ReadsStay ==
    ASSUME NEW p, Reads(p),
           UNCHANGED <<from[p], cursor[p], yielded[p], channel>>
    PROVE  Reads(p)'
  BY DEF Reads, Behind, InOrder, NothingLost, Accounted

\* The channel grows.
LEMMA ReadsExtend ==
    ASSUME TypeOK, NEW p \in Parties, Reads(p), NEW m \in Messages,
           channel' = Append(channel, m),
           UNCHANGED <<from[p], cursor[p], yielded[p]>>
    PROVE  Reads(p)'
<1>1. /\ from[p] \in Nat /\ from[p] >= 1 /\ cursor[p] \in Nat
      /\ cursor[p] <= Len(channel) + 1
      /\ \A k \in 1 .. Len(yielded[p]) : yielded[p][k] \in Nat
      /\ channel \in Seq(Messages) /\ Len(channel) \in Nat
  BY PartyTypes
<1>2. /\ Len(channel') = Len(channel) + 1
      /\ \A i \in 1 .. Len(channel) : channel'[i] = channel[i]
  BY <1>1
<1>3. Behind(p)'
  BY DEF Reads, Behind
<1>4. InOrder(p)'
  <2> SUFFICES ASSUME NEW k \in 1 .. Len(yielded[p]), yielded[p][k] # Lagged
               PROVE  /\ yielded[p][k] \in from[p] .. Len(channel')
                      /\ channel'[yielded[p][k]].recipient \in {p, AllParties}
                      /\ \A l \in 1 .. (k - 1) : yielded[p][l] < yielded[p][k]
    BY DEF InOrder
  <2>1. /\ yielded[p][k] \in from[p] .. Len(channel)
        /\ channel[yielded[p][k]].recipient \in {p, AllParties}
        /\ \A l \in 1 .. (k - 1) : yielded[p][l] < yielded[p][k]
    BY DEF Reads, InOrder
  <2>. QED
    BY <1>1, <1>2, <2>1
<1>5. NothingLost(p)'
  <2>1. \A i \in from[p] .. (cursor[p] - 1) :
            channel'[i] = channel[i] /\ (Accounted(p, i) => Accounted(p, i)')
    BY <1>1, <1>2 DEF Accounted
  <2>. QED
    BY <2>1 DEF Reads, NothingLost
<1>. QED
  BY <1>3, <1>4, <1>5 DEF Reads

\* What appending to what a party has got does.
LEMMA Appended ==
    ASSUME TypeOK, NEW p \in Parties, NEW STATE x, x \in Nat,
           yielded' = [yielded EXCEPT ![p] = Append(@, x)]
    PROVE  /\ Len(yielded'[p]) = Len(yielded[p]) + 1
           /\ yielded'[p][Len(yielded[p]) + 1] = x
           /\ \A k \in 1 .. Len(yielded[p]) : yielded'[p][k] = yielded[p][k]
           /\ \A q \in Parties \ {p} : yielded'[q] = yielded[q]
           /\ yielded' \in [Parties -> Seq(Nat)]
<1>1. yielded \in [Parties -> Seq(Nat)] /\ yielded[p] \in Seq(Nat)
  BY DEF TypeOK
<1>2. yielded'[p] = Append(yielded[p], x)
  BY <1>1
<1>. QED
  BY <1>1, <1>2

\* What was accounted for stays so when something greater, or an error, comes.
LEMMA StaysAccounted ==
    ASSUME TypeOK, NEW p \in Parties, NEW STATE x, x \in Nat,
           yielded' = [yielded EXCEPT ![p] = Append(@, x)],
           NEW i \in Nat, Accounted(p, i), x = Lagged \/ x > i
    PROVE  Accounted(p, i)'
<1>1. /\ Len(yielded'[p]) = Len(yielded[p]) + 1
      /\ yielded'[p][Len(yielded[p]) + 1] = x
      /\ \A k \in 1 .. Len(yielded[p]) : yielded'[p][k] = yielded[p][k]
  BY Appended
<1>2. Len(yielded[p]) \in Nat
  BY PartyTypes
<1>3. PICK k \in 1 .. Len(yielded[p]) :
        \/ yielded[p][k] = i
        \/ /\ yielded[p][k] = Lagged
           /\ \A l \in 1 .. (k - 1) : yielded[p][l] < i
           /\ \A l \in (k + 1) .. Len(yielded[p]) :
                yielded[p][l] = Lagged \/ yielded[p][l] > i
  BY DEF Accounted
<1>4. k \in 1 .. Len(yielded'[p]) /\ yielded'[p][k] = yielded[p][k]
  BY <1>1, <1>2
<1>5. CASE yielded[p][k] = i
  BY <1>4, <1>5 DEF Accounted
<1>6. CASE /\ yielded[p][k] = Lagged
           /\ \A l \in 1 .. (k - 1) : yielded[p][l] < i
           /\ \A l \in (k + 1) .. Len(yielded[p]) :
                yielded[p][l] = Lagged \/ yielded[p][l] > i
  <2>1. \A l \in 1 .. (k - 1) : yielded'[p][l] < i
    BY <1>1, <1>2, <1>6
  <2>2. \A l \in (k + 1) .. Len(yielded'[p]) :
            yielded'[p][l] = Lagged \/ yielded'[p][l] > i
    BY <1>1, <1>2, <1>6
  <2>. QED
    BY <1>4, <1>6, <2>1, <2>2 DEF Accounted
<1>. QED
  BY <1>3, <1>5, <1>6

\* poll_next returns a message or skips it.
LEMMA ReadKeeps ==
    ASSUME NetInv, NEW p \in Parties, ReadMessage(p)
    PROVE  Reads(p)'
<1> DEFINE c == cursor[p]
           n == Len(yielded[p])
<1>1. /\ c \in 1 .. Len(channel) /\ cursor'[p] = c + 1 /\ c \in Nat
      /\ UNCHANGED <<channel, from>> /\ from[p] \in Nat
      /\ from[p] <= c /\ n \in Nat /\ Len(channel) \in Nat /\ from[p] >= 1
      /\ \A k \in 1 .. n : yielded[p][k] \in Nat /\ yielded[p][k] < c
  <2>1. Reads(p) /\ TypeOK
    BY DEF NetInv
  <2>2. cursor'[p] = c + 1
    BY <2>1 DEF ReadMessage, TypeOK
  <2>. QED
    BY <2>1, <2>2, PartyTypes DEF ReadMessage, Buffered, Reads, Behind
<1>2. Reads(p) /\ TypeOK
  BY DEF NetInv
<1>3. CASE ~ IsForMe(p, Read(p).recipient)
  <2>1. yielded' = yielded /\ channel[c].recipient \notin {p, AllParties}
    BY <1>3 DEF ReadMessage, IsForMe, Read
  <2>2. Behind(p)'
    BY <1>1, <2>1 DEF Behind
  <2>3. InOrder(p)'
    BY <1>1, <1>2, <2>1 DEF Reads, InOrder
  <2>4. NothingLost(p)'
    <3>1. \A i \in from[p] .. c : i \in from[p] .. (c - 1) \/ i = c
      BY <1>1
    <3>2. \A i : Accounted(p, i) => Accounted(p, i)'
      BY <2>1 DEF Accounted
    <3>3. cursor'[p] - 1 = c
      BY <1>1
    <3>. QED
      BY <1>1, <1>2, <2>1, <3>1, <3>2, <3>3 DEF Reads, NothingLost
  <2>. QED
    BY <2>2, <2>3, <2>4 DEF Reads
<1>4. CASE IsForMe(p, Read(p).recipient)
  <2>1. /\ yielded' = [yielded EXCEPT ![p] = Append(@, c)]
        /\ channel[c].recipient \in {p, AllParties}
    BY <1>4 DEF ReadMessage, IsForMe, Read
  <2>2. /\ Len(yielded'[p]) = n + 1 /\ yielded'[p][n + 1] = c
        /\ \A k \in 1 .. n : yielded'[p][k] = yielded[p][k]
    BY <1>1, <1>2, <2>1, Appended
  <2>3. \A k \in 1 .. Len(yielded'[p]) : k \in 1 .. n \/ k = n + 1
    BY <1>1, <2>2
  <2>4. Behind(p)'
    <3> SUFFICES ASSUME NEW k \in 1 .. Len(yielded'[p])
                 PROVE  yielded'[p][k] < cursor'[p]
      BY DEF Behind
    <3>1. CASE k \in 1 .. n
      <4>1. yielded'[p][k] \in Nat /\ yielded'[p][k] < c
        BY <1>1, <2>2, <3>1
      <4>. QED
        BY <1>1, <4>1
    <3>2. CASE k = n + 1
      BY <1>1, <2>2, <3>2
    <3>. QED
      BY <2>3, <3>1, <3>2
  <2>5. InOrder(p)'
    <3> SUFFICES ASSUME NEW k \in 1 .. Len(yielded'[p]),
                        yielded'[p][k] # Lagged
                 PROVE  /\ yielded'[p][k] \in from[p] .. Len(channel)
                        /\ channel[yielded'[p][k]].recipient \in {p, AllParties}
                        /\ \A l \in 1 .. (k - 1) : yielded'[p][l] < yielded'[p][k]
      BY <1>1 DEF InOrder
    <3>1. CASE k \in 1 .. n
      <4>1. /\ yielded[p][k] \in from[p] .. Len(channel)
            /\ channel[yielded[p][k]].recipient \in {p, AllParties}
            /\ \A l \in 1 .. (k - 1) : yielded[p][l] < yielded[p][k]
        BY <1>2, <2>2, <3>1 DEF Reads, InOrder
      <4>2. \A l \in 1 .. (k - 1) : yielded'[p][l] = yielded[p][l]
        BY <1>1, <2>2, <3>1
      <4>. QED
        BY <2>2, <3>1, <4>1, <4>2
    <3>2. CASE k = n + 1
      <4>1. \A l \in 1 .. (k - 1) : yielded'[p][l] < c
        BY <1>1, <2>2, <3>2
      <4>. QED
        BY <1>1, <2>1, <2>2, <3>2, <4>1
    <3>. QED
      BY <2>3, <3>1, <3>2
  <2>6. NothingLost(p)'
    <3> SUFFICES ASSUME NEW i \in from[p] .. c,
                        channel[i].recipient \in {p, AllParties}
                 PROVE  Accounted(p, i)'
      BY <1>1 DEF NothingLost
    <3>1. CASE i = c
      <4>1. n + 1 \in 1 .. Len(yielded'[p]) /\ yielded'[p][n + 1] = i
        BY <1>1, <2>2, <3>1
      <4>. QED
        BY <4>1 DEF Accounted
    <3>2. CASE i # c
      <4>1. i \in from[p] .. (c - 1) /\ i \in Nat /\ c > i
        BY <1>1, <3>2
      <4>2. Accounted(p, i)
        BY <1>2, <4>1 DEF Reads, NothingLost
      <4>. QED
        BY <1>1, <1>2, <2>1, <4>1, <4>2, StaysAccounted
    <3>. QED
      BY <3>1, <3>2
  <2>. QED
    BY <2>4, <2>5, <2>6 DEF Reads
<1>. QED
  BY <1>3, <1>4

\* poll_next returns the error, once for all the messages that were lost.
LEMMA LaggedKeeps ==
    ASSUME NetInv, NEW p \in Parties, ReadLagged(p)
    PROVE  /\ Reads(p)'
           /\ cursor'[p] \in Nat /\ cursor'[p] > cursor[p]
           /\ cursor'[p] <= Len(channel) + 1
           /\ Len(channel) > capacity
<1> DEFINE c == cursor[p]
           d == cursor'[p]
           n == Len(yielded[p])
<1>1. Reads(p) /\ TypeOK
  BY DEF NetInv
<1>2. /\ BufferLen \in Nat /\ BufferLen >= capacity /\ capacity \in Nat
  BY <1>1, BufferFits DEF TypeOK
<1>3. /\ from[p] \in Nat /\ from[p] >= 1 /\ c \in Nat /\ c >= 1 /\ from[p] <= c
      /\ n \in Nat /\ Len(channel) \in Nat
      /\ \A k \in 1 .. n : yielded[p][k] \in Nat /\ yielded[p][k] < c
  BY <1>1, PartyTypes DEF Reads, Behind
<1>4. c \in 1 .. Len(channel) /\ c + BufferLen <= Len(channel)
  BY <1>2, <1>3 DEF ReadLagged, Buffered
<1>5. d = Len(channel) - BufferLen + 1 /\ UNCHANGED <<channel, from>>
  BY <1>1 DEF ReadLagged, TypeOK
<1>6. d \in Nat /\ d > c /\ d <= Len(channel) + 1 /\ Len(channel) > capacity
  BY <1>2, <1>3, <1>4, <1>5
<1>7. yielded' = [yielded EXCEPT ![p] = Append(@, 0)] /\ Lagged = 0
  BY DEF ReadLagged, ReturnLagged, Lagged
<1>8. /\ Len(yielded'[p]) = n + 1 /\ yielded'[p][n + 1] = 0
      /\ \A k \in 1 .. n : yielded'[p][k] = yielded[p][k]
  BY <1>1, <1>7, Appended
<1>9. \A k \in 1 .. Len(yielded'[p]) : k \in 1 .. n \/ k = n + 1
  BY <1>3, <1>8
<1> HIDE DEF d, c
<1>10. Behind(p)'
  <2> SUFFICES ASSUME NEW k \in 1 .. Len(yielded'[p])
               PROVE  yielded'[p][k] < d
    BY DEF Behind, d
  <2>1. CASE k \in 1 .. n
    <3>1. yielded'[p][k] \in Nat /\ yielded'[p][k] < c
      BY <1>3, <1>8, <2>1
    <3>. QED
      BY <1>3, <1>6, <3>1
  <2>2. CASE k = n + 1
    BY <1>3, <1>6, <1>8, <2>2
  <2>. QED
    BY <1>9, <2>1, <2>2
<1>11. InOrder(p)'
  <2> SUFFICES ASSUME NEW k \in 1 .. Len(yielded'[p]), yielded'[p][k] # Lagged
               PROVE  /\ yielded'[p][k] \in from[p] .. Len(channel)
                      /\ channel[yielded'[p][k]].recipient \in {p, AllParties}
                      /\ \A l \in 1 .. (k - 1) : yielded'[p][l] < yielded'[p][k]
    BY <1>5 DEF InOrder
  <2>1. k \in 1 .. n
    BY <1>7, <1>8, <1>9
  <2>2. /\ yielded[p][k] \in from[p] .. Len(channel)
        /\ channel[yielded[p][k]].recipient \in {p, AllParties}
        /\ \A l \in 1 .. (k - 1) : yielded[p][l] < yielded[p][k]
    BY <1>1, <1>8, <2>1 DEF Reads, InOrder
  <2>3. \A l \in 1 .. (k - 1) : yielded'[p][l] = yielded[p][l]
    <3>1. \A l \in 1 .. (k - 1) : l \in 1 .. n
      BY <1>3, <2>1
    <3>. QED
      BY <1>8, <3>1
  <2>. QED
    BY <1>8, <2>1, <2>2, <2>3
<1>12. NothingLost(p)'
  <2> SUFFICES ASSUME NEW i \in from[p] .. (d - 1),
                      channel[i].recipient \in {p, AllParties}
               PROVE  Accounted(p, i)'
    BY <1>5 DEF NothingLost, d
  <2>1. i \in Nat
    BY <1>3
  <2>2. CASE i < c
    <3>1. i \in from[p] .. (c - 1)
      BY <1>3, <2>1, <2>2
    <3>2. Accounted(p, i)
      BY <1>1, <3>1 DEF Reads, NothingLost, c
    <3>. QED
      BY <1>1, <1>7, <2>1, <3>2, StaysAccounted
  <2>3. CASE i >= c
    <3>1. \A l \in 1 .. n : yielded'[p][l] < i
      <4> SUFFICES ASSUME NEW l \in 1 .. n
                   PROVE  yielded'[p][l] < i
        OBVIOUS
      <4>1. yielded'[p][l] \in Nat /\ yielded'[p][l] < c
        BY <1>3, <1>8
      <4>2. c \in Nat
        BY <1>3
      <4>. QED
        BY <2>1, <2>3, <4>1, <4>2
    <3>2. /\ n + 1 \in 1 .. Len(yielded'[p]) /\ yielded'[p][n + 1] = Lagged
          /\ \A l \in 1 .. ((n + 1) - 1) : yielded'[p][l] < i
          /\ \A l \in ((n + 1) + 1) .. Len(yielded'[p]) : FALSE
      BY <1>3, <1>7, <1>8, <3>1
    <3>. QED
      BY <3>2 DEF Accounted
  <2>. QED
    BY <1>3, <2>1, <2>2, <2>3
<1>. QED
  BY <1>6, <1>10, <1>11, <1>12 DEF Reads, d, c

\* Nothing that NetInv is about changes, but that halves are dropped.
LEMMA NetInvStays ==
    ASSUME NetInv,
           UNCHANGED <<capacity, nextPartyIdx, channel, sending, from, cursor,
                       yielded>>,
           nextMsgId' \in Nat, network' \in BOOLEAN, network' => network,
           outgoing' \subseteq outgoing, incoming' \subseteq incoming,
           \A m \in sending : m.sender \in outgoing',
           closed' = closed
    PROVE  NetInv'
<1>1. TypeOK'
  BY DEF NetInv, TypeOK
<1>2. NothingEarly' /\ SendersExist'
  BY DEF NetInv, NothingEarly, SendersExist
<1>3. \A p \in Parties : Reads(p)'
  BY ReadsStay DEF NetInv
<1>4. CapacityIsEnough'
  BY DEF NetInv, CapacityIsEnough
<1>5. ClosedIsFinal'
  BY DEF NetInv, ClosedIsFinal
<1>. QED
  BY <1>1, <1>2, <1>3, <1>4, <1>5 DEF NetInv

\* A new party subscribes to what is sent from now on.
LEMMA ConnectKeeps ==
    ASSUME NetInv, ConnectNewParty
    PROVE  NetInv'
<1>1. PICK p \in Parties :
        /\ network /\ p = nextPartyIdx /\ nextPartyIdx' = nextPartyIdx + 1
        /\ outgoing' = outgoing \cup {p} /\ incoming' = incoming \cup {p}
        /\ from' = [from EXCEPT ![p] = Len(channel) + 1]
        /\ cursor' = [cursor EXCEPT ![p] = Len(channel) + 1]
        /\ UNCHANGED <<capacity, network, nextMsgId, channel, sending, yielded,
                       closed>>
  BY DEF ConnectNewParty, TakeIndex
<1>2. TypeOK
  BY DEF NetInv
<1>3. /\ MaxParties \in Nat /\ nextPartyIdx \in Nat /\ p < MaxParties
      /\ p \in Nat /\ channel \in Seq(Messages) /\ Len(channel) \in Nat
  BY <1>1, <1>2, AsyncNetworkAssumption DEF TypeOK, Parties
<1>4. /\ from' \in [Parties -> Nat \ {0}] /\ cursor' \in [Parties -> Nat \ {0}]
      /\ from'[p] = Len(channel) + 1 /\ cursor'[p] = Len(channel) + 1
      /\ \A q \in Parties \ {p} : from'[q] = from[q] /\ cursor'[q] = cursor[q]
  BY <1>1, <1>2, <1>3 DEF TypeOK
<1>5. TypeOK'
  <2>1. /\ outgoing' \subseteq 0 .. (nextPartyIdx' - 1)
        /\ incoming' \subseteq 0 .. (nextPartyIdx' - 1)
        /\ nextPartyIdx' \in 0 .. MaxParties
    <3>1. 0 .. (nextPartyIdx' - 1) = 0 .. (nextPartyIdx - 1) \cup {p}
      BY <1>1, <1>3
    <3>2. nextPartyIdx' \in 0 .. MaxParties
      BY <1>1, <1>3
    <3>3. /\ outgoing \subseteq 0 .. (nextPartyIdx - 1)
          /\ incoming \subseteq 0 .. (nextPartyIdx - 1)
      BY <1>2 DEF TypeOK
    <3>. QED
      BY <1>1, <3>1, <3>2, <3>3
  <2>2. \A q \in Parties :
            from'[q] <= cursor'[q] /\ cursor'[q] <= Len(channel) + 1
    <3> SUFFICES ASSUME NEW q \in Parties
                 PROVE  from'[q] <= cursor'[q] /\ cursor'[q] <= Len(channel) + 1
      OBVIOUS
    <3>1. CASE q = p
      BY <1>3, <1>4, <3>1
    <3>2. CASE q # p
      BY <1>2, <1>4, <3>2 DEF TypeOK
    <3>. QED
      BY <3>1, <3>2
  <2>. QED
    BY <1>1, <1>2, <1>4, <2>1, <2>2 DEF TypeOK
<1>6. NothingEarly'
  BY <1>1, <1>3 DEF NetInv, NothingEarly, Parties
<1>7. SendersExist'
  BY <1>1 DEF NetInv, SendersExist
<1>8. ASSUME NEW q \in Parties
      PROVE  Reads(q)'
  <2>1. CASE q # p
    BY <1>1, <1>4, <2>1, ReadsStay DEF NetInv
  <2>2. CASE q = p
    <3>1. yielded'[p] = << >>
      BY <1>1, <1>3 DEF NetInv, NothingEarly
    <3>2. Behind(p)' /\ InOrder(p)'
      BY <3>1 DEF Behind, InOrder
    <3>3. NothingLost(p)'
      BY <1>3, <1>4 DEF NothingLost
    <3>. QED
      BY <2>2, <3>2, <3>3 DEF Reads
  <2>. QED
    BY <2>1, <2>2
<1>9. CapacityIsEnough'
  BY <1>1 DEF NetInv, CapacityIsEnough
<1>10. ClosedIsFinal'
  BY <1>1 DEF NetInv, ClosedIsFinal
<1>. QED
  BY <1>5, <1>6, <1>7, <1>8, <1>9, <1>10 DEF NetInv

\* An id is drawn: the message is in the hands of its sender.
LEMMA StartSendKeeps ==
    ASSUME NetInv, NEW p \in Parties, NEW r \in Parties \cup {AllParties},
           StartSend(p, r)
    PROVE  NetInv'
<1> DEFINE m == [id |-> nextMsgId, sender |-> p, recipient |-> r]
<1>1. /\ nextMsgId' = nextMsgId + 1 /\ sending' = sending \cup {m}
      /\ p \in outgoing
      /\ UNCHANGED <<capacity, network, nextPartyIdx, channel, outgoing,
                     incoming, from, cursor, yielded, closed>>
  BY DEF StartSend, UseUpId, Idle
<1>2. m \in Messages /\ m.sender = p
  BY DEF Messages, NetInv, TypeOK
<1> HIDE DEF m
<1>3. TypeOK'
  <2>1. nextMsgId' \in Nat /\ sending' \subseteq Messages
    BY <1>1, <1>2 DEF NetInv, TypeOK
  <2>. QED
    BY <1>1, <2>1 DEF NetInv, TypeOK
<1>4. NothingEarly' /\ SendersExist'
  BY <1>1, <1>2 DEF NetInv, NothingEarly, SendersExist
<1>5. \A q \in Parties : Reads(q)'
  BY <1>1, ReadsStay DEF NetInv
<1>6. CapacityIsEnough'
  BY <1>1 DEF NetInv, CapacityIsEnough
<1>7. ClosedIsFinal'
  BY <1>1 DEF NetInv, ClosedIsFinal
<1>. QED
  BY <1>3, <1>4, <1>5, <1>6, <1>7 DEF NetInv

\* A message is put in the channel, or refused.
LEMMA SendKeeps ==
    ASSUME NetInv, NEW m \in sending, SendToChannel(m)
    PROVE  NetInv'
<1>1. /\ sending' = sending \ {m}
      /\ UNCHANGED <<capacity, network, nextPartyIdx, nextMsgId, outgoing,
                     incoming, from, cursor, yielded, closed>>
  BY DEF SendToChannel
<1>2. TypeOK /\ m \in Messages /\ channel \in Seq(Messages)
  BY DEF NetInv, TypeOK
<1>3. closed = {}
  BY DEF NetInv, ClosedIsFinal
<1>4. NothingEarly' /\ SendersExist' /\ ClosedIsFinal'
  BY <1>1, <1>3 DEF NetInv, NothingEarly, SendersExist, ClosedIsFinal
<1>5. CASE channel' = channel
  <2>1. TypeOK'
    BY <1>1, <1>2, <1>5 DEF TypeOK
  <2>2. \A q \in Parties : Reads(q)'
    BY <1>1, <1>5, ReadsStay DEF NetInv
  <2>3. CapacityIsEnough'
    BY <1>1, <1>5 DEF NetInv, CapacityIsEnough
  <2>. QED
    BY <1>4, <2>1, <2>2, <2>3 DEF NetInv
<1>6. CASE channel' = Append(channel, m)
  <2>1. /\ channel' \in Seq(Messages) /\ Len(channel') = Len(channel) + 1
        /\ Len(channel) \in Nat
    BY <1>2, <1>6
  <2>2. TypeOK'
    <3>1. \A q \in Parties :
            /\ cursor[q] \in Nat /\ from[q] <= cursor[q]
            /\ cursor[q] <= Len(channel) + 1
      BY <1>2 DEF TypeOK
    <3>2. \A q \in Parties : cursor[q] <= Len(channel') + 1
      BY <2>1, <3>1
    <3>3. /\ capacity' \in Capacities /\ network' \in BOOLEAN
          /\ nextPartyIdx' \in 0 .. MaxParties /\ nextMsgId' \in Nat
          /\ sending' \subseteq Messages
          /\ outgoing' \subseteq 0 .. (nextPartyIdx' - 1)
          /\ incoming' \subseteq 0 .. (nextPartyIdx' - 1)
          /\ from' \in [Parties -> Nat \ {0}]
          /\ cursor' \in [Parties -> Nat \ {0}]
          /\ yielded' \in [Parties -> Seq(Nat)] /\ closed' \subseteq Parties
      BY <1>1, <1>2 DEF TypeOK
    <3>. QED
      BY <1>1, <2>1, <3>1, <3>2, <3>3 DEF TypeOK
  <2>3. \A q \in Parties : Reads(q)'
    BY <1>1, <1>2, <1>6, ReadsExtend DEF NetInv
  <2>4. CapacityIsEnough'
    <3>1. capacity \in Nat
      BY <1>2, AsyncNetworkAssumption DEF TypeOK
    <3>2. Len(channel') <= capacity => Len(channel) <= capacity
      BY <2>1, <3>1
    <3>. QED
      BY <1>1, <3>2 DEF NetInv, CapacityIsEnough
  <2>. QED
    BY <1>4, <2>2, <2>3, <2>4 DEF NetInv
<1>. QED
  BY <1>5, <1>6 DEF SendToChannel

\* What a step of p's poll_next that moves the cursor has to do for NetInv.
LEMMA ReadStep ==
    ASSUME NetInv, NEW p \in Parties, p \in incoming,
           NEW STATE c, cursor' = [cursor EXCEPT ![p] = c],
           c \in Nat, c > cursor[p], c <= Len(channel) + 1,
           cursor[p] <= Len(channel),
           NEW STATE x, x \in Nat,
           \/ yielded' = yielded
           \/ yielded' = [yielded EXCEPT ![p] = Append(@, x)],
           x = Lagged => Len(channel) > capacity,
           UNCHANGED <<capacity, network, nextPartyIdx, nextMsgId, channel,
                       outgoing, sending, incoming, from, closed>>,
           Reads(p)'
    PROVE  NetInv'
<1>1. TypeOK
  BY DEF NetInv
<1>2. /\ cursor' \in [Parties -> Nat \ {0}] /\ cursor'[p] = c
      /\ \A q \in Parties \ {p} : cursor'[q] = cursor[q]
      /\ from[p] \in Nat /\ cursor[p] \in Nat /\ from[p] <= cursor[p]
      /\ Len(channel) \in Nat /\ Len(yielded[p]) \in Nat
  <2>1. /\ from[p] \in Nat /\ cursor[p] \in Nat /\ from[p] <= cursor[p]
        /\ Len(channel) \in Nat /\ Len(yielded[p]) \in Nat
    BY <1>1, PartyTypes
  <2>2. cursor \in [Parties -> Nat \ {0}] /\ c \in Nat \ {0}
    BY <1>1, <2>1 DEF TypeOK
  <2>. QED
    BY <2>1, <2>2
<1>3. /\ yielded' \in [Parties -> Seq(Nat)]
      /\ \A q \in Parties \ {p} : yielded'[q] = yielded[q]
  <2>1. CASE yielded' = yielded
    BY <1>1, <2>1 DEF TypeOK
  <2>2. CASE yielded' = [yielded EXCEPT ![p] = Append(@, x)]
    BY <1>1, <2>2, Appended
  <2>. QED
    BY <2>1, <2>2
<1>4. TypeOK'
  <2>1. \A q \in Parties :
            from[q] <= cursor'[q] /\ cursor'[q] <= Len(channel) + 1
    <3> SUFFICES ASSUME NEW q \in Parties
                 PROVE  from[q] <= cursor'[q] /\ cursor'[q] <= Len(channel) + 1
      OBVIOUS
    <3>1. CASE q = p
      BY <1>2, <3>1
    <3>2. CASE q # p
      BY <1>1, <1>2, <3>2 DEF TypeOK
    <3>. QED
      BY <3>1, <3>2
  <2>. QED
    BY <1>1, <1>2, <1>3, <2>1 DEF TypeOK
<1>5. p < nextPartyIdx /\ ~ (p >= nextPartyIdx)
  <2>1. p \in 0 .. (nextPartyIdx - 1) /\ nextPartyIdx \in Nat
    BY <1>1, AsyncNetworkAssumption DEF TypeOK
  <2>. QED
    BY <2>1
<1>6. NothingEarly' /\ SendersExist'
  BY <1>3, <1>5 DEF NetInv, NothingEarly, SendersExist
<1>7. ASSUME NEW q \in Parties
      PROVE  Reads(q)'
  <2>1. CASE q # p
    BY <1>2, <1>3, <2>1, ReadsStay DEF NetInv
  <2>. QED
    BY <2>1
<1>8. CapacityIsEnough'
  <2> SUFFICES ASSUME Len(channel) <= capacity, NEW q \in Parties,
                      NEW k \in 1 .. Len(yielded'[q])
               PROVE  yielded'[q][k] # Lagged
    BY DEF CapacityIsEnough
  <2>1. \A o \in Parties : \A l \in 1 .. Len(yielded[o]) :
            yielded[o][l] # Lagged
    BY DEF NetInv, CapacityIsEnough
  <2>2. CASE q # p \/ yielded' = yielded
    BY <1>3, <2>1, <2>2
  <2>3. CASE q = p /\ yielded' = [yielded EXCEPT ![p] = Append(@, x)]
    <3>1. /\ Len(yielded'[p]) = Len(yielded[p]) + 1
          /\ yielded'[p][Len(yielded[p]) + 1] = x
          /\ \A l \in 1 .. Len(yielded[p]) : yielded'[p][l] = yielded[p][l]
      BY <1>1, <2>3, Appended
    <3>2. capacity \in Nat
      BY <1>1, AsyncNetworkAssumption DEF TypeOK
    <3>3. x # Lagged
      BY <1>2, <3>2
    <3>4. k \in 1 .. Len(yielded[p]) \/ k = Len(yielded[p]) + 1
      BY <1>2, <2>3, <3>1
    <3>. QED
      BY <2>1, <2>3, <3>1, <3>3, <3>4
  <2>. QED
    BY <2>2, <2>3
<1>9. ClosedIsFinal'
  <2>1. p \notin closed
    BY <1>2 DEF NetInv, ClosedIsFinal
  <2>. QED
    BY <1>1, <1>2, <2>1 DEF NetInv, ClosedIsFinal, TypeOK
<1>. QED
  BY <1>4, <1>6, <1>7, <1>8, <1>9 DEF NetInv

\* An iteration of poll_next, whatever the channel answers.
LEMMA PollKeeps ==
    ASSUME NetInv, NEW p \in Parties,
           ReadMessage(p) \/ ReadLagged(p) \/ ReadClosed(p)
    PROVE  NetInv'
<1>1. TypeOK
  BY DEF NetInv
<1>2. /\ cursor[p] \in Nat /\ cursor[p] >= 1 /\ Len(channel) \in Nat
  BY <1>1, PartyTypes
<1>3. CASE ReadMessage(p)
  <2>1. /\ p \in incoming /\ cursor[p] \in 1 .. Len(channel)
        /\ cursor' = [cursor EXCEPT ![p] = cursor[p] + 1]
        /\ \/ yielded' = yielded
           \/ yielded' = [yielded EXCEPT ![p] = Append(@, cursor[p])]
        /\ UNCHANGED <<capacity, network, nextPartyIdx, nextMsgId, channel,
                       outgoing, sending, incoming, from, closed>>
    BY <1>3 DEF ReadMessage, Buffered
  <2>2. Reads(p)'
    BY <1>3, ReadKeeps
  <2>3. /\ cursor[p] + 1 \in Nat /\ cursor[p] + 1 > cursor[p]
        /\ cursor[p] + 1 <= Len(channel) + 1 /\ cursor[p] <= Len(channel)
        /\ cursor[p] # Lagged
    BY <1>2, <2>1 DEF Lagged
  <2>. QED
    BY <1>2, <2>1, <2>2, <2>3, ReadStep
<1>4. CASE ReadLagged(p)
  <2> DEFINE d == Len(channel) - BufferLen + 1
  <2>1. /\ p \in incoming /\ cursor[p] \in 1 .. Len(channel)
        /\ cursor' = [cursor EXCEPT ![p] = d]
        /\ yielded' = [yielded EXCEPT ![p] = Append(@, Lagged)]
        /\ UNCHANGED <<capacity, network, nextPartyIdx, nextMsgId, channel,
                       outgoing, sending, incoming, from, closed>>
    BY <1>4 DEF ReadLagged, ReturnLagged
  <2>2. cursor'[p] = d
    BY <1>1, <2>1 DEF TypeOK
  <2>3. /\ Reads(p)' /\ d \in Nat /\ d > cursor[p] /\ d <= Len(channel) + 1
        /\ Len(channel) > capacity
    BY <1>4, <2>2, LaggedKeeps
  <2>4. Lagged \in Nat /\ cursor[p] <= Len(channel)
    BY <1>2, <2>1 DEF Lagged
  <2> HIDE DEF d
  <2>. QED
    BY <2>1, <2>3, <2>4, ReadStep
<1>5. CASE ReadClosed(p)
  <2>1. /\ cursor[p] = Len(channel) + 1 /\ ~ network /\ outgoing = {}
        /\ closed' = closed \cup {p}
        /\ UNCHANGED <<capacity, network, nextPartyIdx, nextMsgId, channel,
                       outgoing, sending, incoming, from, cursor, yielded>>
    BY <1>5 DEF ReadClosed, NoSenderLeft
  <2>2. sending = {}
    BY <2>1 DEF NetInv, SendersExist
  <2>3. TypeOK'
    BY <1>1, <2>1 DEF TypeOK
  <2>4. NothingEarly' /\ SendersExist'
    BY <2>1 DEF NetInv, NothingEarly, SendersExist
  <2>5. \A q \in Parties : Reads(q)'
    BY <2>1, ReadsStay DEF NetInv
  <2>6. CapacityIsEnough'
    BY <2>1 DEF NetInv, CapacityIsEnough
  <2>7. ClosedIsFinal'
    BY <2>1, <2>2 DEF NetInv, ClosedIsFinal
  <2>. QED
    BY <2>3, <2>4, <2>5, <2>6, <2>7 DEF NetInv
<1>. QED
  BY <1>3, <1>4, <1>5

\* NetInv is inductive.
LEMMA NetInvariant == Spec => []NetInv
<1>1. Init => NetInv
  <2> SUFFICES ASSUME Init
               PROVE  NetInv
    OBVIOUS
  <2>1. TypeOK
    BY AsyncNetworkAssumption DEF Init, TypeOK
  <2>2. NothingEarly /\ SendersExist
    BY DEF Init, NothingEarly, SendersExist
  <2>3. \A p \in Parties :
            yielded[p] = << >> /\ Len(yielded[p]) = 0 /\ from[p] = 1
            /\ cursor[p] = 1
    BY DEF Init
  <2>4. \A p \in Parties : Reads(p)
    BY <2>3 DEF Reads, Behind, InOrder, NothingLost
  <2>5. CapacityIsEnough
    BY <2>3 DEF CapacityIsEnough
  <2>6. ClosedIsFinal
    BY DEF Init, ClosedIsFinal
  <2>. QED
    BY <2>1, <2>2, <2>4, <2>5, <2>6 DEF NetInv
<1>2. NetInv /\ [Next]_vars => NetInv'
  <2> SUFFICES ASSUME NetInv, [Next]_vars
               PROVE  NetInv'
    OBVIOUS
  <2>1. nextMsgId \in Nat /\ network \in BOOLEAN /\ SendersExist
    BY DEF NetInv, TypeOK
  <2>2. CASE ConnectNewParty
    BY <2>2, ConnectKeeps
  <2>3. CASE DropNetwork
    BY <2>1, <2>3, NetInvStays DEF DropNetwork, SendersExist
  <2>4. ASSUME NEW p \in Parties, NEW r \in Parties \cup {AllParties},
               StartSend(p, r)
        PROVE  NetInv'
    BY <2>4, StartSendKeeps
  <2>5. ASSUME NEW m \in sending, SendToChannel(m)
        PROVE  NetInv'
    BY <2>5, SendKeeps
  <2>6. ASSUME NEW p \in Parties,
               ReadMessage(p) \/ ReadLagged(p) \/ ReadClosed(p)
        PROVE  NetInv'
    BY <2>6, PollKeeps
  <2>7. ASSUME NEW p \in Parties, DropOutgoing(p)
        PROVE  NetInv'
    <3>1. \A m \in sending : m.sender \in outgoing'
      BY <2>1, <2>7 DEF DropOutgoing, Idle, SendersExist
    <3>. QED
      BY <2>1, <2>7, <3>1, NetInvStays DEF DropOutgoing
  <2>8. ASSUME NEW p \in Parties, DropIncoming(p)
        PROVE  NetInv'
    BY <2>1, <2>8, NetInvStays DEF DropIncoming, SendersExist
  <2>9. CASE UNCHANGED vars
    BY <2>1, <2>9, NetInvStays DEF vars, SendersExist
  <2>. QED
    BY <2>2, <2>3, <2>4, <2>5, <2>6, <2>7, <2>8, <2>9 DEF Next
<1>. QED
  BY <1>1, <1>2, PTL DEF Spec

\* The state of the network has its types, the halves of a delivery are in the
\* hands of connected parties, and a receiver is never ahead of the channel.
THEOREM TypeCorrect == Spec => []TypeOK
<1>1. NetInv => TypeOK
  BY DEF NetInv
<1>. QED
  BY <1>1, NetInvariant, PTL

\* A party gets what is for it, nothing twice and in the order of the channel
\* (poll_next).
THEOREM InOrderCorrect == Spec => []GetsOwnMessagesInOrder
<1>1. NetInv => GetsOwnMessagesInOrder
  BY DEF NetInv, Reads, InOrder, GetsOwnMessagesInOrder
<1>. QED
  BY <1>1, NetInvariant, PTL

\* A party that has missed a message for it was given the error in its place
\* (poll_next returns Lagged).
THEOREM NoSilentLossCorrect == Spec => []NoSilentLoss
<1>1. NetInv => NoSilentLoss
  BY DEF NetInv, Reads, NothingLost, Accounted, NoSilentLoss
<1>. QED
  BY <1>1, NetInvariant, PTL

\* A capacity that fits all the messages is enough (with_capacity): no party is
\* ever given the error.
THEOREM CapacityCorrect == Spec => []CapacityIsEnough
<1>1. NetInv => CapacityIsEnough
  BY DEF NetInv
<1>. QED
  BY <1>1, NetInvariant, PTL

\* The end of a party's stream is final (poll_next returns None).
THEOREM ClosedCorrect == Spec => []ClosedIsFinal
<1>1. NetInv => ClosedIsFinal
  BY DEF NetInv
<1>. QED
  BY <1>1, NetInvariant, PTL
=============================================================================
