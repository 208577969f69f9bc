------------------------- MODULE StateMachineProofs -------------------------
(***************************************************************************)
(* The invariants of StateMachine hold for any number of messages, any     *)
(* executor and any protocol.                                              *)
(***************************************************************************)
EXTENDS StateMachine, SequenceTheorems, TLAPS

\* The messages s that left a slot and the message m that is in it are the
\* first k ones: an arithmetic form of ExactlyOnceInOrder.
Numbered(s, m, k) ==
    /\ \A i \in 1 .. Len(s) : s[i] = i
    /\ Len(s) + (IF m = None THEN 0 ELSE 1) = k
    /\ m # None => m = k

\* A future of the party that is pending has something scheduled, or waits
\* for what an earlier, dropped one has scheduled.
PendingHasTask ==
    phase = "pending" /\ fut # "unknown" => ~ CanSchedule

\* What is scheduled without dropped futures belongs to the awaited future,
\* and a flush does not outlive the poll that scheduled it.
TaskHasOwner ==
    ~ abandoned => /\ wantsSend => phase = "pending"
                   /\ wantsRecv => fut = "recv"

\* The outgoing slot is full only on its way out or inside a SendMany.
SlotHasOwner == outgoing # None => wantsSend \/ holds # "party"

\* A send that waits for the slot is within the bound.
SendFits == fut \in {"send", "feed"} => saved < MaxOut

Inv ==
    /\ TypeOK
    /\ OneTask
    /\ Numbered(delivered, incoming, accepted)
    /\ Numbered(emitted, outgoing, saved)
    /\ PendingHasTask
    /\ TaskHasOwner
    /\ SlotHasOwner
    /\ SendFits
    /\ exhausted => phase = "out"
    /\ UnknownFutureIsUnknown
    /\ NeedsWhatIsAwaited
    /\ NothingLeftBehind

\* Appending the message of the slot to what left it before.
LEMMA SlotEmptied ==
    ASSUME NEW n \in Nat, NEW s \in Seq(1 .. n), NEW k \in Nat,
           NEW m \in 1 .. n, Numbered(s, m, k)
    PROVE  /\ Append(s, m) \in Seq(1 .. n)
           /\ Numbered(Append(s, m), None, k)
<1>1. Append(s, m) \in Seq(1 .. n)
  OBVIOUS
<1>2. Len(s) \in Nat /\ Len(Append(s, m)) = Len(s) + 1
  OBVIOUS
<1>3. m = k /\ Len(s) + 1 = k
  BY <1>2 DEF Numbered, None
<1>4. ASSUME NEW i \in 1 .. Len(Append(s, m)) PROVE Append(s, m)[i] = i
  <2>1. CASE i = Len(s) + 1
    BY <2>1, <1>2, <1>3
  <2>2. CASE i \in 1 .. Len(s)
    BY <2>2, <1>2 DEF Numbered
  <2>. QED  BY <2>1, <2>2, <1>2
<1>. QED  BY <1>1, <1>2, <1>3, <1>4 DEF Numbered, None

\* Filling an empty slot with the next message.
LEMMA SlotFilled ==
    ASSUME NEW s \in Seq(Nat), NEW k \in Nat, Numbered(s, None, k)
    PROVE  Numbered(s, k + 1, k + 1)
BY DEF Numbered, None

\* The arithmetic form implies the property.
LEMMA NumberedIsInOrder ==
    ASSUME NEW s \in Seq(Nat), NEW m \in Nat, NEW k \in Nat,
           Numbered(s, m, k)
    PROVE  s \o Slot(m) = FirstOnes(k)
<1>1. FirstOnes(k) \in Seq(Nat) /\ Len(FirstOnes(k)) = k
  BY IsASeq DEF FirstOnes
<1>2. CASE m = None
  <2>1. s \o Slot(m) = s
    BY <1>2, ConcatEmptySeq DEF Slot
  <2>2. Len(s) = k /\ \A i \in 1 .. Len(s) : s[i] = FirstOnes(k)[i]
    BY <1>2 DEF Numbered, FirstOnes
  <2>. QED  BY <1>1, <2>1, <2>2, SeqEqual
<1>3. CASE m # None
  <2> DEFINE t == s \o <<m>>
  <2>1. t \in Seq(Nat) /\ Len(t) = Len(s) + 1
    OBVIOUS
  <2>2. Len(s) + 1 = k /\ m = k
    BY <1>3 DEF Numbered
  <2>3. ASSUME NEW i \in 1 .. Len(t) PROVE t[i] = i
    <3>1. CASE i = Len(s) + 1
      BY <3>1, <2>2
    <3>2. CASE i \in 1 .. Len(s)
      BY <3>2 DEF Numbered
    <3>. QED  BY <3>1, <3>2, <2>1
  <2>4. \A i \in 1 .. Len(t) : t[i] = FirstOnes(k)[i]
    BY <2>1, <2>2, <2>3 DEF FirstOnes
  <2>5. t = FirstOnes(k)
    <3> HIDE DEF t
    <3>. QED  BY <1>1, <2>1, <2>2, <2>4, SeqEqual
  <2>. QED  BY <1>3, <2>5 DEF Slot
<1>. QED  BY <1>2, <1>3

LEMMA InvInit == Init => Inv
<1> SUFFICES ASSUME Init PROVE Inv
  OBVIOUS
<1>1. TypeOK
  <2>1. /\ wantsRecv \in BOOLEAN /\ wantsSend \in BOOLEAN
        /\ yielded \in BOOLEAN /\ exhausted \in BOOLEAN
        /\ abandoned \in BOOLEAN
    BY DEF Init
  <2>2. /\ incoming \in 0 .. MaxIn /\ outgoing \in 0 .. MaxOut
        /\ accepted \in 0 .. MaxIn /\ saved \in 0 .. MaxOut
    BY BoundsAssumption DEF Init, None
  <2>3. delivered \in Seq(1 .. MaxIn) /\ emitted \in Seq(1 .. MaxOut)
    BY EmptySeq DEF Init
  <2>4. /\ phase \in {"out", "run", "pending"} /\ fut \in Futures
        /\ holds \in {"party", "many", "nothing"} /\ result \in Results
    BY DEF Init, Futures, Results
  <2>. QED  BY <2>1, <2>2, <2>3, <2>4 DEF TypeOK
<1>2. Numbered(<<>>, None, 0)
  BY DEF Numbered, None
<1>3. OneTask /\ TaskHasOwner
  BY DEF Init, OneTask, TaskHasOwner
<1>4. PendingHasTask /\ SendFits /\ UnknownFutureIsUnknown
  BY DEF Init, PendingHasTask, SendFits, UnknownFutureIsUnknown
<1>5. SlotHasOwner /\ NeedsWhatIsAwaited /\ NothingLeftBehind
  BY DEF Init, SlotHasOwner, NeedsWhatIsAwaited, NothingLeftBehind
<1>6. exhausted => phase = "out"
  BY DEF Init
<1>7. /\ Numbered(delivered, incoming, accepted)
      /\ Numbered(emitted, outgoing, saved)
  BY <1>2 DEF Init
<1>. QED  BY <1>1, <1>3, <1>4, <1>5, <1>6, <1>7 DEF Inv

\* The invariant but for the types and the numbers of the messages.
Flags ==
    /\ OneTask
    /\ PendingHasTask
    /\ TaskHasOwner
    /\ SlotHasOwner
    /\ SendFits
    /\ exhausted => phase = "out"
    /\ UnknownFutureIsUnknown
    /\ NeedsWhatIsAwaited
    /\ NothingLeftBehind

LEMMA FlagsStep ==
    ASSUME TypeOK, Flags, Next PROVE Flags'
<1> USE DEF TypeOK, Flags, OneTask, PendingHasTask, TaskHasOwner,
        SlotHasOwner, SendFits, UnknownFutureIsUnknown, NeedsWhatIsAwaited,
        NothingLeftBehind, CanSchedule, None, shared, history
<1>1. CASE PollNext
  BY <1>1 DEF PollNext, TakesIncoming, RequestsIncoming, Polls,
     Pending, Ready
<1>2. CASE PollSend("send")
  BY <1>2 DEF PollSend, SavesOutgoing, SchedulesOutgoing, Polls,
     Pending, Ready
<1>3. CASE PollSend("feed")
  BY <1>3 DEF PollSend, SavesOutgoing, SchedulesOutgoing, Polls,
     Pending, Ready
<1>4. CASE PollFlush
  BY <1>4 DEF PollFlush, SchedulesOutgoing, Pending, Ready
<1>5. CASE StartSendMany
  BY <1>5 DEF StartSendMany
<1>6. CASE PollYield
  BY <1>6 DEF PollYield, Yields, Pending, Ready
<1>7. CASE PollUnknown
  BY <1>7 DEF PollUnknown, Polls, Pending, Ready
<1>8. CASE Abandon
  BY <1>8 DEF Abandon
<1>9. CASE Proceed
  BY <1>9 DEF Proceed
<1>10. CASE Finish
  BY <1>10 DEF Finish
<1>11. CASE Suspend
  BY <1>11 DEF Suspend, TakesOutgoing, ResetsYielded
<1>12. CASE ReceivedMsg
  BY <1>12 DEF ReceivedMsg
<1>. QED
  BY <1>1, <1>2, <1>3, <1>4, <1>5, <1>6, <1>7, <1>8, <1>9, <1>10, <1>11,
     <1>12 DEF Next, Protocol

\* The types and the numbers of the messages.
Messages ==
    /\ TypeOK
    /\ Numbered(delivered, incoming, accepted)
    /\ Numbered(emitted, outgoing, saved)

LEMMA MessagesStep ==
    ASSUME Messages, Flags, Next PROVE Messages'
<1> USE BoundsAssumption DEF Messages, TypeOK, None, TakesIncoming,
        RequestsIncoming, SavesOutgoing, SchedulesOutgoing, TakesOutgoing,
        ResetsYielded
<1>1. CASE PollNext
  <2>1. CASE delivered' = delivered /\ incoming' = incoming
    BY <1>1, <2>1 DEF PollNext, Pending, Ready, Polls, Futures
  <2>2. CASE /\ incoming # None /\ incoming' = None
             /\ delivered' = Append(delivered, incoming)
    <3>1. /\ delivered' \in Seq(1 .. MaxIn)
          /\ Numbered(delivered', None, accepted)
      BY <2>2, SlotEmptied
    <3>. QED  BY <1>1, <2>2, <3>1 DEF PollNext, Pending, Ready, Futures
  <2>. QED  BY <1>1, <2>1, <2>2 DEF PollNext
<1>2. ASSUME NEW f \in {"send", "feed"}, PollSend(f) PROVE Messages'
  <2>1. CASE outgoing' = outgoing /\ saved' = saved
    BY <1>2, <2>1 DEF PollSend, Pending, Ready, Polls, Futures
  <2>2. CASE /\ outgoing = None
             /\ outgoing' = saved + 1 /\ saved' = saved + 1
    <3>1. emitted \in Seq(Nat)
      OBVIOUS
    <3>2. Numbered(emitted, saved + 1, saved + 1)
      BY <2>2, <3>1, SlotFilled
    <3>3. saved + 1 \in 0 .. MaxOut
      BY <1>2 DEF PollSend, Polls, Flags, SendFits
    <3>. QED
      BY <1>2, <2>2, <3>2, <3>3 DEF PollSend, Pending, Ready, Polls, Futures
  <2>. QED  BY <1>2, <2>1, <2>2 DEF PollSend
<1>3. CASE PollFlush
  BY <1>3 DEF PollFlush, SchedulesOutgoing, Pending, Ready, Futures, history
<1>4. CASE StartSendMany
  BY <1>4 DEF StartSendMany, shared, history
<1>5. CASE PollYield
  BY <1>5 DEF PollYield, Yields, Pending, Ready, Futures, history
<1>6. CASE PollUnknown
  BY <1>6 DEF PollUnknown, Pending, Ready, Futures, shared, history
<1>7. CASE Abandon
  BY <1>7 DEF Abandon, Futures, shared
<1>8. CASE Proceed
  BY <1>8 DEF Proceed, Results, shared, history
<1>9. CASE Finish
  BY <1>9 DEF Finish, Results, shared, history
<1>10. CASE Suspend
  <2>1. CASE outgoing' = outgoing /\ emitted' = emitted
    BY <1>10, <2>1 DEF Suspend, Results
  <2>2. CASE /\ wantsSend /\ outgoing' = None
             /\ emitted' = Append(emitted, outgoing)
    <3>1. outgoing \in 1 .. MaxOut
      BY <2>2 DEF Flags, OneTask
    <3>2. emitted' \in Seq(1 .. MaxOut) /\ Numbered(emitted', None, saved)
      BY <2>2, <3>1, SlotEmptied
    <3>3. TypeOK'
      <4>1. wantsSend' \in BOOLEAN /\ yielded' \in BOOLEAN
        BY <1>10 DEF Suspend
      <4>2. result' \in Results
        BY <1>10 DEF Suspend, Results
      <4>. QED  BY <1>10, <2>2, <3>2, <4>1, <4>2 DEF Suspend
    <3>. QED  BY <1>10, <2>2, <3>2, <3>3 DEF Suspend
  <2>. QED  BY <1>10, <2>1, <2>2 DEF Suspend
<1>11. CASE ReceivedMsg
  <2>1. CASE incoming' = incoming /\ accepted' = accepted
    BY <1>11, <2>1 DEF ReceivedMsg, Results
  <2>2. CASE /\ incoming = None
             /\ incoming' = accepted + 1 /\ accepted' = accepted + 1
    <3>1. delivered \in Seq(Nat)
      OBVIOUS
    <3>2. Numbered(delivered, accepted + 1, accepted + 1)
      BY <2>2, <3>1, SlotFilled
    <3>3. TypeOK'
      <4>1. wantsRecv' \in BOOLEAN /\ result' \in Results
        BY <1>11 DEF ReceivedMsg, Results
      <4>2. accepted + 1 \in 0 .. MaxIn
        BY <1>11 DEF ReceivedMsg
      <4>. QED  BY <1>11, <2>2, <4>1, <4>2 DEF ReceivedMsg
    <3>. QED  BY <1>11, <2>2, <3>2, <3>3 DEF ReceivedMsg
  <2>. QED  BY <1>11, <2>1, <2>2 DEF ReceivedMsg
<1>. QED
  BY <1>1, <1>2, <1>3, <1>4, <1>5, <1>6, <1>7, <1>8, <1>9, <1>10, <1>11
     DEF Next, Protocol

LEMMA InvStep == Inv /\ [Next]_vars => Inv'
<1> SUFFICES ASSUME Inv, [Next]_vars PROVE Inv'
  OBVIOUS
<1>1. Inv <=> Messages /\ Flags
  BY DEF Inv, Messages, Flags
<1>2. Inv' <=> Messages' /\ Flags'
  BY DEF Inv, Messages, Flags
<1>3. CASE Next
  BY <1>1, <1>2, <1>3, FlagsStep, MessagesStep DEF Messages
<1>4. CASE UNCHANGED vars
  BY <1>4 DEF vars, shared, history, Inv, TypeOK, OneTask, Numbered,
     PendingHasTask, TaskHasOwner, SlotHasOwner, SendFits, CanSchedule,
     UnknownFutureIsUnknown, NeedsWhatIsAwaited, NothingLeftBehind
<1>. QED  BY <1>3, <1>4

\* The inductive invariant holds in every reachable state.
THEOREM InvCorrect == Spec => []Inv
<1>. QED  BY InvInit, InvStep, PTL DEF Spec

\* The shared state of protocol and executor keeps its types.
THEOREM TypeCorrect == Spec => []TypeOK
<1>1. Inv => TypeOK
  BY DEF Inv
<1>. QED  BY <1>1, InvCorrect, PTL

\* At most one task is scheduled, a scheduled flush has its message and a
\* requested message fits into its slot (shared_state.rs, can_schedule).
THEOREM OneTaskCorrect == Spec => []OneTask
<1>1. Inv => OneTask
  BY DEF Inv
<1>. QED  BY <1>1, InvCorrect, PTL

\* No message is lost, repeated or overtaken between the protocol and its
\* executor, however many there are and whatever futures are dropped.
THEOREM InOrderCorrect == Spec => []ExactlyOnceInOrder
<1>1. ASSUME Inv PROVE ExactlyOnceInOrder
  <2>1. /\ delivered \in Seq(Nat) /\ emitted \in Seq(Nat)
        /\ incoming \in Nat /\ outgoing \in Nat
        /\ accepted \in Nat /\ saved \in Nat
    BY <1>1, BoundsAssumption DEF Inv, TypeOK
  <2>2. delivered \o Slot(incoming) = FirstOnes(accepted)
    BY <1>1, <2>1, NumberedIsInOrder DEF Inv
  <2>3. emitted \o Slot(outgoing) = FirstOnes(saved)
    BY <1>1, <2>1, NumberedIsInOrder DEF Inv
  <2>. QED  BY <2>2, <2>3 DEF ExactlyOnceInOrder
<1>. QED  BY <1>1, InvCorrect, PTL

\* proceed blames an unknown future only for unknown futures.
THEOREM UnknownCorrect == Spec => []UnknownFutureIsUnknown
<1>1. Inv => UnknownFutureIsUnknown
  BY DEF Inv
<1>. QED  BY <1>1, InvCorrect, PTL

\* proceed asks for a message only if the protocol awaits one, unless futures
\* were dropped.
THEOREM AwaitedCorrect == Spec => []NeedsWhatIsAwaited
<1>1. Inv => NeedsWhatIsAwaited
  BY DEF Inv
<1>. QED  BY <1>1, InvCorrect, PTL

\* When the protocol ends, a message is left in the outgoing slot only if a
\* pending future was dropped or a SendMany was not flushed.
THEOREM NothingLeftCorrect == Spec => []NothingLeftBehind
<1>1. Inv => NothingLeftBehind
  BY DEF Inv
<1>. QED  BY <1>1, InvCorrect, PTL
=============================================================================
