---------------------------- MODULE StateMachine ----------------------------
(***************************************************************************)
(* A protocol driven as a state machine (state_machine/): an executor      *)
(* calls `proceed` and `received_msg`; the protocol is a future that       *)
(* `proceed` polls.  Both sides meet in the shared state, which has one    *)
(* slot for an incoming and one for an outgoing message, and a flag for    *)
(* each thing the protocol may have scheduled.                             *)
(*                                                                         *)
(* The protocol is any code that uses its party one call at a time: it     *)
(* receives, sends, feeds and flushes through SendMany, yields, finishes.  *)
(* It may also poll a future once and drop it, or poll a future that is    *)
(* none of the party's.  The k-th message of each direction is the         *)
(* number k.                                                               *)
(***************************************************************************)
EXTENDS Naturals, Sequences

CONSTANTS
    MaxIn, MaxOut,  \* bounds on the messages of each direction
    Abandons,       \* whether the protocol drops pending futures
    Unknowns,       \* whether the protocol polls futures of others
    Obedient        \* whether the executor follows the docs of StateMachine

ASSUME BoundsAssumption == MaxIn \in Nat /\ MaxOut \in Nat

ASSUME ModeAssumption ==
    Abandons \in BOOLEAN /\ Unknowns \in BOOLEAN /\ Obedient \in BOOLEAN

VARIABLES
    incoming,   \* SharedState::incoming_msg, None if the slot is empty
    outgoing,   \* SharedState::outgoing_msg
    wantsRecv,  \* SharedState::wants_recv_msg
    wantsSend,  \* SharedState::wants_send_msg
    yielded,    \* SharedState::yielded
    exhausted,  \* StateMachineImpl::exhausted
    phase,      \* "out" of proceed; the protocol is "run" or returns "pending"
    fut,        \* the future the protocol awaits
    holds,      \* the protocol has its "party", a SendMany ("many"), nothing
    result,     \* what the last proceed returned
    accepted,   \* history: number of messages received_msg accepted
    delivered,  \* history: messages the protocol received
    saved,      \* history: number of messages put into the outgoing slot
    emitted,    \* history: messages proceed returned in SendMsg
    abandoned   \* history: some pending future was dropped

shared == <<incoming, outgoing, wantsRecv, wantsSend, yielded>>
history == <<accepted, delivered, saved, emitted, abandoned>>
vars == <<shared, exhausted, phase, fut, holds, result, history>>

None == 0

Futures == {"none", "recv", "send", "feed", "flush", "yield", "yielded",
            "unknown"}

Results == {"none", "SendMsg", "NeedsOneMoreMessage", "Output", "Yielded",
            "Exhausted", "PollingUnknownFuture"}

(***************************************************************************)
(* The protocol's side.                                                    *)
(***************************************************************************)
\* Mutant: a requested message does not block other tasks.
RecvDoesNotBlock == ~ wantsSend /\ ~ yielded

CanSchedule == ~ wantsRecv /\ ~ wantsSend /\ ~ yielded

\* The protocol runs, and it polls the future f: the one it awaits since an
\* earlier poll, or a new one if it awaits none.
Polls(f) == phase = "run" /\ fut \in {"none", f}

\* The polled future answers Pending and is f from now on.
Pending(f) == phase' = "pending" /\ fut' = f

\* The polled future answers Ready.
Ready == UNCHANGED phase /\ fut' = "none"

(***************************************************************************)
(* What the methods of the shared state do for the protocol.               *)
(***************************************************************************)
\* protocol_needs_one_more_msg: the message in the slot is taken, or one is
\* requested.
TakesIncoming ==
    /\ incoming # None
    /\ incoming' = None
    /\ delivered' = Append(delivered, incoming)
    /\ UNCHANGED wantsRecv

RequestsIncoming ==
    /\ incoming = None
    /\ wantsRecv' = TRUE
    /\ UNCHANGED <<incoming, delivered>>

\* protocol_saves_msg_to_be_sent, when the slot is empty.
SavesOutgoing ==
    /\ outgoing = None
    /\ saved' = saved + 1
    /\ outgoing' = saved + 1

\* protocol_flushes_outgoing_msg: the message in the slot is scheduled.
SchedulesOutgoing == outgoing # None /\ wantsSend' = TRUE

\* protocol_yields
Yields == yielded' = TRUE

\* Mutant: a message is requested even if the slot has one.
RequestedAnyway ==
    /\ Polls("recv")
    /\ holds = "party"
    /\ \/ ~ CanSchedule /\ UNCHANGED wantsRecv
       \/ CanSchedule /\ wantsRecv' = TRUE
    /\ IF CanSchedule /\ incoming # None
         THEN /\ incoming' = None
              /\ delivered' = Append(delivered, incoming)
              /\ Ready
         ELSE Pending("recv") /\ UNCHANGED <<incoming, delivered>>
    /\ UNCHANGED <<outgoing, wantsSend, yielded, exhausted, holds, result,
                   accepted, saved, emitted, abandoned>>

\* Delivery::poll_next
PollNext ==
    /\ Polls("recv")
    /\ holds = "party"
    /\ \/ /\ ~ CanSchedule
          /\ Pending("recv")
          /\ UNCHANGED <<incoming, wantsRecv, delivered>>
       \/ CanSchedule /\ RequestsIncoming /\ Pending("recv")
       \/ CanSchedule /\ TakesIncoming /\ Ready
    /\ UNCHANGED <<outgoing, wantsSend, yielded, exhausted, holds, result,
                   accepted, saved, emitted, abandoned>>

\* Sink::send polls poll_ready until the slot is free, then start_send fills
\* it and poll_flush schedules it.  Sink::feed stops after start_send.
PollSend(f) ==
    /\ Polls(f)
    /\ holds = IF f = "send" THEN "party" ELSE "many"
    /\ fut = "none" => saved < MaxOut
    /\ \/ /\ ~ CanSchedule
          /\ Pending(f)
          /\ UNCHANGED <<outgoing, wantsSend, saved>>
       \/ /\ CanSchedule
          /\ SchedulesOutgoing
          /\ Pending(f)
          /\ UNCHANGED <<outgoing, saved>>
       \/ /\ CanSchedule
          /\ SavesOutgoing
          /\ IF f = "send"
               THEN wantsSend' = TRUE /\ Pending("flush")
               ELSE Ready /\ UNCHANGED wantsSend
    /\ UNCHANGED <<incoming, wantsRecv, yielded, exhausted, holds, result,
                   accepted, delivered, emitted, abandoned>>

\* Mutants of poll_flush: it schedules an empty slot; it schedules nothing.
EmptySlotFlushed ==
    /\ phase = "run"
    /\ fut = "flush" \/ (fut = "none" /\ holds = "many")
    /\ wantsSend' = (wantsSend \/ CanSchedule)
    /\ Pending("flush")
    /\ UNCHANGED <<incoming, outgoing, wantsRecv, yielded, exhausted, holds,
                   result, history>>

NothingFlushed ==
    /\ phase = "run"
    /\ fut = "flush" \/ (fut = "none" /\ holds = "many")
    /\ holds' = "party"
    /\ Ready
    /\ UNCHANGED <<shared, exhausted, result, history>>

\* Delivery::poll_flush.  It ends a send; in SendMany it is a call of its own
\* that returns the party.
PollFlush ==
    /\ phase = "run"
    /\ fut = "flush" \/ (fut = "none" /\ holds = "many")
    /\ \/ /\ ~ CanSchedule
          /\ Pending("flush")
          /\ UNCHANGED <<wantsSend, holds>>
       \/ /\ CanSchedule
          /\ SchedulesOutgoing
          /\ Pending("flush")
          /\ UNCHANGED holds
       \/ /\ CanSchedule /\ outgoing = None
          /\ holds' = "party"
          /\ Ready
          /\ UNCHANGED wantsSend
    /\ UNCHANGED <<incoming, outgoing, wantsRecv, yielded, exhausted, result,
                   history>>

StartSendMany ==
    /\ phase = "run" /\ fut = "none" /\ holds = "party"
    /\ holds' = "many"
    /\ UNCHANGED <<shared, exhausted, phase, fut, result, history>>

\* Mutants of YieldNow: the shared flag is not set; its own flag is not set.
YieldNotShared ==
    /\ phase = "run" /\ fut \in {"none", "yield", "yielded"}
    /\ holds = "party"
    /\ IF fut = "yielded" THEN Ready ELSE Pending("yielded")
    /\ UNCHANGED <<shared, exhausted, holds, result, history>>

YieldsAgain ==
    /\ phase = "run" /\ fut \in {"none", "yield", "yielded"}
    /\ holds = "party"
    /\ yielded' = (yielded \/ CanSchedule)
    /\ Pending("yield")
    /\ UNCHANGED <<incoming, outgoing, wantsRecv, wantsSend, exhausted,
                   holds, result, history>>

\* YieldNow::poll: "yield" while its own flag is unset, "yielded" later.
PollYield ==
    /\ phase = "run" /\ fut \in {"none", "yield", "yielded"}
    /\ holds = "party"
    /\ \/ /\ fut = "yielded"
          /\ Ready
          /\ UNCHANGED yielded
       \/ /\ fut # "yielded" /\ ~ CanSchedule
          /\ Pending("yield")
          /\ UNCHANGED yielded
       \/ /\ fut # "yielded" /\ CanSchedule
          /\ Yields
          /\ Pending("yielded")
    /\ UNCHANGED <<incoming, outgoing, wantsRecv, wantsSend, exhausted,
                   holds, result, history>>

\* A future that does not belong to the party.
PollUnknown ==
    /\ Unknowns
    /\ Polls("unknown")
    /\ Pending("unknown") \/ (fut = "unknown" /\ Ready)
    /\ UNCHANGED <<shared, exhausted, holds, result, history>>

\* The protocol drops a pending future and goes on.  The flush of SendMany
\* owns the party.
Abandon ==
    /\ Abandons
    /\ phase # "out" /\ fut # "none"
    /\ phase' = "run"
    /\ fut' = "none"
    /\ abandoned' = TRUE
    /\ holds' = IF fut = "flush" /\ holds = "many" THEN "nothing" ELSE holds
    /\ UNCHANGED <<shared, exhausted, result, accepted, delivered, saved,
                   emitted>>

(***************************************************************************)
(* The executor's side.                                                    *)
(***************************************************************************)
\* proceed, up to the poll of the protocol.
Proceed ==
    /\ phase = "out"
    /\ Obedient => /\ result # "NeedsOneMoreMessage"
                   /\ ~ exhausted
    /\ IF exhausted
         THEN result' = "Exhausted" /\ UNCHANGED phase
         ELSE phase' = "run" /\ UNCHANGED result
    /\ UNCHANGED <<shared, exhausted, fut, holds, history>>

\* The protocol's future is Ready: proceed returns its output.
Finish ==
    /\ phase = "run" /\ fut = "none"
    /\ phase' = "out"
    /\ exhausted' = TRUE
    /\ result' = "Output"
    /\ UNCHANGED <<shared, fut, holds, history>>

\* executor_takes_outgoing_msg, when a flush is scheduled.
TakesOutgoing ==
    /\ wantsSend
    /\ wantsSend' = FALSE
    /\ outgoing' = None
    /\ emitted' = Append(emitted, outgoing)

\* executor_reads_and_resets_yielded_flag, when the flag is set.
ResetsYielded == yielded /\ yielded' = FALSE

\* The protocol's future is Pending: proceed looks for what was scheduled.
Suspend ==
    /\ phase = "pending"
    /\ phase' = "out"
    /\ \/ /\ TakesOutgoing
          /\ result' = "SendMsg"
          /\ UNCHANGED yielded
       \/ /\ ~ wantsSend /\ wantsRecv
          /\ result' = "NeedsOneMoreMessage"
          /\ UNCHANGED <<wantsSend, outgoing, emitted, yielded>>
       \/ /\ ~ wantsSend /\ ~ wantsRecv
          /\ ResetsYielded
          /\ result' = "Yielded"
          /\ UNCHANGED <<wantsSend, outgoing, emitted>>
       \/ /\ CanSchedule
          /\ result' = "PollingUnknownFuture"
          /\ UNCHANGED <<wantsSend, outgoing, emitted, yielded>>
    /\ UNCHANGED <<incoming, wantsRecv, exhausted, fut, holds, accepted,
                   delivered, saved, abandoned>>

\* Mutant: the message in the slot is overwritten.
OccupiedSlotOverwritten ==
    /\ phase = "out"
    /\ accepted < MaxIn
    /\ Obedient => result = "NeedsOneMoreMessage"
    /\ incoming' = accepted + 1
    /\ accepted' = accepted + 1
    /\ wantsRecv' = FALSE
    /\ result' = "none"
    /\ UNCHANGED <<outgoing, wantsSend, yielded, exhausted, phase, fut, holds,
                   delivered, saved, emitted, abandoned>>

\* received_msg.  A message that does not fit is given back to the executor,
\* which may offer it again.  An obedient executor forgets that a message was
\* requested once it has provided one.
ReceivedMsg ==
    /\ phase = "out"
    /\ accepted < MaxIn
    /\ Obedient => result = "NeedsOneMoreMessage"
    /\ IF incoming = None
         THEN /\ incoming' = accepted + 1
              /\ accepted' = accepted + 1
              /\ wantsRecv' = FALSE
              /\ result' = "none"
         ELSE UNCHANGED <<incoming, accepted, wantsRecv, result>>
    /\ UNCHANGED <<outgoing, wantsSend, yielded, exhausted, phase, fut, holds,
                   delivered, saved, emitted, abandoned>>

Init ==
    /\ incoming = None /\ outgoing = None
    /\ wantsRecv = FALSE /\ wantsSend = FALSE /\ yielded = FALSE
    /\ exhausted = FALSE
    /\ phase = "out" /\ fut = "none" /\ holds = "party"
    /\ result = "none"
    /\ accepted = 0 /\ delivered = <<>>
    /\ saved = 0 /\ emitted = <<>>
    /\ abandoned = FALSE

Protocol ==
    \/ PollNext
    \/ PollSend("send")
    \/ PollSend("feed")
    \/ PollFlush
    \/ StartSendMany
    \/ PollYield
    \/ PollUnknown
    \/ Abandon

Next ==
    \/ Protocol
    \/ Proceed
    \/ Finish
    \/ Suspend
    \/ ReceivedMsg

Spec == Init /\ [][Next]_vars

\* The executor calls proceed whenever it may, and a call of proceed goes on
\* until it returns.  Nothing makes a message come.
FairSpec == Spec /\ WF_vars(Proceed \/ Protocol \/ Finish \/ Suspend)

-----------------------------------------------------------------------------
\* Every variable has its type.
TypeOK ==
    /\ incoming \in 0 .. MaxIn /\ outgoing \in 0 .. MaxOut
    /\ wantsRecv \in BOOLEAN /\ wantsSend \in BOOLEAN /\ yielded \in BOOLEAN
    /\ exhausted \in BOOLEAN
    /\ phase \in {"out", "run", "pending"}
    /\ fut \in Futures
    /\ holds \in {"party", "many", "nothing"}
    /\ result \in Results
    /\ accepted \in 0 .. MaxIn /\ saved \in 0 .. MaxOut
    /\ delivered \in Seq(1 .. MaxIn) /\ emitted \in Seq(1 .. MaxOut)
    /\ abandoned \in BOOLEAN

(***************************************************************************)
(* Properties.                                                             *)
(***************************************************************************)
Slot(m) == IF m = None THEN <<>> ELSE <<m>>
FirstOnes(k) == [i \in 1 .. k |-> i]

\* can_schedule is a lock: at most one thing is scheduled.  A scheduled flush
\* has its message (the debug_assert of executor_takes_outgoing_msg), and a
\* requested message finds its slot empty, so that received_msg refuses no
\* message that proceed asked for.
OneTask ==
    /\ ~ (wantsRecv /\ wantsSend)
    /\ ~ (wantsRecv /\ yielded)
    /\ ~ (wantsSend /\ yielded)
    /\ wantsSend => outgoing # None
    /\ wantsRecv => incoming = None

\* Every message that received_msg accepted reaches the protocol, and every
\* message the protocol has sent is returned by proceed, once and in order,
\* except the one that is still in its slot; whatever futures the protocol
\* drops and whenever the executor calls received_msg.
ExactlyOnceInOrder ==
    /\ delivered \o Slot(incoming) = FirstOnes(accepted)
    /\ emitted \o Slot(outgoing) = FirstOnes(saved)

\* proceed reports an unknown future only if the protocol awaits one: with
\* every future of the party that is pending, some flag is set.
UnknownFutureIsUnknown ==
    result = "PollingUnknownFuture" /\ phase = "out" => fut = "unknown"

\* Unless the protocol drops futures, proceed asks for a message only while
\* the protocol awaits one; a party never has to hear from others in order to
\* send.
NeedsWhatIsAwaited ==
    result = "NeedsOneMoreMessage" /\ phase = "out" /\ ~ abandoned
        => fut = "recv"

\* A message is left in the outgoing slot when the protocol ends only if the
\* protocol dropped a pending future or did not flush its SendMany.
NothingLeftBehind ==
    exhausted /\ outgoing # None => abandoned \/ holds # "party"

\* Whatever the protocol awaits other than a message is resolved, even if no
\* message ever comes: an executor has only to call proceed again.
OthersAreNotNeeded ==
    \A f \in {"send", "feed", "flush", "yield", "yielded"} :
        (fut = f) ~> (fut # f)

\* wrap_protocol: "If protocol polls an unknown future, executor won't know
\* what to do with that, the protocol will be aborted and error returned."
\* Once the error is returned, the protocol is not run again.
UnknownFutureAborts ==
    [][phase = "out" /\ result = "PollingUnknownFuture"
          => phase' # "run"]_vars
=============================================================================
