# Verification of round-based

TLA+ specifications of the engine of `round-based`, an MPC framework in Rust:
the round stores, the router and the party that drive a protocol, the echo
broadcast built on top of them, the state machine that lets a protocol be
executed without an async runtime, the simulator, the simulated asynchronous
network, and the repository's example protocol over echo broadcast. Paths below are relative to `src/round-based/src/`.

## 1. The system

| part | code | state | operations |
|---|---|---|---|
| round store | `round/simple_store.rs` | own index, n, expected type, ids and messages per slot, `left_messages` | `new`, `add_message`, `wants_more`, `output`; views of `RoundMsgs` |
| rounds router | `mpc/party/router.rs` | per round: in progress with its store, completed with a result, or gone | `add_round`, `received_msg`, `complete_round` |
| party | `mpc/party/mod.rs` | the router, a stream and a sink of messages; witnesses of rounds are held by the protocol | `add_round`, `finish_setup`, `complete`, `send`, `send_many`, `SendMany::send`, `SendMany::flush`, `yield_now` |
| echo broadcast | `echo_broadcast/` | the message sent in each reliable round; the main stores with a second copy of what was received; the echo stores | `add_round` (`read_prop`), `send` and `SendMany::send` (`on_send`), `complete` |
| state machine | `state_machine/` | one slot for a message in each direction, three flags, `exhausted` | `proceed`, `received_msg`; `poll_next`, `poll_ready`, `start_send`, `poll_flush`, `YieldNow::poll` |
| simulator | `sim/mod.rs` | parties, active or finished, their flag `wants_one_more_msg`, a queue per party, `next_id` | `run`, `send_message`, `recv_next_msg`; `expect_ok`, `expect_eq` of the results |
| async network | `sim/async_env.rs` | a bounded broadcast channel of tokio that all parties share, the next party index, the next message id | `connect_new_party`, `start_send`, `poll_next`, dropping of either half or of the network |
| random generation | `src/examples/random-generation-protocol/` | the own randomness, commitments and openings of the others | commit, complete, open, complete, verify and add up |
| derive macro, traits, runtimes, docs | | none at run time | not modelled |

How they interact. A protocol awaits `complete(round)`; only there does the
party read its stream. Each message is routed to the store of its own round,
which need not be the awaited one, and the awaited round is looked at before
every wait. `WithEchoBroadcast` registers two rounds of the router for one
reliable round, 2r for the messages and 2r+1 for the hashes, and its `complete`
is `complete(2r)`, a broadcast of the hash, `complete(2r+1)` and a comparison.
Under a state machine the stream and the sink are the two slots of the shared
state; `proceed` polls the protocol and then tells from the flags why it
stopped. The simulator calls `proceed` and `received_msg` of all parties in
turn and moves messages between them. In the asynchronous network the parties
run concurrently; every message goes through one channel that all of them read,
and each skips the private messages of others.

What is hard here, and hard to test:

- *order*: messages come early (for rounds nobody awaits yet), late (the round
  is decided) and repeated, and the outcome of a round must not depend on what
  was awaited at that time;
- *two copies*: echo broadcast compares hashes of one copy of the messages and
  outputs another;
- *parties out of step*: main messages and echoes of different rounds overlap;
- *dropped futures*: a future of the party that was polled and dropped leaves a
  flag, a message or a consumed witness behind;
- *failures of one step among several*: a send fails after the message was
  recorded, a message of one round fails the call for another;
- *careless protocols*: sends that are repeated, skipped, or made in another
  round than the current one, and a `complete` that is dropped half way;
- *what a test concludes*: a simulation in which a party fails or differs must
  not pass, and must name the right parties;
- *index arithmetic*: slots skip the own index; echo rounds are `2 * round + 1`
  over `u16`;
- *liveness*: `complete` must not await what is there already, a send must not
  depend on other parties, the simulator must not starve a party.

`PROJECT.json` lists these hazards line by line with the properties that catch
each of them.

## 2. Modules

```
RoundInput ──┬── MpcParty ─────── MCMpcParty
             │       └─────────── MpcPartyProofs ── (RoundInputProofs)
             ├── EchoBroadcast ─┬─ MCEchoBroadcast
             │       │          ├─ RandomGeneration ── MCRandomGeneration
             │       │          └─ EchoBroadcastProofs ── (RoundInputProofs)
             │       │                 └─ EchoCarefulProofs
             │       │                        └─ RandomGenerationProofs
             │       └─ implements ReliableBroadcast
             └── RoundInputProofs
StateMachine ─── StateMachineProofs
AsyncNetwork ─── AsyncNetworkProofs
Simulation ──┬── MCSimulation
             └── SimulationProofs
```

**RoundInput** is a module of operators: a store is a record, its methods are
operators on it, errors are records. The vector of optional messages is a
partial function on the slots `0 .. n-2`. `AddMessage` and `AddMessageError`
follow the order of the checks of `add_message` (type, own message, range,
overwrite). `IterIndexed` and `IncludingMe` are what a protocol reads from an
output.

**MpcParty** is one party with its router, under an environment that hands it
any message of the set `Wire` whenever it waits. One action per call or per
turn of the loop of `complete` between two awaits: `AddRound`, `FinishSetup`,
`Complete`, `Receive` (a message comes, is routed, the awaited round is checked
again), `ReceiveFails`, `CancelComplete` (the future is dropped), `Send`,
`SendFails`, `StartSendMany`, `Feed`, `Flush`, `LoseParty`. Router and party are
one module because no await separates them. `round` and `variant` of a message
are what `ProtocolMsg::round` and `RoundMsg::from_protocol_msg` see; for derived
message types they agree, for hand-written ones they need not. Besides
`RoundInput` there are two kinds of custom stores, one that wants nothing
(`Empty`) and one that never outputs (`Improper`). The type system lets a
protocol use a witness that another party gave out for the same round:
`CompleteForeign`. Such a witness may be typed by another store than the one
registered here. The router then takes the outcome out of the round before the
downcast to the witness's output type (`OtherOutput`) or error type
(`OtherError`) fails, and the outcome is lost: `Downcast`, `AfterTake`. `claim`
is whose witness the pending call holds. `log` and `returned` are histories.

**EchoBroadcast** has N parties over the same stores. The honest ones send and
complete rounds `0 .. R-1`; the others send any main message or echo of given
sets at any time (`ReceiveByz`). Which rounds are `Reliable` follows from
`Stores`: the type of the messages a store expects, unless `set_prop` has set
the property (`ReadProp`). The wrapped router is reduced to what `complete` uses
of it: the entry of each round, ongoing, collected, failed or gone. Between two
awaits everything is one step: `Send`, `Complete`, `SendEcho`, `Receive`, and
their failures. `OnSendError` is `on_send` with its three refusals; both `send`
and `SendMany::send` begin with it, and a failing `flush` loses the party, which
is the first disjunct of `SendFails`. A protocol is careful, i.e. sends once in
each round before it completes it, or `Careless`: it may send in any round to
any destination, again after a failure, not at all, and drop the future of
`complete` at any await (`CancelComplete`). A hash is the record of what is
hashed, i.e. free of collisions; the digest itself is external. `2 * round + 1`
is computed modulo `U16`, or panics, because which of the two happens depends on
the build. The network authenticates senders and reorders; duplication, failing
sends and own broadcasts that come back are switched on by constants. `cast` and
`late` are histories.

**ReliableBroadcast** is what the wrapper promises, without hashes, echoes and
network: an honest party broadcasts one message in a round; it is given the
messages of a round once, honest senders are not misquoted, and no honest party
was given another message of the same sender. EchoBroadcast implements it
(`ImplementsReliableBroadcast`): its `cast` is the abstract one restricted to
reliable rounds, and the abstract `out` is what `complete` has returned for
them, by sender instead of by slot. `Send` is `Cast`, the step of `complete`
that finds all hashes equal is `Deliver`, all others are stutters. This holds
for careful protocols; a careless one can send a second message in a round that
it has collected already (see `MismatchMeansDishonest`).

**RandomGeneration** is the example of the repository as a protocol over
EchoBroadcast: what its parties send is fixed (`SendOwn`), everything else are
the actions of EchoBroadcast. What the protocol computes from the outputs of
both rounds, without another await, are operators: `GuiltyParties`, `OutputOf`,
`Succeeds`. The example sends once per round, so no party is `Careless`. SHA-256 is a constructor, hence injective; the exclusive or is
formal, i.e. the set of the values that occur an odd number of times: two
outputs are equal here if they are equal whatever bits the values have.

**StateMachine** has the shared state, `proceed` split at the poll of the
protocol, `received_msg`, and a protocol that may do anything the API allows in
any order, including dropping pending futures (`Abandons`) and polling futures
of others (`Unknowns`). `phase` says who runs. The executor is arbitrary, or
follows the docs of `StateMachine` (`Obedient`). The methods of the shared state
are operators of their own (`TakesIncoming`, `SavesOutgoing`, `TakesOutgoing`,
...), which the polls and `proceed` are made of. Message k is the number k.

**Simulation** has the loop of `run` and the queues; each party follows a
script of sends, receives and yields, chosen in the initial state, which may end
with an error (the operation `fail`), and answers `proceed` as StateMachine
does. Its `Proceed` is one call of `proceed` with the handling of its result. A
party outputs how many messages it received, so that outputs may differ.
`ExpectOk` and `ExpectEq` are the methods of `SimResult` on these outputs: the
value they return, or a panic with the content of its message (the parties that
failed; the clusters of equal outputs).

**AsyncNetwork** has the network and the two halves of each party's delivery.
The channel of tokio is external: `channel` keeps all messages, `Buffered` says
which of them are still in the buffer, `cursor` where a receiver reads next.
Parties may be on several threads, so `start_send` is two steps, drawing the id
(`StartSend`) and putting the message in the channel (`SendToChannel`), and
`poll_next` is one step per message read (`ReadMessage`, `ReadLagged`,
`ReadClosed`). `run` and its variants connect all parties before the first step
of any of them; here parties may also be connected later, as with `add_party`.

An action models everything the code does between two points where others can
run; histories are never read by guards, except through the bounds.

## 3. Runs

| run | instance | what it shows |
|---|---|---|
| `party` | party 1 of 3, a broadcast and a p2p round, 10 kinds of messages, at most 4 received | `RouterFollowsLog`, `ReturnedFollowsLog`: router and results are what the received messages of the round justify, told from the log alone; `EntriesNameSenders`; `NeverWaitsInVain`; `WitnessGuardsRound`; `NothingUnflushedWhileWaiting` |
| `party_custom_stores` | four rounds, one of each combination of custom stores; foreign witnesses for three: of another output type, of another error type, of the same types | `ReturnedFollowsLog` again, with stores that do not output; `OutcomeTakenOnce`: the router forgets a round exactly when a call takes its outcome, and the later calls are told so; `OutcomeKept`: until then nothing changes a decided outcome, and only a foreign witness of another type destroys it |
| `random_generation` | the example with 2 honest parties of 3; the sends of one of them may fail; the dishonest one copies either commitment, one to each party if it likes, opens either value, and sends echoes with the hash that is right for one party, a wrong one, or for other rounds | `Agreement` (reliable broadcast), `HashCoversOutput`, `ImplementsReliableBroadcast` (refinement); `SameOutput`, `NoHonestBlame`, `FixedBeforeOpened` for the example |
| `echo_honest` | 3 honest parties, a plain round, a reliable one and a plain store made reliable by `set_prop`; party 0 gets its own broadcasts back | `HonestNeverFail`, and under fairness `EveryoneFinishes` |
| `echo_faults` | 2 honest parties, a reliable and a plain round, duplicates; party 0 is careless and its sends may fail | `Agreement`, `MismatchMeansDishonest` |
| `echo_router_errors` | one honest party of 2 | violated: see Findings |
| `state_machine` | up to 4 messages each way, everything allowed | `OneTask`, `ExactlyOnceInOrder`, `UnknownFutureIsUnknown`, `NeedsWhatIsAwaited`, `NothingLeftBehind` |
| `state_machine_progress` | executor that follows the docs, fairness | `OthersAreNotNeeded`: sends, flushes and yields end even if no message ever comes |
| `state_machine_unknown_future` | protocol with an unknown future | violated: see Findings |
| `simulation` | 2 parties, all scripts of up to 3 operations, errors included | `MessagesAreSaved`, `OkMeansAllFinished` |
| `simulation_returns` | 3 parties, all scripts of up to 3 broadcasts and receives, up to 2 with private messages, fairness | `InboxFollowsSent`: the queues carry what is sent, in order, under unique ids; `ReturnsExactlyWhenPossible`: `run` returns exactly for those protocols that have no blocked cut; `VerdictIsRight`: `expect_ok` and `expect_eq` let a simulation pass exactly if all outputs are Ok and equal, and else name the right parties |
| `async_network` | 2 parties that connect at any time, at most 3 messages, a channel of 1 or 2 slots | `IdsAreUnique`; `GetsOwnMessagesInOrder`; `NoSilentLoss`: a message that is lost to lag is reported between its neighbours; `CapacityIsEnough`; `ClosedIsFinal` |

One run of each component also checks its type invariant. Deadlock is not
checked: parties may stop for good (done, failed, lost, waiting for messages
nobody sends), and the bounds end behaviours.

Bounds and why they suffice for the questions asked:

- *three parties, own index 1* (`party`): slots below and above the own index
  exist, so every branch of the slot arithmetic is taken. Four messages
  (`MaxLog`) complete one round of two senders and leave two more for
  repetitions, late messages and the other round. The theorems below hold for
  every N and every length of the log.
- *three parties in echo broadcast*: a dishonest party can tell two honest ones
  different things. A round cannot be finished by one honest party before all
  honest ones are in it, so parties are at most one round apart, and adjacent
  pairs of rounds are all that can overlap: plain/reliable and
  reliable/reliable in `echo_honest`, reliable/plain in `random_generation` and
  `echo_faults`.
- *careless parties* (`echo_faults`): two parties, since a careless one does its
  harm between itself and one other, and two values, so that a second send can
  differ from the first. `MaxCast` = 2 lets it send twice, once more than on_send
  should allow in a round; only sends that reach somebody count, so refused
  and lost ones are unlimited.
- *the dishonest party of `random_generation`* needs two commitments and two
  openings to equivocate. It draws no value of its own: it copies those of the
  honest ones, which is the strongest case for a protocol without proofs of
  knowledge. With `LiveView` states are identified that differ only in what
  parties that have ended hold, are sent or failed of. No action reads it and
  no property of the run does, and `exposed`, `check` and `cast`, on which
  they are defined, are in the view.
- *state machine*: the slots hold one message; four messages let each slot be
  filled again after every way of emptying it. The safety properties are
  proved for any number.
- *simulation*: scripts of three operations allow a receive before, between and
  after two sends for each of three parties. `MCSimulation` chooses the scripts.
- *async network*: three messages over a channel of one slot let a receiver get
  one, lose one and get another; two slots tell a full buffer from one that
  overflows. Two parties send concurrently and to each other, to themselves and
  to all.

Fairness. `echo_honest`: each honest party that can take a step takes one, and
this includes receiving: the executor polls a party that is ready, and the
network delivers messages between honest parties eventually; nothing is assumed
of dishonest ones. `state_machine_progress`: the executor goes on calling
`proceed` when the docs allow it, and a call of `proceed` returns; nothing is
assumed about `received_msg`. `simulation_returns`: `run` is one thread that
does not stop.

## 4. Theorems

Everything here is checked by TLAPS for all values of the constants that satisfy
the named assumptions of the modules. Most of them give the constants their
types. Those that say more:

- `PartyAssumption` and `EchoAssumption`: N >= 2 and own indices below N, which
  `RoundInput::new` asserts.
- `EchoAssumption`: the echo rounds of the protocol's own rounds fit in u16, and
  `U16` is even, as 2^16 is. Both matter: the round of an echo is a number its
  sender chooses, and `2 * round + 1` stays odd when it wraps around, so that a
  wrapped echo can reach another echo round and never a main round.
- `RandomGenerationAssumption`: the two rounds of the example, and parties that
  send once per round.
- `PowersOfTwo` (AsyncNetwork): between c and 2c there is a power of two. It is
  a fact of arithmetic, stated because the provers know nothing of `^`; TLC
  evaluates it on the capacities of the run.

**RoundInputProofs**: lemmas on the stores. Slots and other parties correspond
one to one; `Flatten` of a full vector is the vector; `AddMessage` keeps the
count of missing messages equal to the number of vacant slots; a store that
wants no more is full.

**MpcPartyProofs**:

- `TypeCorrect`. `TypeOK` is not inductive: that a completed round has a full
  output needs the stores to be `Counted`, and a step of `complete` needs
  `cur` to be a registered round. `TypeInv` adds both.
- `RouterCorrect` (`RouterFollowsLog`) and `ReturnedCorrect`
  (`ReturnedFollowsLog`). The invariant `LogInv` adds that nothing is received
  during setup, so that a new store is justified by an empty log. The core is
  `ProcessJustified`: one message takes a justified store to a justified store
  or a justified result. `ResultKept` says that what a prefix of the log
  justifies stays justified when it grows.
- `EntriesCorrect` (`EntriesNameSenders`), from `LogInv` and the slot lemmas.
- `WaitsCorrect`, `WitnessCorrect`. A witness is consumed by `complete`, so the
  awaited round is never one whose witness is still held; `WitnessInv` says so.
- `TakenOnceCorrect`, for foreign witnesses of any type. `TakenInv` adds that
  the awaited round is in progress, so that a call that fails while it waits
  has not taken anything, and that a pending call with a foreign witness has
  used it up.
- `OutcomeKeptCorrect`, an action property, from `TypeInv` and
  `NeverWaitsInVain`. The exception is part of the statement: a step that
  removes an outcome without returning it uses up a foreign witness whose type
  differs from that of the outcome. With own witnesses, or with foreign ones of
  the same type, no outcome is lost.
- `FlushCorrect`: outside of `SendMany` something is unflushed only after a
  failed send.

**EchoBroadcastProofs**, for any N, any rounds, any set of dishonest parties,
failing sends, duplicates and careless protocols. The inductive invariant `Inv`
has these parts:

- `Local(p)`: where a party is (`Where`); the entries of its router are of their
  types and their stores `Counted`; the two copies of the messages of a reliable
  round agree at slots that correspond (`CopiesAgree`); a round that has a check
  is collected and its slot for the own message is used up (`Bookkeeping`); what
  was given to the protocol is the output of the check (`GoodExposed`).
- `Authentic`: what is on its way, stored or checked in the name of an honest
  party was sent by it, and its hash is the one of its own check.
- `HashesAgree`: a party that was given a reliable round holds the hashes of all
  others, and those of honest parties are equal to its own. This is where the
  echo store's `wants_more` and the comparison in `complete` come in.
- `OwnIsHashed`: what a party has sent in a reliable round is what it hashes for
  itself, unless it sent `late`, i.e. after the round was collected.

`Agreement` follows from `HashesAgree` and `CopiesAgree` (`AgreementCorrect`),
`HashCoversOutput` from `Local` (`HashCoversCorrect`), the types from `Local`
and `Authentic` (`TypeCorrect`), and `MismatchMeansDishonest` is a conjunct of
`Inv`: in the step that compares, hashes of honest parties can differ only in a
message that somebody sent late (`MismatchCorrect`).

**EchoCarefulProofs**: what needs more than `Inv`.

- `BroadcastImplemented`: `Spec` implies `ImplementsReliableBroadcast` if nobody
  is careless (`Careful`). Without this hypothesis it is false, see
  `MismatchMeansDishonest`. `OrderInv` says that a message was cast by a party
  that is past its send of that round, and that the rounds given to the
  protocol are those before the current one: so a step casts at most one
  message per party and round, and delivers a round once. `StepView` is the
  simulation of one step.
- `HonestNeverFailCorrect`: `Spec` implies `[]HonestNeverFail` if every round
  expects broadcasts, reliable ones only if the wrapper makes them reliable
  (`StoresExpectBroadcasts`). The protocols of EchoBroadcast broadcast in every
  round; a store that expects p2p messages, or one that `set_prop` has made
  unreliable though it expects reliable broadcasts, refuses what the protocol
  itself sends. `FaultlessInv` says that messages on their way are of one kind,
  unique, sent by parties past the send, and not yet in the store they go to: so
  every one is accepted.
- `NeverStuckCorrect`: under the same hypotheses, as long as not all parties are
  done, some party can send or poll by itself, or some party that awaits a round
  has a message on its way (`SomeoneCanGoOn`). This is the part of
  `EveryoneFinishes` that does not need fairness. `ArrivesInv` says that no
  message gets lost between a sender and a round that wants it: a round that is
  ongoing wants more messages, each message that others have sent to it is in its
  store or on its way, and a party awaits only rounds that are ongoing. Of the
  parties that are not done, one in the earliest round then has a message coming:
  all others have passed their send of that round, and its store has a vacant
  slot (`MainComes`, `EchoComes`, `NobodyStuck`).

**RandomGenerationProofs**. `RGImplementsProtocol`: the example's steps are
steps of EchoBroadcast, so all of the above holds for it, and
`RGBroadcastImplemented` the refinement too. `RGInv` adds that honest parties
cast their own commitment and opening only, and hash their own commitment.
`SameOutputCorrect`: agreement on commitments, and `Digest` is injective, so
openings that pass the check agree. `NoHonestBlameCorrect`,
`FixedBeforeOpenedCorrect`: a party opens after `complete` compared the hashes.
`HonestRunCorrect` puts it together for parties that are all honest: none fails,
none is stuck, whoever ends has succeeded, and all with the same randomness.

**StateMachineProofs**: `Inv` contains the checked invariants and what makes
them inductive: the slots in arithmetic form (`Numbered`), a pending future of
the party has a task (`PendingHasTask`), a task belongs to the awaited future
unless futures were dropped (`TaskHasOwner`), the outgoing slot is full only on
its way out or inside a `SendMany` (`SlotHasOwner`). From it: `TypeCorrect`,
`OneTaskCorrect`, `InOrderCorrect`, `UnknownCorrect`, `AwaitedCorrect`,
`NothingLeftCorrect`.

**SimulationProofs**, for any N and any scripts. `SimInv` is the conjunction of
`TypeOK`, `OkMeansAllFinished` and `MessagesAreSaved`, which need each other
(`parties_left` is positive because somebody is active; a delivery is not
refused because a party that wants a message has an empty slot), and that the
loop is entered only if there is a party. From it: `TypeCorrect`, `OkCorrect`,
`SavedCorrect`. `InboxCorrect` (`InboxFollowsSent`) is inductive over `SimInv`:
a delivery moves a message within the inbox (`Moved`), a send puts one at the
end of the inboxes of its recipients (`InboxGrows`), under ids that differ and
are below the new counter (`IdFacts`, which counts the recipients before one).

The first of these three needs an induction over data. The induction theorems of the
library take an operator as a parameter, which the provers cannot instantiate;
here a property of numbers is the *set* of the numbers that have it, and
induction (`InductionOnSet`) follows from `<` being well-founded on the naturals.

- `VerdictCorrect` (`VerdictIsRight`). `ClustersGroup` is the induction over the
  outputs that the loop of `expect_eq` has looked at: the clusters `Groups` the
  parties by their outputs, each party in one cluster and equal outputs in the
  same one, because a party joins the cluster of its value (`JoinsCluster`) or
  opens one (`OpensCluster`). That the recursive function exists at all is an
  induction too (`ClustersExist`).
- `ReturnsOnlyIfPossibleCorrect` (`ReturnsOnlyIfPossible`): `run` returns results
  only for protocols without a blocked cut. This is the safety half of
  `ReturnsExactlyWhenPossible`. `CutInv` says that a party has received all it was
  given but the message in its slot, that its inbox has as many messages as were
  sent to it (`Counted`), that the operations it has done can be done
  (`CanBeDone`), where a party stands that is finished or waits (`Stands`), and
  that no party has passed a blocked cut (`NonePassed`): to be the first one, it
  would have to receive more than is sent before the cut.
- `GoesOnCorrect` (`SomeoneCanGoOn`): if the protocol can be run to the end, then
  until `run` ends some active party does not wait, or has a message in its queue.
  If all active parties waited with empty queues, the places where they wait would
  be a blocked cut. This is what the other half rests on, besides fairness.

**AsyncNetworkProofs**: `IdsAreUniqueTheorem`. That ids are unique is not
inductive; `IdsInv` adds that every id in the channel or inside `start_send` is
below the counter, so an id that is drawn is new. For the rest, `NetInv` adds to
the checked invariants that what a party got is behind its cursor (`Behind`: so
what it gets next comes later in order, and an error that comes covers all that
was passed over), that a party that is not connected has got nothing
(`NothingEarly`), and that a message inside `start_send` belongs to a sender
that exists (`SendersExist`: so a closed channel has none). From it:
`TypeCorrect`, `InOrderCorrect`, `NoSilentLossCorrect`, `CapacityCorrect`,
`ClosedCorrect`.

Only model-checked: the liveness properties `EveryoneFinishes` and
`OthersAreNotNeeded`, and that `run` does return in
`ReturnsExactlyWhenPossible` (TLAPS has no rule here for fairness and ENABLED;
`NeverStuckCorrect` and `GoesOnCorrect` show that some party can always go on,
`AwaitedCorrect` that a send never needs others, and TLC that it ends well); and
that the findings below are reachable. `ArrivesInv`, `CutInv` and the two
`SomeoneCanGoOn` are not among the properties of the runs; they hold in all
states of `echo_honest` and of `simulation` and `simulation_returns`,
respectively, as a check of these invariants on the same instances shows.

## 5. Findings

- `NoRouterErrors` (`echo_router_errors`). The docs of
  `CompleteRoundError::Router` say that it is not possible for an adversary to
  make this error happen. Over echo broadcast the round of an echo is a field
  its sender chooses; an echo for a round that does not exist makes an honest
  party fail with a router error. The comment on `Msg::Echo::round` concedes it.
- `UnknownFutureAborts` (`state_machine_unknown_future`). The docs of
  `wrap_protocol` say that a protocol that polls an unknown future is aborted.
  `proceed` returns the error but leaves the machine usable: the next `proceed`
  polls the protocol again.

## 6. Not modelled

- What the protocols over AsyncNetwork do, and `join_all`: the network lives as
  long as `run`, so a party that awaits a message of one that has quit is never
  told, and `run` does not return.
- Properties of stores other than `RequiresReliableBroadcast`, which is the only
  one the crate reads; the dynamic casts by which they are found.
- What SHA-256 and the digests of echo broadcast do to bits, and whether the
  output of the example is unbiased; a dishonest party that withholds its
  opening only stops the others, which the code does not prevent.
- Branches of the router that the public API cannot reach: an entry without a
  store, an incoherent state in `process_message`, outputs that are not ready.
- The wording of the panics of `SimResult`, and its conversions.
- `mpc/party/runtime.rs`, `noop_waker.rs`, `Halves`: forwarding, no state.
- The derive macro: code generation; its contract is the numbering of rounds
  that MpcParty takes from each message.
- The width of the `u16` range in the indexed iterators, which matters at
  65535 parties only.

## 7. Plan

Done: RoundInput, MpcParty, EchoBroadcast with careless protocols,
ReliableBroadcast and its implementation, RandomGeneration, StateMachine,
Simulation with the verdicts of SimResult, AsyncNetwork, their runs, and the
proofs of section 4: every safety property of a run is a theorem, and so is the
absence of deadlocks in echo broadcast and in the simulator.

What would come next: protocols of EchoBroadcast that send p2p messages in a
round (its parties broadcast in every round now), so that the theorems on
faultless runs cover them; and the parties over AsyncNetwork, to say which of
them end when one has quit.
