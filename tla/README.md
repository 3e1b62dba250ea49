# TLA+ specification of the TSS relayer

A verification project for `tss-demo`, a relayer that takes part in threshold
signature sessions (keygen, signing and resharing, of ECDSA keys on Binance's tss-lib
or of FROST keys on multi-party-sig) with the other relayers of a topology. The specification is about the relayer's own
logic: who leads a session, who takes part, when processes run, what `Execute`
returns, which lock is held and which message arrives. The cryptography of the
libraries is external.

Contents: [inventory](#1-inventory), [modules and code](#2-modules-and-the-code-they-model),
[runs](#3-what-the-runs-check), [fairness](#4-fairness), [proofs](#5-what-is-proved),
[findings](#6-where-code-and-documentation-disagree),
[limits](#7-what-is-not-modelled-and-why), [plan](#8-plan).

To check: `tlc -workers 2 -config <run>.cfg <MC module>` for a run (the table of
section 3 names both; `PROJECT.json` lists them), `tlapm <module>_proofs.tla` for
the proofs.

## 1. Inventory

Paths are relative to `src/`.

| Component | State it keeps | Operations | Talks to | Model |
|---|---|---|---|---|
| **Coordinator** `tss_util/tss/coordinator.go` | `pendingProcesses` under `processLock`; per Execute: pool, cancel function, excluded peers, ready peers | `Execute`, `watchExecution`, `handleError`, `start`, `retry`, `initiate`, `broadcastInitiateMsg`, `waitForStart` | elector, process callbacks, communication | TssCoordinator (one session, every host), which implements TssSession; Executions (every session, one host) |
| **ECDSA processes** `tss_util/tss/ecdsa/{keygen,signing,resharing,common}` | keyshare read, party, subscription, cancel function | constructor, `Run`, `Stop`, `Ready`, `StartParams`, `ValidCoordinators`, `Retryable`, `processEndMessage` | keyshare store, communication, tss-lib | ProcessRun (the goroutines of Run), which implements TssRun; TssCoordinator (callbacks), Executions (locking) |
| **Static elector**, session order `comm/elector/static.go`, `tss/util` | none | `Coordinator`, `SortPeersForSession` | | TssCoordinator (`Rank`, `StaticCoordinator`) |
| **Bully elector** `comm/elector/bully.go` | believed coordinator, sorted peers, five channels | `Coordinator`, `listen`, `elect`, `startBullyCoordination`, `setCoordinator` | communication | BullyElector; its result in TssCoordinator |
| **Communication** `comm/p2p/libp2p.go`, `comm/messages.go` | | `Broadcast`, `sendMessage`, `StreamHandlerFunc`, `ProcessMessagesFromStream`, `Subscribe`, `UnSubscribe`, `CloseSession` | stream manager, subscriptions, libp2p | Communication, which implements Mailbox |
| **Subscriptions** `comm/p2p/subscription.go`, `comm/subID.go` | `subscribersMap` under its lock | `SubscribeTo`, `UnSubscribeFrom`, `GetSubscribers`, `Unwrap` | | Communication |
| **Stream manager** `comm/p2p/manager.go`, `comm/p2p/util.go` | `streamsBySessionID` under its lock | `Stream`, `AddStream`, `ReleaseStreams`, `WriteStream`, `ReadStream` | libp2p | Communication |
| **Keyshare stores** `keyshare/ecdsa.go`, `keyshare/frost.go` | a mutex; a file | `LockKeyshare`, `UnlockKeyshare`, `GetKeyshare`, `StoreKeyshare` | file system | Executions, which implements KeyshareStore |
| **Event handlers, HTTP API** `service/event_handlers`, `routers` | | `HandleEvents` of keygen and signing | coordinator, processes | Executions, from the request on |
| **FROST processes** `tss_util/tss/frost` | as ECDSA | as ECDSA | as ECDSA, multi-party-sig | as ECDSA; the service constructs none |
| **Startup** `service/tss_run.go`, **topology**, **configuration**, **gate and host**, **health and metrics**, **prop store, logging, CLI**, **mocks** | | | | not modelled (section 7) |

How a session goes. A handler constructs a process; its constructor reads the
keyshare under the store's mutex. `Execute` refuses a session that is pending, asks
the static elector for the first peer of the session order and starts two
goroutines: `start` and a watchdog (`watchExecution`, `TssTimeout`). The elected
host broadcasts `TssInitiateMsg` on a ticker, collects `TssReadyMsg` until `Ready`
says enough, and broadcasts `TssStartMsg` with the start parameters; everybody else
answers the initiate message and waits for the start message, for at most
`CoordinatorTimeout`. Both then call `Run`. A failed signing is retried once, behind
a bully election, from `handleError`. At the end `Execute` resets
`pendingProcesses`, cancels, calls `Stop` and `CloseSession`.

What is hard here, and the property that answers it (`PROJECT.json` lists the
hazards at their lines):

- *Messages carry a session id and no try.* Answers and start messages of the first
  try reach a host in its second. `OneStartPerTry`, `SubsetVolunteered`.
- *Every host acts on its own belief of who leads.* After a retry there may be
  several coordinators for a session. `ImplementsSession`, `OneSignatureReturned`.
- *Joining is asynchronous.* Peers join in any order; messages to nobody are dropped;
  `Ready` compares with `==`. `SessionStarts`, `NobodyStartsAlone`, `NeverOvershoots`.
- *Timers end what nothing else ends*, and what `Execute` returns depends on which
  goroutine of its pool ends first. `ExecuteReturns`, `RetryReported`.
- *One mutex is locked and unlocked in different methods of different processes*: the
  constructors, `Run`, `Stop`. `LockSound`, `UnlocksMatched`, `HandlersReturn`.
- *Goroutines of a process block each other.* Unbuffered channels, a party that sends
  while it is called, a pool that waits for all. `HangsAfterFailure`, `CancelledEnds`,
  `NilMeansResult`, `SecondResult`, and `ImplementsRun` for all that the coordinator
  relies on; `HandlersReturn` for what a hung process means for the others.
- *An election runs on several goroutines and outlives its caller*; hosts enter it late,
  with different lists, and leave before it is over. `Agreement`, `BelievesProclaimed`,
  `HeadNamesItself`, `ElectionsEnd`.
- *Check and mark of `pendingProcesses` are not atomic.* `OnePerSession`, `PendingOwned`.
- *The keyshare file is truncated before it is written.* Crashes, disk errors and reads
  in between: `ReadsWhole`; a resharing that overwrites a newer key: `ResharingKeepsKey`;
  both, step by step: `ImplementsStore`.
- *A stream is looked up, opened and registered under different locks.*
  `ImplementsMailbox` (what is delivered) and the theorem `LeaksExplained` (what stays open).
- *Subscriptions of a signing session cannot be removed and overwrite each other.*
  `CurrentIsSubscribed`, `UnsubscribedIsGone`, `NoneLost`.

## 2. Modules and the code they model

Every module is one specification with its constants, actions, properties, the
inductive strengthening used by the proofs, and, beside some actions, a *plausible
bug*: a variant with the same parameters that `PROJECT.json` substitutes for the
action to show that a property is not vacuous. No `Next` uses a variant.

### TssCoordinator: one session, every host

| Model | Code |
|---|---|
| `pc[p]` | where the host's `Execute` is: `initiate` and `wait` are the loops of these functions, `run` is `TssProcess.Run`, `elect` is the bully election in `retry`, `held` is `rp.Wait()` after a retry that succeeded |
| `try[p]`, `coord[p]`, `excluded[p]`, `ready[p]` | pool of `Execute` or of `handleError`; coordinator, `excludedPeers`, `readyPeers` of the current `start` |
| `net` | `TssInitiateMsg`, `TssReadyMsg`, `TssStartMsg` under way: a set, so any order, and lost when the receiver has no loop subscribed, or at any time if `"loss" \in Faults` |
| `Rank`, `StaticCoordinator` | `SortPeersForSession`, `StaticCoordinator` |
| `Ready`, `StartParams`, `ValidCoordinators`, `ParamsAccepted`, `Retryable` | the callbacks of the six processes, selected by `Kind` and `Scheme` |
| `Execute`, `InitiateTick`, `ReceiveReady`, `ReceiveInitiate`, `ReceiveStart` | the calls and select branches of these names |
| `CoordinatorTimeout`, `TssTimeout` | the timers of `waitForStart` and `watchExecution` |
| `RunSucceeds`, `RunCommunicationError`, `RunTssError`, `RunOtherError` | what `Run` returns, and `handleError`'s type switch on it |
| `RunErrsLate`, `RunHangs` | what ProcessRun shows `Run` may do besides: return an error although it delivered (`LateErrors`, as TssRun allows), or never return |
| `Elected` | the bully elector returns *some* valid peer, not necessarily the same everywhere |

`answered` and `ran` are history variables. A message's `try` is one too: receivers
never look at it. `PoolUnwraps` says that `pool.Wait` returns a single error bare, which
is what the build does (`go.mod`: go 1.19, `sourcegraph/conc` v0.3.0): only then does
the type switch of `handleError` recognise a communication, coordinator or tss error.
With an `errors.Join` build no session would be retried; the theorems hold for both
values.

### TssSession: the abstract session

What a session promises, without messages, tries, elections or timers: hosts join
processes of decisions they are members of, a decision is the same for all who join it,
a result is delivered once and only when all members joined, a host that returned is out,
and one caller at most is told that it has the ECDSA signature. TssCoordinator
instantiates it (`Session`, `ImplementsSession`): decisions are start messages, what a
host joined is what it ran for, members are the participants `Run` sets up.

### ProcessRun: one host, inside Run

| Model | Code |
|---|---|
| `main` | `Run` itself, then `Stop` |
| `out`, `inb`, `end`, `mon` | `ProcessOutboundMessages`, `ProcessInboundMessages`, `processEndMessage`, `monitorSigning`: each at the select of its loop, in a call, or left |
| `holder`, `offer` | the ECDSA party: whose call is inside it (it has a mutex) and what that call is blocked on sending. The party runs inside `Start` and `UpdateFromBytes` and sends on unbuffered channels from there |
| `UpdatePanics` | a panic under `UpdateFromBytes`, which `ProcessInboundMessages` recovers into an error without a type: before the party takes its mutex, or with it, and then it stays locked (`holder = "panicked"`). A party that has finished only stores what arrives, and does not panic with the mutex |
| `buffered`, `finished`, `aborted` | the FROST handler: its `Listen` channel, whether it closed it, and whether `Result` is an error |
| `errs`, `cancelled`, `Combined` | the `conc` pool: an error cancels the context, several errors have no type (section 2, `PoolUnwraps`) |
| `results` | `resultChn`, of capacity one, shared by both tries |
| `Hung` | `Run` will never return: a goroutine is blocked on a channel nobody serves any more, or on the mutex of a party that panicked |
| `CancelSession`, `RunAgain`, `Stop` | `watchExecution`, the retry of `handleError`, the deferred part of `Execute` |
| `KeygenRun`, ... `FrostResharingRun`; `KeygenStores`, ... `FrostSigningDelivers` | the six `Run` and `processEndMessage` methods |

A hang is what the code does, not an abstraction of it. Example: `Broadcast` fails and
`ProcessOutboundMessages` returns; the party, called by `ProcessInboundMessages`, is
blocked sending its next message to `outChn`; `p.Wait` waits for that goroutine, so
the communication error never gets to `handleError` and `Execute` never returns.

### TssRun: the contract of Run

What `Coordinator.Execute` may rely on when it calls `TssProcess.Run`, without goroutines,
channels and contexts: a nil stands for a result unless the session was cancelled; a
result is delivered once, and into an empty channel; which types an error may have, and
which of them after a delivery; a call that hangs has delivered nothing, and it hangs
only after a failure, a cancellation, or with a first result in `resultChn`; only a
signing that failed in a way `handleError` knows is run again. ProcessRun implements it
(`Contract`, `ImplementsRun`): `Phase` folds the goroutines into one word, `errs` into
`troubled`. TssCoordinator's `RunSucceeds`, `RunErrsLate`, `RunHangs` and the three
actions of `RunFails` are this contract seen from one host of a session.

### BullyElector: one election, every host

| Model | Code |
|---|---|
| `phase`, `chosen` | `Coordinator`, called by `retry`: before and after it stored the sorted list, waiting for `BullyWaitTime`, returned |
| `listener`, `held` | the goroutine `listen`, and the message it is handing over on `receiveChan` |
| `elector`, `electionChan` | the goroutine `startBullyCoordination`: in `elect` or in its loop; the buffered alive message |
| `Index`, `IsPeerIDHigher`, `SetCoordinator` | `isPeerIDHigher` with its index 0 for unlisted peers, `setCoordinator` |
| `net` | a bag of messages, in any order, dropped when nobody is subscribed |
| `Lists` | what `ExcludePeers` may leave of the key holders on a host: the host itself always |
| `steady` | environment: nobody is excluded, nothing is lost, messages are faster than `ElectionWaitTime`, and `BullyWaitTime` outlasts the election. Both values are explored; only `Agreement` depends on it |
| `active` | environment: the hosts whose session is retried at all |

`listen` keeps an alive message if *its own host* ranks above the sender, and alive
messages only come from hosts that rank higher, so none is ever kept
(`NobodyConcedes`, part of the inductive invariant; theorem `EveryElectionProclaims`). Every election therefore lasts `ElectionWaitTime` and every
host calls itself coordinator; the select messages sort it out (`Agreement`).

### Executions: one relayer, every session

| Model | Code |
|---|---|
| `scheme` | whose keys the relayer makes; the schemes differ in where a keygen locks (`LocksLate`: ECDSA's in `Run`, FROST's in the constructor) and in how a signing's constructor may fail |
| `pc[c]` | a handler's goroutine, at the granularity of accesses to shared state |
| `locked`, `holds` | the `sync.Mutex` of the keyshare store; who locked it is history, the mutex does not know |
| `pending` | `pendingProcesses`, read in `CheckPending` and set in `MarkPending`, two steps |
| `file` | the keyshare file: missing, the initial one, written by a call, or truncated |
| `key[c]` | what `GetKeyshare` returned to the call |
| `Sign`, `RoundsFail`, `RunHangs` | the rounds: a result, an error, or a `Run` that never returns (`"hung"`), as ProcessRun shows; neither the reset of `pendingProcesses` nor `Stop` follows, and a keygen or resharing keeps the keyshare mutex |
| `Truncate`, `Write`, `WriteFails` | `StoreKeyshare`: `os.OpenFile(O_TRUNC)`, then the write |
| `Crash` | restart: only `file` survives |
| `fatal` | "unlock of unlocked mutex": the Go runtime ends the process, nothing follows |

The session protocol is `Join` or `JoinFails` here: what TssCoordinator shows in
detail, seen from one host. Only a call in `Lonely` may miss `Run`; the constant
separates the assumption the lock's soundness needs (section 5).

### KeyshareStore: the store without its mutex

What the constructors and `processEndMessage` may rely on: reads and replacements are
atomic, a resharing replaces the keyshare it has read (it compares and swaps), and a
keyshare is lost only while a call stores its own. Executions implements it (`Store`,
`ImplementsStore`) although `StoreKeyshare` truncates first: a replacement takes effect
with the truncation (`StoreNow`), and because the mutex excludes readers until the write
nobody can tell. Keygens replace the keyshare unseen; what their handler reads without
the lock (`ReadForKeygen`) is promised nothing.

### Communication: one sender, one receiver, every session

| Model | Code |
|---|---|
| `call[m]`, `via[m]` | where `sendMessage` of message `m` is, and on which stream |
| `streams`, `stream` | `streamsBySessionID` for the peer, and what becomes of a stream |
| `Stream`, `NewStream`, `AddStream`, `WriteStream` | the calls of `sendMessage`, each with the locking it has |
| `CloseSession`, `Break` | `ReleaseStreams`; a reset connection |
| `subscribers` | `subscribersMap`, keyed by topic (session and message type) and identifier; `Unwrap` refuses the ids of sessions in `Dashed`, and their identifier is `""` |
| `SubscribeTo`, `Leave`, `UnSubscribeFrom` | subscribing, the end of the receive loop, the deferred `UnSubscribe` |
| `ProcessMessage`, `delivering`, `Receive` | `ProcessMessagesFromStream`, the goroutine per channel, the channel receive |

Streams of different peers never share state, so one pair of relayers shows all of it.
`lost`, `latest` and `due` are history variables: `due` holds who relied on a
subscription when the message was written.

### Mailbox: what messages promise

The messages of one relayer to another without streams, subscriptions and goroutines:
unordered, possibly lost, received once at most and only by those they are for, and not
at all if the sender got an error. A receiver is reached from its arrival until it leaves
or a rival takes its place (in a signing session, whose subscriptions share one key, any
later subscriber of the topic is one); while it is reached only a reset connection loses
its messages. Communication implements it (`Abstract`, `ImplementsMailbox`): a message is
in transit while it is on a stream or with the goroutine that hands it over.

### How the modules fit together

Each pair of modules meets in an abstract specification or an invariant that one shows and
the other assumes:

| What | Shown by | Used by |
|---|---|---|
| messages: any order, lost, once at most, to a loop that is subscribed | Communication, `ImplementsMailbox` | `net` of TssCoordinator and of BullyElector |
| what `Run` returns, delivers, and when it hangs | ProcessRun, `ImplementsRun` | `RunSucceeds`, `RunErrsLate`, `RunHangs`, `RunFails` of TssCoordinator; `RoundsFail`, `RunHangs` of Executions |
| whom an election may return | BullyElector, `BelievesProclaimed` | `Elected` of TssCoordinator (any valid peer, host by host) |
| that a session ends on one host | TssCoordinator, `ExecuteReturns` | `Join` and `JoinFails` of Executions |
| what a session promises its callers | TssCoordinator, `ImplementsSession` | the handlers |
| what the keyshare store promises the processes | Executions, `ImplementsStore` | the processes |

What the middle column names is checked or proved; that the right one assumes no more than
that is by inspection.

## 3. What the runs check

| Run | Module | Instance and bounds | Shows |
|---|---|---|---|
| `coord_resharing` | MCTssCoordinator | ECDSA, 3 peers, 2 with a keyshare, a third key holder gone and first in the order, every way `Run` may end or hang, fairness | `NobodyStartsAlone`; `SessionStarts`: however late the others join, the ticker gets the session started on all |
| `coord_signing` | MCTssCoordinator | ECDSA, 2 of 3, communication errors, up to 2 hosts retry | `SubsetVolunteered`, `OneStartPerTry`, `OneSignatureReturned`, the refinement `ImplementsSession` |
| `coord_timeouts` | MCTssCoordinator | FROST, 2 of 3, lost messages, both timers, fairness of timers | `TypeOK`, `NeverOvershoots`, `ExecuteReturns` |
| `coord_retry` | MCTssCoordinator | ECDSA, 2 of 3, communication errors, the watchdog | violation of `RetryReported` |
| `process_run` | MCProcessRun | all six processes, 2 messages each way per try, two tries | `TypeOK`, `NilMeansResult`, `HangsAfterFailure`, `FrostSentAll`, `SecondResult`, `CancelledEnds`, `DeliveredReturns`, `SigningGivesUp`, the refinement `ImplementsRun` |
| `bully_election` | MCBullyElector | 3 hosts steady, or any 2 of them with lists of their own and losses | `TypeOK`, `AliveFindsList`, `BelievesProclaimed`, `HeadNamesItself`, `Agreement`, `ElectionsEnd`, `ForwardedIsHandled` |
| `exec_handlers` | MCExecutions | both schemes, 2 keygens, 1 resharing, 1 signing, disk errors, processes that hang, 1 crash | `LockSound`, `ReadsWhole`, `ResharingKeepsKey`, `PendingOwned`, `HandlersReturn`, the refinement `ImplementsStore` |
| `exec_parallel` | MCExecutions | 1 resharing, 1 signing | violation of `NotInParallel` |
| `exec_unlock` | MCExecutions | 1 keygen with silent peers | violation of `UnlocksMatched` |
| `exec_pending` | MCExecutions | 2 signings of one hash | violation of `OnePerSession` |
| `comm_sessions` | MCCommunication | 3 messages, 3 subscribers, a dashed and an undashed session, 1 close, 1 break | `CurrentIsSubscribed`, `NoneLost`, the refinement `ImplementsMailbox` |
| `comm_unsubscribe` | MCCommunication | as `comm_sessions`, no faults | violation of `UnsubscribedIsGone` |

Why the bounds are enough.

- *Three peers, threshold 1* is the smallest topology in which a signing subset leaves
  somebody out, and it is that of the repository's `topology.json`. The session order
  is fixed (a first): `Rank` is symmetric up to renaming of peers.
- *`MaxRetries`* stops faults, never retries, once that many hosts are in their
  second try. With two, two coordinators of a second try and the stale messages of a
  third host's first try meet, which is where subsets could differ.
- *Faults per run*: `coord_resharing` explores everything that may happen inside `Run`,
  late errors and hangs included, but no loss and no timer, which `SessionStarts` could
  not survive; the errors of a signing are `communication` in one run, with the watchdog
  in `coord_retry`, and losses with the timers in `coord_timeouts`. All of them together
  with retries are beyond TLC here, but not beyond the theorems.
- *No run of keygen's session*: with these callbacks it differs from a resharing in
  `ValidCoordinators` and `StartParams` only; the theorems are about every kind.
- *Two messages each way* (`MaxSends`, `MaxCalls`): one that is handled and one that
  meets a goroutine that has left, on either side; the party's second send is the one a
  failed broadcast blocks.
- *`MaxActive` = 2* hosts in an unsteady election: an election is between a host and those
  above it, and the third host still counts in the lists and in the order. A steady one
  has all three.
- *Two keygens, one resharing, one signing*: a pair of every two kinds that touch the
  lock, and a pair of one kind and session. Two resharings and two signings were
  checked too, with the invariants of the proofs.
- *One crash, one close, one break*: each acts on state that a second one finds as the
  first left it (`Crash` empties all volatile state; a closed session has no stream).
- *Two overlapping initiates and a round message after them*: the two race in
  `AddStream`, the third meets the outcome on another session.

The safety properties of the passing runs are proved for every value of the constants as
well (section 5), so they do not rest on these bounds; those of the lock and the file
need an assumption there, which the runs make too: ECDSA keygens reach `Run`. So are the
four refinements. Not proved, and so bounded, are the liveness properties.

`CHECK_DEADLOCK FALSE` is in every cfg because in each instance everything ends:
`Execute` or `Run` has returned everywhere, or hangs; the requests are served, the
messages are sent.

## 4. Fairness

- `TimerFairness` (TssCoordinator): a watchdog that is armed fires and the elector's
  `BullyWaitTime` ends: both are `time.After` or a ticker. Nothing else is assumed
  for `ExecuteReturns`; messages, peers and processes may be silent for ever.
- `StepFairness` (TssCoordinator): every host is asked to execute, its select loop takes
  what arrives (per sender) and the initiate ticker fires. For `SessionStarts` only, in an
  instance without loss and timers; that a process ends is not assumed.
- `Fairness` (Executions): weak fairness of each call's next step once it is requested.
  Of `sync.Mutex` no more is asked than that a waiter gets it when it stays free, the
  calls being finitely many. The wait for peers ends because `TssTimeout` ends it. The
  rounds end *or hang*, so `HandlersReturn` promises a return to those only whose own `Run`
  does not hang and who do not wait for the mutex of a keygen or resharing that does
  (`Starved`). A request is never forced.
- `Fairness` (ProcessRun): weak fairness of each goroutine: it is scheduled, and its calls
  (Broadcast, tss-lib, StoreKeyshare) return unless blocked on a channel. Strong fairness
  of `MonLeaves` only: a ticker that fires in between disables it, but a select that finds
  its context done again and again takes that branch (Go chooses among ready branches at
  random). Nothing makes a peer send or a party finish.
- `Fairness` (BullyElector): the goroutines are scheduled, `ElectionWaitTime` ends, a message
  that is offered on `receiveChan` to a free goroutine is taken. Messages of the network
  need only arrive in a steady election.
- Communication has no fairness. `NoneLost` is delivery as a safety property: a
  message that is due is always somewhere on its way.

## 5. What is proved

The theorems hold for every value of the constants that satisfies the named
assumptions: any number of peers, any keyshares, thresholds, kinds, bounds and faults;
any calls and crashes; any messages, sessions and subscribers.

**TssCoordinator_proofs**: `Typing`, `Overshoot`, `UniqueStart`, `VolunteersOnly`,
`AllJoined`, `SignatureOnce`. All follow from
`TypeOK /\ Inductive`. None of the properties is inductive as it stands:
`SubsetVolunteered` needs that `ready` holds only peers that answered
(`InitiateConsistent`) and that answers in flight come from peers recorded as having
answered (`NetConsistent`); `OneStartPerTry` needs that the sender of a start message
has left the initiate loop of that try for good (`StartSent`), which is why a stale
start message cannot meet a second one of the same sender and try;
`NobodyStartsAlone` needs the same for the answers behind a start message
(`StartBacked`). `NeverOvershoots` holds because answers are counted one message at a
time and `Collecting` is re-established after each. `SignatureOnce` is not the
conclusion one would expect: signatures may be produced under several coordinators, but
`Execute` returns nil only in a first try, and all first tries follow one static
coordinator.

`SessionRefined` states that TssCoordinator implements TssSession: initial states map to
initial states, and each action is a `Join` (a `Run` that is accepted), a `Deliver`, a
`GiveUp` or a stutter. It uses that a running host has not returned and works for a
decision it joined (`RunConsistent`), `OneStartPerTry` in the next state for `Join`, and
`OneSignatureReturned` in the next state for `Deliver`.

**ProcessRun_proofs**: `RunTypes`, `NilIsResult`, `FrostSendsFirst`, `SecondResultIsEcdsa`,
`UndisturbedDoesNotHang`, the action property `HangsForGood`, and `RunRefined`. `Inductive` says where
the goroutines are while `Run` is where it is (`Goroutines`), who is inside the party
(`Calls`), why a context is done (`Contexts`: an error, a result, or the session's
cancellation), what a result implies (`Results`) and in which order a FROST process
ends (`FrostOrder`). `NilIsResult` follows from `Contexts`: when all goroutines have left,
the first of them left with an error, with a result, or because of a cancellation.

`RunRefined` states that ProcessRun implements TssRun. What the goroutines do is hidden:
a step of theirs is a `Deliver`, a `Trouble`, a `Hang` or a stutter (`InnerRefines`), and
each of these lemmas shows which part of the contract it keeps. Two facts of their own
are needed: a `Run` that hangs does so for good, whatever the others do (`HungStays`), so
that "hung" is a phase that is never left; and of a `Run` that has returned only an ECDSA
process whose start failed has a goroutine that may still deliver (`Leavings`).

**BullyElector_proofs**: `ElectionTypes`, `ListBeforeAlive`,
`EveryElectionProclaims`, `OnlyProclaimedElected`, `HeadIsNotOverruled`, `ElectionsAgree`. `Consistent` adds
what a message under way says of its sender and receiver (`MessageBacked`): an alive
message answers an election message of its receiver, which sent it to a higher peer of
its own list, so that the receiver's list is set and ranks the sender above it. From this
the test in `listen` is false for every alive message there is.

`ElectionsAgree` is about steady elections, with any number of hosts of which any
subset takes part. `SteadyPart` is the argument: let `h` be the first active host in the
session order. It always believes in itself, since nobody sends it a select message it
would follow. Every other active host that does not believe in `h`, or is about to elect
and so to name itself again, is still going to hear from it: `h` is at an election or has
been asked for one (`Elects`), or its select message is under way (`Convinced`). When
`BullyWaitTime` is over nothing of that is left, so every belief is `h`; and as nothing
moves any more (`Quiet`), those who return later return the same.

**Executions_proofs**: `MutexSound`, `NoFatalUnlock`, `WholeReads`, `KeyKept`,
`PendingReleased`, `StoreRefined`. All but `PendingReleased` are relative to the assumption that no ECDSA keygen is
`Lonely` (`KeygensRun`), written into each statement: `Stop` of a keygen unlocks the mutex that only
its `Run` locks, and the run `exec_unlock` shows what happens otherwise.
`Inductive` says where exactly a call is inside the mutex (`LockPart`), what a torn
file means (`FilePart`) and that each pending session has an executing call. The
last part holds without the assumption (`PendingReleased`), whatever races
`exec_pending` shows: the call whose mark is in the map has not cleared it.

`StoreRefined` states that Executions implements KeyshareStore. There is one writer at most,
and whoever is inside the mutex without writing finds the store settled
(`OneWriter`, `SettledInside`); with `ResharingKeepsKey` the truncation of a resharing is
a compare and swap (`TruncateRefines`), and because a file that is being written is torn
(`FilePart`) a failed write and a crash lose it and nothing else.

**Communication_proofs**: `LeaksExplained`, `SubscriptionsHold`, `NoneTwice`,
`DueArrives`, `MailboxKept`. `Inductive` adds to them that a channel is stored under no other
subscription's identifier (`Keyed`), that a stream not opened yet is used and
registered by nobody (`Unopened`), that an unwritten message is nowhere (`Written`)
and that a message is in one place of one stream (`OnePlace`), and that what is subscribed
listens to the topic it is found under (`Addressed`).

`MailboxKept` states that Communication implements Mailbox, action by action
(`SendRefines`, `WriteRefines`, `ReadRefines`, `BreakRefines`, `ListenRefines`,
`TakeRefines`, `CloseRefines`). The heart of it is what may leave `InTransit`: by a
receive, by a reset of the connection, or by a message that finds no current
subscriber, and `Addressed` and `Keyed` show that a reached receiver is among
those it finds.

TLC checked `Inductive` and `TypeOK` on the instances before they were proved.

Only model-checked: the liveness properties `SessionStarts`, `ExecuteReturns`,
`HandlersReturn`, `CancelledEnds`, `DeliveredReturns`, `SigningGivesUp`, `ElectionsEnd` and
`ForwardedIsHandled` (liveness under fairness is out of the prover's reach), and the five
violations.

## 6. Where code and documentation disagree

1. **`exec_parallel`.** `NewSigning` unlocks the keyshare once it has read it
   (`tss_util/tss/ecdsa/signing/signing.go:53`); `tss_util/keyshare/ecdsa.go:43` says the lock keeps
   keygen and resharing from running in parallel with other tss processes. A signing is
   at its rounds while a resharing replaces the keyshares.
2. **`exec_unlock`.** `Keygen.Stop` unlocks what only `Run` locks
   (`tss_util/tss/ecdsa/keygen/keygen.go:110`). A keygen that times out before the session starts
   unlocks an unlocked `sync.Mutex`, which ends the relayer, or takes the lock from a
   resharing that holds it. `Test_KeygenTimeout` expects an error; it mocks the store.
3. **`exec_pending`.** `Execute` reads `pendingProcesses` outside the lock and before it
   sets it (`tss_util/tss/coordinator.go:76`): two requests for one hash both execute, where
   `Test_PendingProcessExists` expects the second to be refused.
4. **`comm_unsubscribe`.** `Unwrap` (`tss_util/comm/subID.go:48`) wants three parts between dashes; the id
   of a signing session contains dashes, so `UnSubscribe` does nothing and its channels
   stay subscribed for ever. `NoneLost` shows the other side: because later
   subscriptions replace earlier ones under the same key, messages still arrive.
5. **`coord_retry`.** A retry "starts a new tss process after an expected error"
   (`tss_util/tss/coordinator.go:213-214`), but a retry that succeeds is never reported as a
   success: `handleError` starts a watchdog in the pool of the retry (line 131), which
   nothing cancels when the retry ends without an error, as `Execute` does for the first
   try (lines 106-108). `rp.Wait` (line 169) therefore returns at `TssTimeout`, with the
   watchdog's error, for a signature that was delivered.

Three further disagreements have no run of their own. In each the code does something
definite, for every value of the constants, and a theorem says what:

- `CloseSession` "closes and removes all streams for that session"
  (`tss_util/comm/communication.go:20`). It does so for the streams that are registered.
  `LeaksExplained` accounts for the others: the loser of an `AddStream` race is used once and
  stays open for ever, and a stream registered after the last `CloseSession` of its session
  stays open until the same id is closed again.
- `listen` is to "check if peer that sent alive msg has higher order"
  (`tss_util/comm/elector/bully.go:92`). The test has its arguments the other way round, and by
  `EveryElectionProclaims` no alive message ever passes it.
- `ProcessOutboundMessages` "On context cancel stops listening to channel and exits"
  (`tss_util/tss/ecdsa/common/base.go:83`, `tss_util/tss/frost/common/base.go:67`). FROST's blocks
  on `Done` with its context done; and of either scheme `HangsForGood` shows that a `Run`
  which hangs is not freed by a cancellation, before or after it hung.

## 7. What is not modelled, and why

- **tss-lib and multi-party-sig.** Their rounds are external: a party may send messages and
  may end, at any time, as the code in `src/` uses it. What the rounds compute, the
  party ids they need (`sortParties`) and the derivation tweak are left out.
- **What is one step in the models.** A message is written and read whole (a message
  larger than the `bufio` buffer is flushed in parts). Subscription ids do not
  collide. Session hashes do not collide (`RankAssumption`).
- **Data races.** The unsynchronised read of `pendingProcesses` is a read of a
  stale or current value (`CheckPending`), or ends the relayer (`Crash`).
- **Ping, ping response and leave messages** of the bully elector: nothing in `src/` sends
  them, so the branches that receive them are dead.
- **FROST resharing after a key holder has left** is modelled (`Scheme`) and covered by the
  theorems, not by a run: if the departed host comes first in the session order,
  everybody waits for it until `CoordinatorTimeout`, and there is nothing more to explore.
- **A result after an error.** TssRun lets an ECDSA process whose start failed deliver
  after it returned, because its goroutines run on and nothing in `src/` keeps tss-lib from
  ending; TssCoordinator has the delivery no later than the return, and in
  Executions a call whose rounds failed stores nothing afterwards, with or without the lock.
- **The reason of a hang in TssCoordinator and in Executions.** `RunHangs` may happen to any
  running host if `"hang" \in Faults`, and to any call at its rounds; which interleavings
  lead there is ProcessRun's subject.
- **Panics in tss-lib.** Where they happen is assumed: while a message is examined, or while
  the party works on it with its mutex; and not once the party has finished. A panic in
  any goroutine that does not recover ends the relayer (`Crash` of Executions).
- **Topology, startup, configuration.** Sequential, and over before the first session; what
  `ProcessRawTopology` checks is in the assumptions of TssCoordinator. The rewriting of
  the topology file at the first start is listed as a hazard.
- **Connection gate, host, health, metrics, prop store, logging, CLI, mocks.** Filters,
  construction, observation, I/O and test code; no state the sessions depend on.

## 8. Plan

Done, in this order: TssCoordinator (the protocol everything else serves), Executions
(the shared state of one relayer), Communication (what the protocol's messages may do),
BullyElector (the retry's election), ProcessRun (what `Run` returns, and when), TssSession
and the refinement, the FROST processes in all of them; each with its proofs. Then the
agreement of elections for any number of hosts, and the contracts between the modules,
TssRun, Mailbox and KeyshareStore, with the proofs that they are kept.

Next, the most important first:

1. **Composition**: TssCoordinator over Mailbox and TssRun themselves, so that the
   assumptions of its `net` and `Run` actions are instances instead of prose, and its
   retry with BullyElector in place of `Elected`.
2. **Pure operators**: lemmas about `FirstInSession` and `StartParams` (independence of the
   host that computes them).
3. **Startup**: the topology file of relayers that share a path, with crashes.
