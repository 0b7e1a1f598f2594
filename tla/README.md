# AuroraVPN: TLA+ models, checks and proofs

AuroraVPN is an Android VPN client. A Kotlin service owns the session; a Rust
engine (Aether) behind a JNI bridge carries it, or Psiphon or Tor do from
processes of their own; mihomo, a Go library, turns the VPN interface into
connections through whichever carrier is up. This directory models the parts
that decide who runs, who is stopped and what is left behind, checks them with
TLC and proves every safety property of those runs with TLAPS, for instances of
any size. The
repository also carries the quiche QUIC library with four C programs that drive
it, a server and a client for QUIC and for HTTP/3; their event loops are
modelled too.

Source paths below are relative to `src/`; `AetherVpnService.kt` is
`app/src/main/java/com/whitedns/whiteaesther/service/AetherVpnService.kt` and
`lib.rs` is `native/android-bridge/src/lib.rs`; `server.c`, `client.c`,
`http3-server.c` and `http3-client.c` are in
`native/aether/quiche/quiche/examples`.

## Inventory

| Part | State | Operations | What is hard |
|---|---|---|---|
| JNI bridge (`lib.rs`) | one stop-sender slot, four atomic flags, the process environment, a log buffer, the socket protector | prepare, provision, scan, test, cancelPrepare, cancelScan, run, stop, setSocketProtector, drainLog | any Kotlin thread may be inside any of them; every check is a separate atomic access |
| TUN pump (`tun.rs`) | two threads, two bounded queues, the descriptor and its duplicate | start, stop | joining threads that may be blocked on a full queue |
| VPN service (`AetherVpnService.kt`) | session job, generation, retry count, hop attempt and watchers, carriers, command mutex, protector, blocking interface, the request and its copy on disk | start, stop, revoke, restart without intent, lift block, destroy; sessions by engine, exit chain, direct chain, one or two carriers | coroutines that outlive the session they belong to; blocking calls that cannot be cancelled; process death |
| Automatic search (same file) | plan, step, leash token, race id, losers | plan, step, race, leash, roam | races between carriers with head starts; engines left behind |
| Planner and memory (`data/AutoRoute.kt`) | what worked on which network | plan, remember | pure, but order and bounds matter |
| Carrier clients (`core/*Client.kt`) | a snapshot per carrier, a binder connection | start, stop | the other process dies; a stop during a start |
| Carrier processes | Psiphon or tor | start, stop, report | their own retries and deadlines |
| Exit chain (`core/ChainController.kt`) | mihomo's configuration and interface | start, startCarrier, stop, nodes | long Go calls; who owns the descriptor |
| QUIC programs (`server.c`, `client.c`) | the server's table of connections and their timers; the client's connection, token and request | recv_cb, timeout_cb, flush_egress, mint_token, validate_token, create_conn | lost, repeated and late datagrams; a client whose address changes; calls that fail in the middle of a pass; timers of freed entries |
| HTTP/3 programs (`http3-server.c`, `http3-client.c`) | the same, and an HTTP/3 connection on top | the same, and the HTTP/3 events | the same; results nobody looks at; a pointer used before it is made |
| quiche (`quiche/src`) | one connection: phase, handshake, what is unsent and unacknowledged, deadlines | connect, accept, recv, send, close, on_timeout | vendored; seen through `quiche.h` |
| Rust engine (`native/aether/aether`) | transports, identity, endpoint search | prepare, run, scan, provision | 28,000 lines of protocol |
| Settings, screens, tile, meter, log | user data, display | | no lifecycle |

The service calls the bridge and the chain controller from coroutines on
`Dispatchers.IO`, hears from the engine through a callback on the engine's
thread, and from carriers through state flows it collects on the main thread.
`PROJECT.json` lists each part with its status, and each hazard at its line.

What makes each part correct:

* bridge: preparations exclude one another, scans too; every engine can be
  stopped; the slot is never left to a call that has returned; a cancel and a
  stop are heard;
* service: one attempt at a time; a stop finishes and stays; a start is never
  stuck behind the session it replaces; retries end; a path that lost a hop is
  noticed; the kill switch survives a restart and holds; nothing the user ended
  comes back; no interface is left open and no live session loses its socket
  protector;
* search: one session of one search (but see the winner that is lost early, below),
  always driven, and it ends; a race ends, its winner is kept and its losers are
  stopped; a late lane changes nothing;
* pump: packets in order; every copy of the descriptor closed when it is over;
  neither join waits for ever;
* QUIC and HTTP/3 programs: for a client that sends what a Retry gave it, no state
  but for the address that Retry went to; no timer without its connection; a late
  packet undoes nothing; every run of a client and every entry of a server ends.

## Modules

* `NativeBridge` models `lib.rs`. A call is the thread inside it; `pc` says how
  far it is and `call` which entry point it is in. One atomic load, store, swap
  or lock region is one action; what lies between them touches no shared state.
  `slot` is `STOP_SENDER`, named by the run whose sender it holds. Sending and
  dropping a sender both resolve the receiver and `nativeRun`'s `select!` takes
  either for a stop, so there is one `stopped` flag per run. Parsing and the
  engine's work are choices between success and failure. `promised` is a
  history variable: the preparations a cancel has answered TRUE for. A panic is
  not modelled: the release profile aborts.
* `EngineSlot` is the abstract specification of what the bridge promises about
  engines: one is live at most, it starts only while none is, what was told to
  stop only goes. `NativeBridge!ImplementsEngineSlot` maps the bridge's state to
  it: `live` are the runs between taking the slot and being told to stop,
  `ending` (`Ending`) the ones after that which have not returned. That an
  engine which goes may take a live one with it is part of the promise, because
  the code does no better.
* `NativeBridgeProofs` holds the inductive invariants, the theorems and the
  refinement proof.
* `TunPump` models `tun.rs` with the order in which `nativeRun` drops the runtime
  and stops the pump. Packets are numbered as the device or the engine gives
  them out; `device` and `tunnel` are the two queues, `fds` the open copies of
  the descriptor. The engine at the other end of the queues is external.
  `TunPumpProofs` has its theorems.
* `VpnService` models the sessions a user configures by hand. Each session
  coroutine is a slot with a label (`pc`), a route (`via`), its interface, its
  engine run and its carrier clients. Details:
  * All coroutines run on `Dispatchers.Main.immediate`, so what happens between
    two suspension points is one action. A launched session runs in place up to
    its first suspension (label `begin`), and the next holder of the command
    lock goes in the turn that released it; `Turn` keeps everything else out.
  * Code asks only whether a session's generation equals the current one, so
    the model keeps `fresh[s]` and no number. Delays and watchers of an older
    generation do nothing when they wake and are dropped when it moves on.
  * The carrier fields are written when the command arrives and the
    configuration when `replaceSession` has the lock, as in the code, so two
    quick starts can mix the two (`RouteOf`; a carrier with proxy mode is the
    `misfit` the session refuses).
  * `engine[s]` is a `nativeRun`: launched (dispatched, not yet stoppable),
    running (its sender is in the slot), ready (the same, and it has called
    `onNativeReady`), halted and over (the two of them told to stop). The ready
    call comes once, from the engine's own thread, and may still arrive when
    `nativeStop` has taken the slot or the session is gone (`ReportsReady`); it then
    reports connected all the same. Every way out of `nativeRun` takes the slot, also
    another run's: `Returned`. Of the calls a cancelled session is left in only
    `nativeRun` does that (`DyingEnds`). The run below an exit chain is a coroutine
    of its own and may outlive its session.
  * `onRevoke` is a stop after which `super.onRevoke()` calls `stopSelf` at once, so
    `StopCommand` may leave the service closing before the session has ended. A
    refusal of a directly dialled chain comes after the protector was installed,
    and leaves it (`BeginRefused`).
  * `saved` is what is on disk; `wanted` and `asked` are history: the user's
    last word, and the kill switch that came with it.
* `AutoSearch` models the service with Automatic on: which step a session takes,
  the leash of an engine step, what follows a failure, relaunches, passes, the
  wait for a network, roaming and the engines a step leaves behind. `jobs` are
  session coroutines and the lanes a race left; `fresh` stands for the
  generation as in `VpnService`; of the leashes only the one whose token is
  current is kept, and of the relaunches only those that will find their
  generation unchanged, because the others do nothing when they wake. A race is
  one label here, and handing the interface to mihomo (`chain`, from `RaceWon` to
  `ChainUp` or `ChainFails`) another: the winner is watched from before it
  (`AetherVpnService.kt` 1623), so `CarrierLost` may come in the middle. `hops` names
  the session whose winner is watched and not yet reported lost; a client that was
  stopped after its loss was claimed reports nothing more. A session cancelled in a
  blocking call is marked `cancelled` and runs nothing once it returns (`Unwinds`).
* `AutoRace` is the inside of that label: `raceLanes` and `tryRoute`, the clients'
  start and stop, the one engine slot below them. Completing the winner resumes
  the race on the same main thread, so a win and its clean-up are one action; a
  lane inside the blocking `prepare` is `blocked` after that and returns on its
  own. `left` is the engine of an earlier step that `staleEngine` names.
* `Quiche` is one connection as the programs see it, a record with operators for
  the library's calls. A packet is the set of frames it carries; only the order
  of deadlines is kept. A packet with a long header is on the active path whatever
  address it comes from, and only one with a short header can move that path
  (`Migrated`). An error of `quiche_conn_recv` on a packet the connection has keys for
  closes it (`Rejects`, `ServerRejects`). Path validation and which handshake a key is
  from are left out.
* `QuicHost` is what the programs run on, all of it external: a network that
  loses, duplicates and reorders, calls that fail, libev's timer (a repeat of
  zero stops it), uthash tables.
* `QuicExchange` is `server.c` and `client.c`, `Http3Exchange` the two HTTP/3
  programs, each over `QuicHost`. A callback that reads is `reading` from its
  first datagram to its last, one datagram an action; the flush, the timer and
  the freeing at its end are one action, as in the code. A failing call takes
  its own way out (`ServerReadFails`, `Malformed`, `ClientReturns`, ...). A timer that
  an earlier flush left may fire before any deadline has passed, which quiche takes
  for nothing (`ServerTimerEarly` and its like).
  The tokens in the model are those a Retry gave to a client, and clients send no
  others, as quiche's do not. That is an assumption about the clients:
  `validate_token` (`server.c` 135-161) compares a constant and the address and
  authenticates nothing, and `server.rs` (396-397, 419-420) says of its twin that it
  is only an example. What a sender that makes up its own tokens can do is not modelled.
* `VpnServiceProofs`, `AutoSearchProofs`, `AutoRaceProofs`, `QuicExchangeProofs` and
  `Http3ExchangeProofs` have the theorems of the modules they are named after;
  `QuicHostProofs` the lemmas the last two share, about the network, the flush and
  the tables.
* `MCAutoSearch` and `MCAutoRace` give TLC the plans and the lanes, and
  `MCVpnService` gives the sets of requests and kill switches for TLC; the other
  modules need no more than their `.cfg`. Slots are symmetric in the safety runs; no
  symmetry is used where liveness is checked.

Operators named as mutants (their comments begin "Mutant") are the plausible
bugs the checks are tried against; no specification uses them.

## What the runs show

Passing runs:

| Run | Bounds | Result |
|---|---|---|
| `bridge` | 2 threads, fair | the bridge implements `EngineSlot`; `PreparationsExclude`, `ScansExclude`, `EnginesReachable`, `SlotIsLive`; a cancelled preparation ends, a stopped run returns |
| `vpn_engine` | 2 sessions, 1 retry | proxy, engine and chain: `OneAttempt`, `KillSwitchSurvives`, `NothingToResurrect` |
| `vpn_carrier` | 2 sessions, 1 retry, 1 queued start | two hops and the direct chain: `ParkedIsCancellable`, `DeadPathNoticed` |
| `vpn_settles` | 2 sessions, 1 retry, fair | engine and carrier: `Settles`, `StopCompletes` |
| `auto_search` | 3 coroutines, 2 passes, 2 outside events, 2 plans (a race; the engine, then a race), fair | `OneSession`, `NeverStranded`, `SearchEnds` |
| `auto_race` | 3 lanes, 6 routes, 3 of them the engine, fair | `LosersStopped`, `WinnerKept`, `SomeLaneRuns`, `SettledForGood`, `RaceSettles` |
| `tun_pump` | queues of 2, 4 packets each way, fair | `DeviceInOrder`, `TunnelInOrder`, `ClosedOnReturn`, `StopReturns`, `FailedStartReturns` |
| `quic` | 1 client run, 2 Retries, 2 datagrams in flight, 1 duplicate, 1 rebinding, 1 fault, fair | `EntryFromRetry`, `TimersOwned`, `OneConnectionPerRun`, `EstablishedIsKept`, `ClientRunEnds`, `EntriesGo` |
| `http3` | the same | `PolledIsMade`, `PeerEndsAtLast`, `EntriesGo` |

Runs that are expected to find a violation, each of a statement the repository
itself makes (quoted in `PROJECT.json` under `findings`):

| Run | What happens |
|---|---|
| `bridge_cancel_lost` | a cancel between the swap and the reset of a preparation answers TRUE and is wiped |
| `vpn_replace` | the session being joined parks after the decision not to cancel it |
| `http3_reply_address` | the handshake has ended, the client's address changes and its request arrives from the new one: the path moves there, and `http3-server.c` goes on answering the old one; `server.c` sends to the address quiche names |

What the conditional properties leave open is part of what they say.
`ClientRunEnds`, `PeerEndsAtLast` and both `EntriesGo` except a client or an
entry that waits without a timer: a `sendto` that fails in the very first flush,
a timeout of zero, or, for an entry, a pass that was cut short, leaves it so, and
only the next datagram helps. `FailedStartReturns` excepts a reader that has
already filled the queue when the writer cannot be spawned: nobody will read
from it, and the join waits for ever. `Settles` is about sessions without an
exit chain: below one that keeps failing, each time the engine comes up the
retry count starts again and the service never gives up. `NothingToResurrect` is
about stopping and giving up: a session that was refused (no permission, no socket
protection, no interface) leaves what is on disk and counts as still wanted.
`PolledIsMade` is about polling: that `http3-client.c` 466 frees a pointer which was
never made, if no handshake ended, is outside it.

`OneSession` has one exception, `hops.crossed`. A race's winner is watched while
`chain.startCarrier` runs. If it is lost there, its watcher claims the collapse,
takes the step and schedules a relaunch (`AetherVpnService.kt` 1003-1010) while the
session is still under way. If `startCarrier` then fails, the session claims the
collapse again, without asking (1641), and schedules a second (1645); if it
succeeds the session reports connected and parks on a winner that is gone, until
the relaunch replaces it. Both relaunches fire, because neither starts a new
generation, and the step is counted twice. `NeverStranded` and `SearchEnds` hold
through all of it, without the exception.

The models reach more that a reader may not expect (the hazards of `PROJECT.json`
say where for those that bite hardest): a second engine starting while a stopped one winds
down, a refused run stopping the live one, two reconnects scheduled for one
failing path, an interface left open when mihomo refuses its configuration, a
late stop clearing the protector of a new session, a late connection or a late
ready call lifting the strict block, a hand-over that returns after the search
gave up and reports connected, a start that was waiting connecting after a strict stop, a replaced
session stopping its successor's carriers or marking it as cancellable, a
descriptor left open by a run that fails early, and an engine that starts after
its race is over.

### Bounds, and why they are enough

* Two threads at the bridge: one to hold a flag or a slot, be cancelled or
  stopped, and one to interfere. For safety the proofs remove this bound.
* Two session slots in `VpnService`: the one being replaced and its successor. A
  slot is reused once its coroutine and its engine have ended, so histories of
  any length are reached. `AutoSearch` has three places, for an engine left
  behind, a session that waits for it or was replaced, and the current one.
* `MaxRetries` stands for `MAX_RECONNECT_ATTEMPTS` (8). One retry already
  separates first attempt, retry and giving up; nothing else depends on the
  count. `MaxPasses` is `MAX_AUTO_PASSES`, two as in the code.
* `MaxQueued` is the number of start commands waiting for the lock; one is
  enough for a configuration to meet another command's carriers. `MaxTimers`
  counts pending reconnect delays; two tells "one" from "more".
* `MaxEvents` counts starts, roams and lost connections of a search together: two
  let a command or a network change meet a search already disturbed by one.
* Lanes: the engine's first three rungs, Psiphon, and two ways into Tor, in the
  planner's arrangement. A third rung is needed for one to be passed over with
  another still to come; the others have a lane with one route and one with more.
* Queues of two with four packets: full, empty and between, more packets than
  places.
* QUIC: a second Retry is needed for an Initial or a Retry to be late; one
  duplicate and one rebinding meet each other and every step; two datagrams in
  flight suffice for reordering; one fault at a time, at any call. One probe
  separates "is sent again" from "gives up". The connection ids of Retries are
  numbered, and those beyond the bound are lost.
* Requests and kill switches come from small sets per run, so that each run has
  the routes its question is about.

`CHECK_DEADLOCK FALSE` is set for the search, the race, the pump and the QUIC
programs: a race that is over, a pump that has returned and programs whose
network is quiet may really stop.

### Fairness

`NativeBridge!Fairness` is weak fairness of the steps a native thread takes on
its own. The engine's work, the ready signal and the callers are not assumed to
do anything.

`VpnService!FairSpec` assumes that a call with a deadline returns: a carrier's
start (`PSIPHON_WAIT_MS`, tor's bootstrap timeout), the wait for the engine
below a chain (`TUNNEL_WAIT_MS`), the engine's own start, mihomo's calls; and
that an engine told to stop returns, which is the bridge's `StoppedRunReturns`.
A running engine is not assumed to return. Delays fire and watchers run. The
command coroutines get strong fairness, because what is posted to the main
thread is taken in order and a ready coroutine stays ready while other turns
come and go. Stops, starts, process deaths and failing hops have no fairness.

`AutoSearch!Fairness` and `AutoRace!FairSpec` assume the same of what has a budget:
sessions' steps, lanes, the leash and its grace, delays, what is posted to the
main thread, a preparation that was cancelled. An engine that was told to stop
or has not come up returns in the end; one that is up need not. No route is
assumed to work and no network to come.

`TunPump!Fairness`: the three threads run; neither engine nor device is assumed
to move a packet, and a write has to come back only once the pump is cancelled.

`QuicExchange!FairSpec` and `Http3Exchange!FairSpec`: a callback runs to its end
and an active timer fires, as libev's loop does. Nothing is assumed to arrive.

## What is proved

Every invariant, action property and refinement the passing runs check is also a
theorem, for every value of the constants their assumptions allow. One has a
hypothesis of its own (`OneAttempt`, below). Each proof has one step per action.

`NativeBridgeProofs` proves, for every set of threads (assuming only that
`NoThread` is not one of them):

* `TypeCorrect`: `Spec => []TypeOK`;
* `PreparationMutualExclusion` and `ScanMutualExclusion`: at most one holder,
  and the flag says exactly whether there is one;
* `EveryEngineReachable`: an engine's sender is in the slot or its receiver has
  resolved;
* `SlotNeverOutlivesItsRun`: the slot holds the sender of a run that has not
  returned;
* `BridgeImplementsEngineSlot`: `Spec => ImplementsEngineSlot`. Every action is a
  step of `EngineSlot` or leaves its state alone, and so one engine at most has not
  been told to stop: two would need the one slot. It rests on the theorems above
  and on `Unstarted`: a thread that has not got as far as an engine has not been
  told to stop, so that installing a sender makes a live engine and nothing else.

`TypeOK` is the strengthening the others rest on: beside the types it says
through which labels each entry point passes, so that a step of a preparation
cannot be one of a scan or a run. Relative to it each property is inductive. A
flag is raised only by a swap that found it down and lowered only by its
holder's guard. A run enters the region from `attach` to `up` only by putting its
sender into an empty slot, and whoever takes the slot resolves the receiver of
the run it names. Every way out of a run takes the slot, so none leaves its
sender behind.

`TunPumpProofs` proves, for every queue length and number of packets:

* `NothingLeftBehind`: `Spec => []ClosedOnReturn`. The invariant is `Owned`: each
  copy of the descriptor belongs to one thread until that is done, and the call
  is past a join only if the thread joined is done;
* `PacketsInOrder` and `TunnelKeepsOrder`: `TypeOK`, `DeviceInOrder` and
  `TunnelInOrder`. They are inductive together; `QueueEnds` says what appending to
  and taking from a queue of consecutive numbers leaves.

`VpnServiceProofs` proves, for any number of sessions, requests, switches, retries
and queued starts:

* `ServiceTyped`, `ParkedCanBeCancelled`, `KillSwitchIsKept`,
  `OnlyTheWantedIsSaved` and `DeadPathsAreNoticed`, from one invariant, `Inv`. Beside
  the types it says: that no command waits for a service that is not there
  (`NobodyWaits`); that a session is only at labels its route has (`RouteFits`);
  that the switch in memory is the one asked for, and what is on disk has it and is wanted (`Wishes`); that a
  path of one carrier has no second client (`SecondUnused`); and that the current
  path holds the attempt, each hop of it is watched from when it is up, and a
  collapse that was claimed has a retry pending (`PathWatched`). `DeadPathNoticed`
  is not inductive without the last two: the next failure of a hop would find it
  unwatched, or the marker of another path.
* `OneFailureOneRetry`: `OneAttempt`, when no request has carriers (`NoCarriers`,
  as in the run that checks it). With carriers it is false: a second hop that
  cannot be opened schedules a retry without claiming the collapse
  (`AetherVpnService.kt` 1155, unlike 1203), the watcher of the first hop claims it
  when that hop stops and schedules another, and `replaceParkedSession` starts no new
  generation for either to be outdated by. Its invariant adds `EngineOnly`, that
  nothing is on a carrier's route, and `Alone`, that what is under way is the job and
  excludes a delay.

`AutoSearchProofs` proves, for any number of sessions and lanes, any plans that
have a step, any number of passes and events:

* `SearchTyped`; `OneSearch`, that is `OneSession`; `SearchIsDriven`, that is
  `NeverStranded`. Until a watcher crosses its session (`Uncrossed`), a session of the
  current generation is the job, a relaunch is pending beside it only if it is
  parked, and from its race on it can be cancelled (`Alone`): a relaunch would
  otherwise begin a session beside one that goes on. And a winner that is watched is
  that of a session which is still there, with no relaunch pending (`WatchedThere`),
  so that its loss may schedule one. While a command joins the old job nothing is
  current, pending, watched or leashed (`JoinIsAlone`), and the leash may therefore
  schedule without looking. A search that is on has a step to take at its index or
  none at all (`InPlan`): without it a session would find no step and end with nobody
  to follow it. `NeverStranded` is a part of the invariant itself, crossed or not.

`AutoRaceProofs` proves, for any lanes of any number of routes, provided a route is
in one lane only (`RaceAssumption`; `AutoPlanner.plan` groups the routes by
carrier, one lane each):

* `RaceTyped`, `LosersAreStopped`, `WinnerIsKept`, `LanesTakeTurns`, and `SettledOnce`,
  an action property. While the race is on, what is alive is in flight and what is
  in flight is what one lane tries (`Running`); once it is settled nothing is, and
  a lane is over or blocked (`Settled`).

`QuicExchangeProofs` proves, for any clients and addresses and any bound on
losses, duplicates, rebindings and faults (`QuicAssumption`: clients, connection
ids and the server's address are told apart):

* `ExchangeTyped`, `EntriesComeFromRetries`, `TimersHaveOwners`, `OneEntryPerRun`, and
  `EstablishedStays`, an action property. `EntriesComeFromRetries` and `OneEntryPerRun` are about
  clients that send only the tokens they were given, which the model's clients do
  and no code of the server enforces. A client has at most one token, for good, and
  the invariant follows it: from the Retry it came in through, over the Initials
  that carry it (`SoundDatagram`), to the entry they make (`SoundEntry`, kept by
  `ReceivedSound` and `FlushedSound`). Two entries of one run would both be for that
  token.

`Http3ExchangeProofs` proves, under the same assumptions, `Http3Typed`, which says too
that the timers that run are those of entries in the table, and
`PollsOnlyTheMade`: that `PolledIsMade` holds follows from a client having made its
HTTP/3 connection before it sends a request, and polling only then.

Each of these invariants was checked by TLC before it was proved.

Only model-checked: what is said of every run to its end, `CancelledPreparationEnds`,
`StoppedRunReturns`, `Settles`, `StopCompletes`, `SearchEnds`, `RaceSettles`,
`StopReturns`, `FailedStartReturns`, `ClientRunEnds`, `PeerEndsAtLast` and both
`EntriesGo`. They need fairness, which is outside what the prover does.

## Not modelled

* The order in which the planner offers routes and what it remembers; the engine
  as a hop of a carrier path the user configured; the carrier processes and the
  messenger protocol they are reached by.
* `stopFromUser` during an automatic search beyond the replacement it begins with
  (`AutoRace!Replaced`); in `VpnService` it is modelled whole.
* A second stop while one is finishing, and `ACTION_LIFT_BLOCK` without a block:
  both repeat what is modelled.
* A dispatched run that has not taken its slot when the service is destroyed
  while its process lives on: `Destroy` forgets it with the rest.
* The process environment every bridge call rewrites, status text,
  notifications, logs, meters and the layout of settings.
* The Rust engine's transports, and of quiche what lies below the calls the
  programs make (packet protection, flow and congestion control, the TLS
  stack): protocol code of a size and kind for other tools.

## Plan

Done: the bridge with its abstract specification; sessions configured by hand;
the pump; the automatic search and its race; the QUIC and HTTP/3 programs; and
the proofs of all their safety properties. Left, in this order:

1. An abstract specification of a race, which `AutoRace` implements, to stand for
   the one label `AutoSearch` makes of it; one of a single session's service for
   `VpnService`.
2. The planner and the memory as operators, checked against reference definitions
   over bounded inputs; the transport ladder and the reconnect delay likewise.
3. The carrier clients' binder, messenger and process death.

## Running

In this directory: `tlc -config VpnService_engine.cfg MCVpnService`,
`tlc -config NativeBridge_bridge.cfg NativeBridge` and so on, one `.cfg` per
run as `PROJECT.json` lists them; `tlapm NativeBridgeProofs.tla` and so on, one
`Proofs` module after the other, for the proofs.
