# TLA+ verification of sing-box-lx

sing-box-lx is a fork of the sing-box proxy platform with a control daemon (lxd), several
balancing modes of the `urltest` group, a group DNS server and more transports. This
directory holds TLA+ models of the parts of it in which concurrency, crashes, time-outs and
long histories matter, TLC configurations that check them on small instances, and TLAPS
proofs of the properties that matter most.

* `tlc -workers 2 -config X.cfg MCModule` checks one run, `tlapm XProofs.tla` one set of
  proofs.
* `PROJECT.json` lists the components, runs, mutants, the mapping of every definition to
  source lines, the hazards and the theorems.

Paths below are relative to the repository; `lxd/apply.go:231` means `src/lxd/apply.go`.

## 1. The system

### Parts and how they interact

| part | state | operations | hard behaviour |
|---|---|---|---|
| core lifecycle service (`daemon/started_service.go`) | status, instance, interrupt mark, status observable | StartOrReloadService, CloseService, SetError, Close; streams: waitForStarted, followInstance | calls interrupt each other's starts outside the lock; events are dropped when a channel is full |
| lxd control (`lxd/apply.go`, `daemon.go`) | active content, running, closed, interrupted-apply flag | Apply, Rollback/Start, Stop, bootstrap, shutdown | the process may die between any two disk writes; reads and writes fail |
| lxd state store (`lxd/store.go`) | last_good, was_running, pending marker | atomic writes, optional reads | crash and I/O errors |
| lxd hooks (`lxd/hooks.go`) | snapshot of the core, last event | pre_start gate, post_start, post_reload, post_stop, recovery at boot | events must stay paired across crashes |
| lxd resources (`lxd/resources.go`, `admin.go`) | files a configuration may name | PUT, DELETE | check at the start of an upload, write at its end |
| group DNS server (`dns/transport/group`) | expiring errors and wins, sticky target, election flag, generation | Exchange (single, survival, rescue, election fan), Reset, Start | queries, collectors and network changes interleave; a caller leaves its fan |
| urltest pool, mode round_robin (`protocol/group/urltest.go`, `urltest_balance_lx.go`) | slots, history, running check | seeding, lazy and tolerant tick, forced rebuild | plan from a snapshot, publish later; nodes die and return |
| urltest pick (`urltest_balance_lx.go`) | rotation counter | pick, liveSlot | reads health slot by slot while it changes |
| urltest least_test and failover (`urltest.go`, `urltest_failover_lx.go`, `urltest_penalty_lx.go`) | selection per network, penalties, slow marks, retest valve | tick, forced check, update, dial with fallback | selection written under three different locks |
| WireGuard endpoints (`protocol/wireguard/endpoint*.go`, `build_budget_lx.go`) | started, asleep, torn down, disabled, closing flags, device, shared budget of devices | Start, dial (wake, rebuild), Acquire with eviction, idle tick, Enable/Disable, Close | flags read without the lock; a dial holds one endpoint's lock while it waits for another's, or for a slot |
| probe history (`common/urltest`) | delay per tag | store, delete | shared by all groups and the Clash API |

lxd drives the core only through StartedService and serialises its operations with
`applyAccess`, so LxdController contains the service under one caller as two outcomes of a
swap; StartedService itself is checked with several callers, because the platform shells
call it concurrently. The core creates groups and DNS servers when an instance starts;
during its life groups and DNS servers do not call each other. The round_robin pool and the
pick share only the published slots and the history: UrlTestPick takes any change of both as
its environment, so what it shows holds whatever UrlTestPool does. The WireGuard endpoints
of a box share one budget and are driven by their dials, by the idle tick and by the manager
that closes them; WgBudget contains all of these.

All other parts of the repository (box start and close, managers, router, DNS client and
cache, fake-ip, rule sets, selector, chains, client enrolment, self-update, OOM killer,
xhttp, the WireGuard protocol itself, MASQUE, TrustTunnel, protocols, APIs) are listed in
`PROJECT.json` with the reason why they are not modelled.

### Modules

| module | models | notes |
|---|---|---|
| `StartedService` | core lifecycle service | one action per critical section of `serviceAccess` |
| `LxdHookContract` | abstract: what the hook scripts are promised | refined by LxdController |
| `LxdController` | apply pipeline, boot, stop, shutdown, store, hooks, resources | one action per disk write, hook and service call |
| `DnsGroup` | group DNS server | one action per critical section and per server answer |
| `UrlTestPlan` | pure plans of the pool: first live, tolerant, seed | operators only: passes over the slots |
| `UrlTestPool` | the round_robin health check around these plans | EXTENDS UrlTestPlan |
| `UrlTestPick` | the pick of a slot | the snapshot, the turn and every reading of a slot's health are actions |
| `UrlTestSelect` | pure choices: Select, failover, penalty mode | operators only, 16-bit sums |
| `UrlTestGroup` | checks, updates, dials, penalties, retest | EXTENDS UrlTestSelect |
| `WgBudget` | WireGuard endpoints and their device budget | one action per critical section, lock-free read or wait |
| `MC...` | instances for TLC | constants and symmetry only |
| `...Proofs`, `WgBudgetInv` | theorems | one per module above that has variables; WgBudgetInv holds the invariant of WgBudget and its steps |

Definitions named `X_suffix`, each directly before `X`, are mutants: `X` as a plausible bug
would have it. None of them is used by a specification; each shows that a property notices
that bug when it takes the place of `X`.

## 2. How the state corresponds to the code

**StartedService.** `serviceStatus`, `instance`, `startInterrupted`, `closed`, `startedAt`
are the fields of the same names; `startedAt` records whose start it is. `lifecycleAccess`
is the holder of that mutex. A caller's `pc` names the gap between two critical sections it
is in: `s_...` in StartOrReloadService, `c_...` in CloseService. `live` are the instances
that newInstance built and nobody closed, `cancelled` those whose context interruptStart has
cancelled. `bus` is the channel of the status subscriber and `wq`/`fq` the channels of the
subscriptions; both drop what does not fit (external code of the sing library, modelled from
its use). A follower's channel is a count, because followInstance ignores the value it
receives.

**LxdController.** One operation holds `applyAccess` (`op`), `pc` is its point. The disk is
`lastGood`, `runState`, `pending`, `snapshot`, `res`; memory is `active`, `running`,
`interruptedApply`, `closed`; `core` is what runs in truth. `Crash` may happen anywhere and
leaves the disk; `Boot` begins with any of the given command lines.
`ReadMayFail`/`WriteMayFail` let each read and write of the state directory fail. The
validator's verdict and the core's start are nondeterministic. `hook` is the last event the
scripts got, `ran` the number of script runs modulo 2, and `effects` whether post_start's
effects on the system are still in place. LxdHookContract has the same three (`last`,
`turn`, `dirty`); `ran` makes every run of a script a step of the contract, so that one run
too many, an event out of turn or a post_reload over no core is no stutter.
`resolveBootConfig` follows the code: --config-force, else last-good, else the seed, where
an unreadable last-good falls through to the seed. `started`, `intent`, `diedInSwap` are
history variables for the properties.

**DnsGroup.** A record is its age; `Tick` ages records and drops the dead ones, which is
what the code does when it next reads them. The generation counter is kept as its comparison
with a query's own (`sel[q].fresh`). A fan is two goroutines: `pc[q]` and `col[q]`. The
configured mode is chosen in Init and never changes.

**UrlTestPool.** Every placement of UrlTestPlan is one or more passes over the slots
(`Pass`); a pass hands each slot the best tag on offer that no slot has yet, as the loops of
`planFirstLivePool`, `planTolerantPool` and the seeding do. `check` is the health check that
holds `checking`, with its results and the plan it is about to publish. `setup` (members,
pool size, tolerance, measurable delays, whether the interface may change before the Started
stage) is chosen in Init and never changes. Nodes are numbers, because the code breaks ties
between equal delays by the order of tags.

**UrlTestPick.** A pick's `snap`, `home`, `k`, `i`, `live` are the locals of `pick` and
`liveSlot`. The snapshot is taken under the balancer's lock and the turn after it, so a pool
may be published in between. Before the first health check the pool is empty (`published`)
and the connection goes to the fallback. `up` and `stable` watch the snapshot's health
during the pick; `load` counts connections per live slot, but for what all of them have,
since the pool or its health last changed, and `counts` marks a pick whose turn belongs to
that count: history variables.

**UrlTestGroup.** `check`, `update`, `dial` are the health check, the holder of
`updateAccess`, and the connections. `valve` is the forced retest. Which members have
history young enough to be skipped by a tick is any subset of those tested since the last
tick run (`fresh`). A check snapshots the held node before it probes, stores the slow marks
before its update (`MarkSlow`) and clears them after it (`CheckEnds`), as `failoverSlow` is;
updates by others may run in that window. With `NodesChange` each probe or dial may find its
server up or down, else `up` says which servers answer; `BlockedSites` lets a dial through a
live node fail like one through a dead node. `doubt` is a history variable.

**WgBudget.** A flag of an endpoint (`started`, `idleAsleep`, `torndown`, `neverBuilt`,
`disabled`, `closing`) is the set of endpoints that have it; `resumeMu` names the holder of
each endpoint's lock. `built`, `slots` (the field `building`), `evicting` and `overBudget`
are the budget. A dial's `pc` leads from enterDial through the two lock-free reads of
resumeOnDial, Acquire (count, candidates, TeardownForBudget of a victim, wait) and the
rebuild to the use of the device. `dialsInFlight` is not a counter of its own: it is the set
of dials inside. Idleness and ranking by time are left open: the tick may suspend or tear
down whatever the code's guards allow, and candidates come in any order the ranking can
give. `device` is the tun device and `suspended` the transport's flag of that name, which
holds the device down against network events; a wake clears it first, also when it then
fails. When the device comes up or goes down is not in the model: wireguard-go does it off
an event that Start and Rebuild queue, a network pause and the pass before Close do it in
goroutines of their own. A stage of Start that fails is a Start that does not happen. `gone`
marks an endpoint past the critical section of Close, `born` a device there from the start
(history).

## 3. Runs

All bounds are constants of the .cfg files. States are distinct states.

| run | states | what it shows |
|---|---|---|
| `started` | 3.9 M | Two callers, a waiting and a following stream, two instance identities, buffers 2 and 1: never two cores; STARTED always means a live instance nobody has cancelled, with its own start time; no interrupted start is left behind; a follower never stays with a replaced core |
| `started_waiter` | violation | a stream that waits for the core can wait although the core is up |
| `lxd_faults` | 7.4 M | Two configurations, one resource, all command lines, failing reads and writes, crashes: last-good has worked once; memory agrees with the core; shutdown is final; referenced resources do not change |
| `lxd_crash` | 235 k | Three configurations, working disk, crashes, fairness: stop sticks, a running core comes back, an interrupted apply is reported exactly when there was one, LxdController refines LxdHookContract, a termination request ends the process |
| `dns` | 627 k | Two servers, two queries, three modes, network changes: single-flight election, amnesty after Reset, records of the mode only, records capped |
| `dns_ends` | 7 k | One query under fairness: every query returns, every election ends |
| `pool` | 1.9 M | Three set-ups: slots distinct, full, nobody moves, live nodes keep their slots, no dead node where a live one is left out (without a tolerance) |
| `pick` | 1.7 M | Two picks on two slots of three nodes, sticky or rotating, against any change of pool and health, from before the first health check: a key keeps its slot while its node is up, a stable snapshot gives a live slot, the rotation is even |
| `group` | 2.8 M | failover, two nodes that come and go, one connection, all interferences: a held node is left only with a reason; test connections leave no trace |
| `group_steady` | 102 k | both modes, TCP and UDP, one node TCP-only, fairness: dead nodes are left; each network gets a selection (least_test); in every state the choice of least_test is within the tolerance of the fastest and leaves the present node only for a gain above the tolerance |
| `wg` | 309 k | Two endpoints, two dials, a cap of one device, lazy or not, waiting or building over the cap: the cap holds; at rest slots, flags and devices agree; no cycle of lock waits; no eviction under a dial; a disabled endpoint gets no device and stays suspended; Close is final; every dial and every Close returns |
| `wg_listen` | violation | the budget evicts an endpoint that listens |

The type invariants are proved (section 4); `dns` checks its own with TLC as well, because
it carries the caps of the records.

Why the bounds are enough. Two callers are what it takes for one to interrupt the other, and
the second instance identity is what a leaked core needs to meet its successor; a closed
identity is reused, so histories are unbounded. Two configurations are an old and a new one,
and the third of `lxd_crash` separates "last good" from both. `MaxBusyRetries = 1` makes the
boot's retry happen and end. In `dns`, two servers are a winner and a loser, two queries an
overtaking pair, and the two times to live are different, so that a win outlives an error.
No query of a group ever waits for another one (`access` is never held across an exchange),
so the liveness of a query is checked with one. The first set-up of `pool` has two slots and
three outsiders, so the lazy check runs a full and an incomplete batch; the tolerant one has
delays on both sides of the tolerance. In `pick` two connections overtake each other between
the snapshot, the turn and the slot, and the third node lets a slot be republished with
another tag; the three hashes give each slot as home and different rests. `CounterModulus =
4` makes the counter wrap in the run. One connection suffices in `group` because connections
interact only through the group's state, which the other writers change as well;
`MaxPenalty` stops new dials once a penalty reaches it; it is one above the threshold (2
over 1, in `group_steady` 3 over 2), so that dials in the emergency mode and the valve are
reached. In `wg`, one device for two endpoints makes every rebuild an eviction, `MaxLooks =
1` lets a waiting dial look again once, and one endpoint is switched, the other closed.

SYMMETRY is used in `started`, `dns` and `pick` (callers and instances, servers and queries,
nodes): safety runs only, over sets no definition orders.

### Fairness

* `started_waiter`: weak fairness of every running call, of the observer's dispatch and of a
  stream's own steps; strong fairness of taking `lifecycleAccess`, because a Go mutex in
  starvation mode hands itself to every goroutine that keeps waiting. No fairness of clients
  giving up.
* `lxd_crash`: weak fairness of the operation in progress (validator and hooks have
  time-outs; **uploads have none**: that they end is an assumption), strong fairness of the
  main loop's `applyAccess.Lock`, weak fairness of the return of Run. None of crashes or
  requests.
* `dns_ends`: weak fairness of each query and each collector: every exchange runs under the
  request's deadline, so it ends.
* `group_steady`: the ticker ticks, probes end by their time-out, the holder of
  `updateAccess` proceeds, and servers stay as they are. Dials are under no fairness.
* `wg`: strong fairness of the steps of dials and Close taken together (a Go mutex in
  starvation mode serves its waiters in order, and a waiting dial's context ends) and weak
  fairness of a tick that has begun.

Deadlock is checked in every run; none of the systems may stop.

## 4. Proofs

All constants are arbitrary within the named assumptions of the modules (NoX is not an X,
sizes positive, `Refs` total, command lines typed); the number of callers, streams, queries,
servers, nodes, slots and configurations is not bounded.

**StartedServiceProofs.** `TypeCorrect`, `NeverTwoCores`, `StartedIsUsable`,
`InterruptedStartIsReplaced`, `FollowersCatchUp`. The inductive invariant `LifecycleInv` has
four parts: `LockInv` (the lock's holder is the one caller inside an operation), `FreeInv`
(what holds when nobody is inside), `PointInv` (what the caller inside knows at its point:
which instance is alive, what the status can be) and `InterruptInv` (only an interrupted
instance is cancelled, and the mark means that its interrupter is queued). The last is why
an interrupted start may return nil without repairing the status. One lemma per action.

**LxdControllerProofs.** `TypeCorrect`, `LastGoodIsProven`, `StatusIsTrue`,
`ShutdownIsFinal`, `ReferencedResourcesStay` hold whatever reads and writes fail. `OpInv`
ties the point to the kind of operation and keeps the upload's guard valid (nobody else can
change the references while it holds `applyAccess`), `MemoryInv` says at which points memory
and core agree, `GoodInv` that the content being saved has come up. Four results assume a
readable and writable state directory (`~ReadMayFail`, `~WriteMayFail`; with failing reads
or failing writes alone TLC refutes each of them): the refinement `HooksKeepTheContract`,
and the crash properties `InterruptedApplyIsReported`, `StoppedStaysStopped` and
`RunningComesBack`. `HookInv` describes what the scripts have seen at each point. Its main
clause is that lasting effects imply a snapshot on disk, from which the next boot sends the
missing post_stop. `PendingInv`: the marker is on disk exactly while an apply is past its
validation, and from a death in the swap until the next process looks it stands for that
death. `IntentInv`: the run state and last-good on disk say what the operator last achieved,
each start and stop having written them before it counts as achieved. Both were checked as
invariants of the instance of `lxd_crash` first.

**DnsGroupProofs.** `SingleFlight`, `ResetIsAmnesty`, `ModesKeepToTheirRecords`, from
`ShapeInv` (a query with one target has no collector), `OwnInv`, `FreshInv` (a query of this
generation handles only servers asked in it, hence its writes are harmless) and `ModeInv`.
`RecordsAreLive` is the type invariant with the caps and the times to live. Its
strengthening `RecordsLive` says that records are ordered, oldest first: this is why cutting
a prefix prunes all that is dead. That there is a first live record is shown by induction,
as the existence of a least number (`LeastNumber`).

**UrlTestPoolProofs.** For any members, pool size, tolerance and delays: `TypesHold`,
`SlotsAreDistinct`, `PoolStaysFull`, `LiveNodesKeepTheirSlots`, `NodesStayInTheirSlots`,
`LiveNodesComeFirst`. `PassedBecame`, by induction over the slots, says what a pass makes of
a plan: marks are kept, new marks are in a slot, and a slot keeps its tag, all it was
offered being used, or has one nobody had. What the seed, the two plans and a batch publish
follows without induction. `IInv` carries it through the check: `Testing` (the pool being
built fits the members tested so far, and who was found alive has a slot in it or is in the
batch), `Planned` (what is about to be published is orderly with respect to what *is*
published, although it was planned from a snapshot: only the check writes slots).

**UrlTestPickProofs.** `StickyKeysKeepTheirSlot`, `LiveSlotsFirst`, `PicksAreSlots` (types),
`RotationIsEven`. `Passes(p)` counts: after the first pass over `i` slots `live` is the
number of live ones behind it, and during the second more live slots are ahead than are
still to be skipped; so with a stable snapshot the second pass cannot run out. For the
rotation, loads alone are no invariant, because connections overtake each other between
taking a turn and reaching their slot. `RotationInv` counts them where they are due: a
connection in flight has a turn (`Turn`: its step modulo the live slots, later what is left
of it plus the live slots passed over), every live slot has a rank, and load plus those in
flight with that rank is the same for all live slots but one more for those between some
start and the counter's turn, round the clock (`Even`). Taking a turn moves that interval by
one, reaching a slot changes nothing, a change of pool or health, a wrap of the counter and
a turn taken with an older pool start again (`InOrder`). The one assumption is that there
are finitely many connections; pool, width of the counter and their number are arbitrary.
`RotationInv` was checked with TLC for two concurrent connections first.

**UrlTestGroupProofs.** `TypesHold` (no network gets a node that does not support it),
`FailoverHoldsLiveNode`, `TestConnectionsLeaveNoTrace`, from `IInv`, whose main parts are
`SlowOK` (a node is marked slow only from the mark to the end of the check that found it so)
and `DoubtOK` (a selection without history, or found slow, is in doubt).
`ChoiceWithinTolerance`, `ChoiceStays`, `PresentNodeIsKept` are about Select for every list
of members, by induction over the list (`ScanKnows`): they hold for delays above 0 whose sum
with the tolerance fits 16 bits (`Measurable`).

**WgBudgetInv, WgBudgetProofs.** `TypesHold`, `BudgetHolds`, `EndpointsRestInAgreement`,
`LocksNeverDeadlock`, `EvictionsSpareDials`, `DisabledEndpointsStayOff`,
`CloseIsTheLastWord`, for any endpoints, dials and configurations. The argument is about who
holds which `resumeMu`: `OwnOK` is what a dial that rebuilds relies on while it holds its
own, `VictimOK` what it relies on at a victim, `TickOK` the same for the tick, `EndpointOK`
what holds of an endpoint whose lock is free. `LocalStep` reduces a step to the one endpoint
it touches. For the cycle: only `TryCandidate` begins a wait, and the candidate is built
while the requester, who is being rebuilt, is not, so a new wait leads to an endpoint that
waits for nobody. For the cap: slots are taken only with room, and every device within the
cap has a slot or is built.

Model-checked only: all liveness (`QueryReturns`, `ElectionEnds`, `TerminationEnds`,
`LeavesDeadNodes`, `EachNetworkIsHeld`, `DialsReturn`, `CloseReturns`), which the prover
does not reach, because it needs ENABLED and fairness; and the two violations, which are
counterexamples. Every other property of a run is also a theorem. The library's induction
theorems cannot be used with the installed provers; induction over a loop is therefore
written as the existence of a least counterexample (`LeastNumber`, `LoopInduction`), from
the well-foundedness of `<` on the naturals.

## 5. Disagreements between code and documentation

With a run of their own:

1. `started_waiter`: `waitForStarted` (`daemon/started_service.go:175`) reads the status,
   unlocks and subscribes; a STARTED dispatched in between is missed.
   `docs-lx/lxd-grpc-api.md:117` promises that a stream opened during the start waits for
   the core.
2. `wg_listen`: the budget takes every built endpoint as a candidate
   (`protocol/wireguard/build_budget_lx.go:154`), also one with a `listen_port`.
   `protocol/wireguard/endpoint.go:67` says that it "has no dial path to wake it, so
   idle-suspend must skip it", and `SPECS/TASKS/020-MULTI_WG_IDLE_BUFFER_HEAT/SPEC.md:366`
   that listen mode is not torn down.

### Further observations

Found with these modules while they were built. The properties of the runs are stated so
that they leave out exactly these cases.

* A reload that fails leaves `startedAt` at the start of the closed instance
  (`daemon/started_service.go:285`); `started_service_stats_lx.go:16` says zero means no
  core.
* An apply over a stopped core that falls back to last-good fires post_start with reason
  rollback (`lxd/apply.go:269`); `docs-lx/lxd-daemon.md:261` and
  `SPECS/TASKS/135-LXD_HOOKS/SPEC.md:122` say post_reload. LxdHookContract is the contract
  of the code: over a running core a rollback is a post_reload, over none the post_start
  that answers the gate.
* `WasRunning` (`lxd/store.go:98`) drops a read error, so a boot may start a core the
  operator has stopped. `StopSticks` is checked with a readable disk.
* `collectFan` (`dns/transport/group/fan.go:108`) heals the winner and records its win in
  two critical sections; an error between them is followed by the win that it should have
  erased (`group.go:255`).
* `Start` of the group DNS server (`group.go:185`) appends members one at a time without the
  lock: an early query selects among some of them.
* With a tolerance an early slow slot takes the live newcomer while a dead node keeps a
  later slot (`urltest_balance_lx.go:429`). `FullOfLive` is stated for tolerance 0.
* A check forced before the Started stage overwrites the seeded pool by a plan made from
  none (`urltest.go:961`). `SlotsStayFull`, `LiveKeepsSlot` and `NoRelocation` exclude that
  set-up.
* When a node dies between the passes of `liveSlot` the connection goes to its first, dead
  slot (`urltest_balance_lx.go:205`). `StablePickIsLive` asks for a stable snapshot.
* When the fallback fails too the selection stays where it was
  (`urltest_penalty_lx.go:252`), although FEATURE 007 says it has moved.
* Failed dials delete the history without which a node is no candidate, so the valve for
  total penalties may never open (`urltest_penalty_lx.go:308`).
* A failover group whose first selection was made by a TCP fallback never selects for UDP
  (`urltest_failover_lx.go:54`). `EachNetworkIsHeld` is stated for least_test.
* A delay of 0 ms counts as "nothing chosen yet" in `Select` (`urltest.go:526`), and the sum
  of a delay and the tolerance wraps at 16 bits. The laws of Select are stated for
  `Measurable` histories.
* An update that chose a node before its dial failed writes it after the fallback has moved
  the selection away from it (`urltest.go:759`, against `urltest_penalty_lx.go:13`).
* A Resume that fails leaves the device no longer marked suspended while the endpoint still
  counts as asleep, so that a change of network brings it up
  (`transport/wireguard/endpoint.go:644`), also after a later Disable, which suspends only a
  started endpoint.
* `SuspendIfIdle` reads the idle time before a dial's stamp: a dial on the fast path may be
  refused as not ready, although `protocol/wireguard/endpoint.go:407` calls that race
  closed.
* Close gives the slot back before it closes the device, so for a moment there is one device
  more than the cap; `AtMostMax` leaves it out. A dial in Acquire looks at its context only
  while it waits.
* An endpoint disabled before Start is awake afterwards, with the device it was created
  with; `DisabledStaysOff` says that a disabled endpoint gets no device and that a suspended
  one stays suspended.
* "A disabled endpoint stays down" (`protocol/wireguard/endpoint.go:420`) is true of the
  flags, not of the moment the device goes up: an Up that Start or a rebuild has queued
  (`transport/wireguard/device_stack.go:194`), or one of a network wake that has already
  looked at `suspended`, may run after the Down of a switch-off.
* Awake does not mean up: between the queued event and its Up, during a network pause and
  after the shutdown pass (`endpoint_quiesce_lx.go:13`) an endpoint that says it is started
  has a device that is down. `AtRestAllAgree` therefore speaks of `suspended`.
* The turn at which the rotation counter wraps is uneven when the width is not a multiple of
  the live slots, and a connection that began on an older pool takes a turn that the new
  pool's slots then lack. `EvenRotation` begins its count again in both cases.

## 6. Not modelled

Round-trip times, traces, logs, wording; the hosts layer of the group DNS server, which
touches no record; nested groups; the interruption of established connections; the life of a
group's ticker (Touch, idle timeout, Close) except for the pool's Close; the tearing of an
interface value written without a common lock; the client registry of lxd. Messages and
files are model values; the clock is a nondeterministic step. Of WireGuard: the protocol,
when a device comes up or goes down after its start, a network pause or the shutdown pass,
detours from one endpoint through another, and the clocks behind the idle tick and the
ranking. A connection of a round_robin group whose node does not support its network gets
Select's choice instead, which changes nothing of the pool. Seven hazards of `PROJECT.json`
have no property; their notes say why. The RPC handlers that only read a running instance
rest on `StartedHasInstance`.

## 7. Plan

Done: the modules above. Next, in this order:

1. Selector group, interrupt group and the ticker of urltest groups (Touch against the idle
   timeout; Close against a running check), composed with UrlTestGroup.
2. DNS client (deduplicated questions, cache, rejected domains) over an abstract transport
   that DnsGroup is shown to implement; fake-ip allocation and its persistence.
3. lxd client registry and enrolment (one-time codes, concurrent use) and self-update with
   its fallback.
4. Box start and close with the watchdog, managers and their dependency order; an abstract
   core that StartedService and LxdController share.
5. xhttp: the xmux pool and the reordering of uploads.
6. Proofs: abstract specifications of the DNS group and of the budget, refined by DnsGroup
   and WgBudget.
