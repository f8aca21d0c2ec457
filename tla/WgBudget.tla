------------------------------ MODULE WgBudget ------------------------------
(***************************************************************************)
(* The WireGuard endpoints of one box and the budget of devices they share *)
(* (src/protocol/wireguard/endpoint.go, endpoint_lazy_lx.go,               *)
(* endpoint_toggle_lx.go, build_budget_lx.go): lazy builds, the idle       *)
(* tick's suspend and teardown, the wake or rebuild by a dial, eviction    *)
(* for the budget, the manual switch, and Close.                           *)
(*                                                                         *)
(* A flag of an endpoint is the set of endpoints that have it.  A dial     *)
(* reads idleAsleep and started without a lock, so those reads are steps;  *)
(* what runs under resumeMu is one step unless it waits for something or   *)
(* the order of its writes is visible outside.  A waiter is woken by a     *)
(* change of the budget or by its timer: it may look again at any time.    *)
(*                                                                         *)
(* Of a device the model knows whether it is there and whether it is       *)
(* suspended.  Whether it is up follows later and elsewhere: wireguard-go  *)
(* brings it up off a queued event after a start or a rebuild, a network   *)
(* pause or the pass before Close brings it down.                          *)
(***************************************************************************)
EXTENDS Integers, FiniteSets

CONSTANTS
    Endpoints,
    Dials,       \* identities of dials, each used once
    MaxLooks,    \* bound on how often a waiting dial looks again before its context is done
    Listening,   \* endpoints with a listen_port
    Switched,    \* endpoints whose manual switch is used
    Closed,      \* endpoints that are closed
    Configs,     \* values of lx.wg to start with
    Tick,        \* the goroutine of the idle tick, as the owner of a lock
    Nobody

ASSUME BudgetAssumption ==
    /\ IsFiniteSet(Endpoints) /\ Listening \cup Switched \cup Closed \subseteq Endpoints
    /\ MaxLooks \in Nat
    /\ Configs \subseteq [lazy : BOOLEAN, max : Nat, overflow : {"wait", "build"}]
    /\ Tick \notin Dials /\ Nobody \notin Dials \cup Endpoints \cup {Tick}

VARIABLES
    wg,          \* lazy_build, build_max (0 for no cap) and build_overflow
    unstarted,   \* endpoints before PostStart
    started, idleAsleep, torndown, neverBuilt, disabled, closing,
    gone,        \* endpoints whose Close has passed its critical section
    resumeMu,    \* who holds the lock of an endpoint
    device,      \* endpoints that have a (tun) device
    suspended,   \* endpoints whose device is held down, if they have one
    flow,        \* endpoints with an established TCP flow
    built, slots, evicting, overBudget,   \* the budget; slots is its field building
    dial, tick,
    born         \* history: endpoints with the device they were created with

flags == <<started, idleAsleep, torndown, neverBuilt, disabled, closing>>
devices == <<device, suspended, flow, born>>
budget == <<built, slots, evicting, overBudget>>
vars == <<wg, unstarted, flags, gone, resumeMu, devices, budget, dial, tick>>

-----------------------------------------------------------------------------
(* Nothing dials an endpoint that listens: it is never lazy. *)
Lazy == IF wg.lazy THEN Endpoints \ Listening ELSE {}

(* A dial at pc that has not searched for a slot, or has found one. *)
Fresh(e, pc) == [pc |-> pc, ep |-> e, cand |-> {}, over |-> {}, victim |-> Nobody,
                 verdict |-> "none", traffic |-> FALSE, resampled |-> FALSE, looks |-> 0]

(* Where a dial is.  From "top" to "rebuild" it runs Acquire, from "victim"    *)
(* to "settle" it is at a candidate.                                           *)
Requesting == {"top", "count", "pick", "victim", "mark", "recheck", "release", "settle", "wait"}
Rebuilding == Requesting \cup {"rebuild", "register", "rollback"}
InFlight == {"asleep", "ready", "lock", "use"} \cup Rebuilding

(* dialsInFlight and the flag building of an endpoint. *)
dialsInFlight(e) == {d \in Dials : dial[d].ep = e /\ dial[d].pc \in InFlight}
building(e) == \E d \in Dials : dial[d].ep = e /\ dial[d].pc \in Rebuilding

TypeOK ==
    /\ wg \in Configs
    /\ \A S \in {unstarted, started, idleAsleep, torndown, neverBuilt, disabled, closing, gone,
                 device, suspended, flow, born, built, slots, evicting, overBudget} : S \subseteq Endpoints
    /\ resumeMu \in [Endpoints -> Dials \cup {Tick, Nobody}]
    /\ dial \in [Dials -> [pc : InFlight \cup {"idle", "done"}, ep : Endpoints \cup {Nobody},
                           cand : SUBSET Endpoints, over : SUBSET Endpoints,
                           victim : Endpoints \cup {Nobody},
                           verdict : {"none", "done", "refused"},
                           traffic : BOOLEAN, resampled : BOOLEAN, looks : 0..MaxLooks]]
    /\ tick \in [pc : {"idle", "suspend", "teardown", "release"},
                 ep : Endpoints \cup {Nobody}]

Init ==
    /\ wg \in Configs
    /\ unstarted = Endpoints
    /\ started = {} /\ idleAsleep = {} /\ torndown = {} /\ neverBuilt = {}
    /\ disabled = {} /\ closing = {} /\ gone = {}
    /\ resumeMu = [e \in Endpoints |-> Nobody]
    /\ device = Endpoints \ Lazy /\ born = Endpoints \ Lazy
    /\ suspended = Lazy /\ flow = {}
    /\ built = {} /\ slots = {} /\ evicting = {} /\ overBudget = {}
    /\ dial = [d \in Dials |-> Fresh(Nobody, "idle")]
    /\ tick = [pc |-> "idle", ep |-> Nobody]

Free(e) == resumeMu[e] = Nobody
Lock(e, who) == resumeMu' = [resumeMu EXCEPT ![e] = who]
Unlock(e) == Lock(e, Nobody)

Go(d, pc) == dial' = [dial EXCEPT ![d].pc = pc]

At(d, e, pc) == dial' = [dial EXCEPT ![d] = Fresh(e, pc)]
Done(d) == At(d, Nobody, "done")

-----------------------------------------------------------------------------
(* The device, as the endpoint drives it. *)

Suspend(e) == suspended' = suspended \cup {e} /\ UNCHANGED <<device, flow, born>>

(* Also when the device does not come up. *)
Resume(e) == suspended' = suspended \ {e} /\ UNCHANGED <<device, flow, born>>

Teardown(e) ==
    /\ device' = device \ {e} /\ suspended' = suspended \cup {e}
    /\ flow' = flow \ {e} /\ born' = born \ {e}

RebuildDevice(e) ==
    /\ device' = device \cup {e} /\ suspended' = suspended \ {e}
    /\ UNCHANGED <<flow, born>>

-----------------------------------------------------------------------------
(* The budget. *)

(* A mutant: a slot that is taken counts only when its device is there. *)
count_builtOnly == Cardinality(built)

count == Cardinality(built) + Cardinality(slots)

HasRoom == wg.max = 0 \/ count < wg.max

Register(e) ==
    /\ slots' = slots \ {e} /\ built' = built \cup {e}
    /\ UNCHANGED <<evicting, overBudget>>

(* A mutant: the slot of a rebuild that failed stays taken. *)
Release_keepsSlot(e) ==
    /\ built' = built \ {e} /\ overBudget' = overBudget \ {e}
    /\ UNCHANGED <<slots, evicting>>

(* A mutant: an endpoint that was torn down stays among the built ones. *)
Release_keepsBuilt(e) ==
    /\ slots' = slots \ {e} /\ overBudget' = overBudget \ {e}
    /\ UNCHANGED <<built, evicting>>

Release(e) ==
    /\ built' = built \ {e} /\ slots' = slots \ {e} /\ overBudget' = overBudget \ {e}
    /\ UNCHANGED evicting

-----------------------------------------------------------------------------
(* Start, the manual switch and time. *)

startLazy(e) ==
    /\ neverBuilt' = neverBuilt \cup {e} /\ torndown' = torndown \cup {e}
    /\ idleAsleep' = idleAsleep \cup {e}
    /\ UNCHANGED <<started, disabled, closing, devices, budget>>

(* A stage that fails ends the start of the box: Close is what comes next.     *)
Start(e) ==
    /\ e \in unstarted \ closing /\ Free(e)
    /\ unstarted' = unstarted \ {e}
    /\ IF e \in Lazy THEN startLazy(e)
       ELSE /\ started' = started \cup {e} /\ Register(e)
            /\ UNCHANGED <<devices, idleAsleep, torndown, neverBuilt, disabled, closing>>
    /\ UNCHANGED <<gone, resumeMu, dial, tick>>

Disable(e) ==
    /\ e \in Switched \ (closing \cup disabled) /\ Free(e)
    /\ disabled' = disabled \cup {e}
    /\ IF e \in started
         THEN /\ started' = started \ {e} /\ idleAsleep' = idleAsleep \cup {e}
              /\ Suspend(e)
         ELSE UNCHANGED <<started, idleAsleep, devices>>
    /\ UNCHANGED <<unstarted, torndown, neverBuilt, closing, gone, resumeMu, budget, dial, tick>>

(* A suspended device is woken at once; the wake may fail and leave it asleep. *)
Enable(e) ==
    /\ e \in disabled \ closing /\ Free(e)
    /\ disabled' = disabled \ {e}
    /\ IF e \in idleAsleep \ (torndown \cup neverBuilt)
         THEN /\ Resume(e)
              /\ \/ started' = started \cup {e} /\ idleAsleep' = idleAsleep \ {e}
                 \/ UNCHANGED <<started, idleAsleep>>
         ELSE UNCHANGED <<started, idleAsleep, devices>>
    /\ UNCHANGED <<unstarted, torndown, neverBuilt, closing, gone, resumeMu, budget, dial, tick>>

FlowEnds(e) ==
    /\ e \in flow /\ flow' = flow \ {e}
    /\ UNCHANGED <<unstarted, flags, gone, resumeMu, device, suspended, born, budget, dial, tick>>

-----------------------------------------------------------------------------
(* The wake by a dial. *)

(* enterDial and the first lines of resumeOnDial. *)
DialEnters(d, e) ==
    /\ dial[d].pc = "idle"
    /\ IF e \in disabled \cup closing THEN Done(d) ELSE At(d, e, "asleep")
    /\ UNCHANGED <<unstarted, flags, gone, resumeMu, devices, budget, tick>>

ReadAsleep(d) ==
    /\ dial[d].pc = "asleep"
    /\ Go(d, IF dial[d].ep \in idleAsleep THEN "lock" ELSE "ready")
    /\ UNCHANGED <<unstarted, flags, gone, resumeMu, devices, budget, tick>>

ReadStarted(d) ==
    /\ dial[d].pc = "ready"
    /\ IF dial[d].ep \in started THEN Go(d, "use") ELSE Done(d)
    /\ UNCHANGED <<unstarted, flags, gone, resumeMu, devices, budget, tick>>

(* A mutant: the flags read before the lock are not read again under it. *)
MayWake_onceOnly(e) == TRUE

MayWake(e) == e \notin closing \cup disabled

(* Under the lock, an endpoint that does not sleep any more, or must not wake. *)
DialLocks(d) ==
    LET e == dial[d].ep
    IN  /\ dial[d].pc = "lock" /\ Free(e)
        /\ ~MayWake(e) \/ e \notin idleAsleep
        /\ IF MayWake(e) /\ e \in started THEN Go(d, "use") ELSE Done(d)
        /\ UNCHANGED <<unstarted, flags, gone, resumeMu, devices, budget, tick>>

DialWakes(d) ==
    LET e == dial[d].ep
    IN  /\ dial[d].pc = "lock" /\ Free(e) /\ MayWake(e) /\ e \in idleAsleep \ torndown
        /\ Resume(e)
        /\ \/ /\ started' = started \cup {e} /\ idleAsleep' = idleAsleep \ {e}
              /\ Go(d, "use")
           \/ UNCHANGED <<started, idleAsleep>> /\ Done(d)
        /\ UNCHANGED <<unstarted, torndown, neverBuilt, disabled, closing, gone, resumeMu, budget, tick>>

DialRebuilds(d) ==
    LET e == dial[d].ep
    IN  /\ dial[d].pc = "lock" /\ Free(e) /\ MayWake(e) /\ e \in idleAsleep \cap torndown
        /\ Lock(e, d) /\ Go(d, "top")
        /\ UNCHANGED <<unstarted, flags, gone, devices, budget, tick>>

(* The dial is over.  A connection that came about is a flow of its own.       *)
DialEnds(d) ==
    LET e == dial[d].ep
    IN  /\ dial[d].pc = "use" /\ Done(d)
        /\ \/ UNCHANGED flow
           \/ e \in device /\ flow' = flow \cup {e}
        /\ UNCHANGED <<unstarted, flags, gone, resumeMu, device, suspended, born, budget, tick>>

-----------------------------------------------------------------------------
(* Acquire. *)

Refuse(d) == Done(d) /\ Unlock(dial[d].ep)

AcquireTop(d) ==
    /\ dial[d].pc = "top"
    /\ IF dial[d].ep \in closing THEN Refuse(d)
       ELSE Go(d, "count") /\ UNCHANGED resumeMu
    /\ UNCHANGED <<unstarted, flags, gone, devices, budget, tick>>

IsCandidate(v) == v \in built \ evicting

candidates(e) == {v \in Endpoints \ {e} : IsCandidate(v)}

TakeSlot(d) ==
    LET e == dial[d].ep
    IN  /\ dial[d].pc = "count" /\ HasRoom
        /\ slots' = slots \cup {e} /\ At(d, e, "rebuild")
        /\ UNCHANGED <<unstarted, flags, gone, resumeMu, devices, built, evicting, overBudget, tick>>

NoSlot(d) ==
    LET e == dial[d].ep
    IN  /\ dial[d].pc = "count" /\ ~HasRoom
        /\ dial' = [dial EXCEPT ![d].pc = "pick", ![d].cand = candidates(e),
                                ![d].over = candidates(e) \cap overBudget,
                                ![d].traffic = FALSE]
        /\ UNCHANGED <<unstarted, flags, gone, resumeMu, devices, budget, tick>>

(* rank: endpoints over the budget first, then by references and clocks that   *)
(* may stand in any order.                                                     *)
Ranked(me) == IF me.cand \cap me.over # {} THEN me.cand \cap me.over ELSE me.cand

(* The next candidate, if it is one still. *)
TryCandidate(d, v) ==
    /\ dial[d].pc = "pick" /\ v \in Ranked(dial[d])
    /\ IF IsCandidate(v)
         THEN /\ evicting' = evicting \cup {v}
              /\ dial' = [dial EXCEPT ![d].pc = "victim", ![d].victim = v, ![d].cand = @ \ {v}]
         ELSE /\ dial' = [dial EXCEPT ![d].cand = @ \ {v}]
              /\ UNCHANGED evicting
    /\ UNCHANGED <<unstarted, flags, gone, resumeMu, devices, built, slots, overBudget, tick>>

(* No candidate is left.  One more look, shortly, when traffic alone stood in  *)
(* the way.                                                                    *)
Resample(d) == dial[d].traffic /\ ~dial[d].resampled

BuildOver(d) ==
    LET e == dial[d].ep
    IN  /\ dial[d].pc = "pick" /\ dial[d].cand = {} /\ wg.overflow = "build" /\ ~Resample(d)
        /\ IF count < wg.max THEN Go(d, "top") /\ UNCHANGED <<slots, overBudget>>
           ELSE /\ slots' = slots \cup {e} /\ overBudget' = overBudget \cup {e}
                /\ At(d, e, "rebuild")
        /\ UNCHANGED <<unstarted, flags, gone, resumeMu, devices, built, evicting, tick>>

WaitForSlot(d) ==
    /\ dial[d].pc = "pick" /\ dial[d].cand = {} /\ (wg.overflow = "wait" \/ Resample(d))
    /\ dial' = [dial EXCEPT ![d].pc = "wait", ![d].resampled = @ \/ Resample(d)]
    /\ UNCHANGED <<unstarted, flags, gone, resumeMu, devices, budget, tick>>

LookAgain(d) ==
    /\ dial[d].pc = "wait" /\ dial[d].looks < MaxLooks
    /\ dial' = [dial EXCEPT ![d].pc = "top", ![d].looks = @ + 1]
    /\ UNCHANGED <<unstarted, flags, gone, resumeMu, devices, budget, tick>>

(* The context of the dial is done, at the latest after buildWaitMax.          *)
GiveUp(d) ==
    /\ dial[d].pc = "wait" /\ Refuse(d)
    /\ UNCHANGED <<unstarted, flags, gone, devices, budget, tick>>

-----------------------------------------------------------------------------
(* TeardownForBudget, called by a requester. *)

liveFlows(v) == dialsInFlight(v) # {} \/ v \in flow

Evictable(v) ==
    /\ v \notin closing \cup torndown /\ v \in started \cup idleAsleep
    /\ ~liveFlows(v)

(* Under the lock of the victim: refused, refused for traffic, or on.          *)
VictimLocked(d) ==
    LET v == dial[d].victim
    IN  /\ dial[d].pc = "victim" /\ Free(v)
        /\ \/ /\ ~Evictable(v)
              /\ dial' = [dial EXCEPT ![d].pc = "settle", ![d].verdict = "refused"]
              /\ UNCHANGED resumeMu
           \/ /\ Evictable(v)
              /\ dial' = [dial EXCEPT ![d].pc = "settle", ![d].verdict = "refused", ![d].traffic = TRUE]
              /\ UNCHANGED resumeMu
           \/ Evictable(v) /\ Go(d, "mark") /\ Lock(v, d)
        /\ UNCHANGED <<unstarted, flags, gone, devices, budget, tick>>

(* An awake victim is first marked asleep, then asked again for dials.         *)
MarkVictim(d) ==
    LET v == dial[d].victim
    IN  /\ dial[d].pc = "mark" /\ Go(d, "recheck")
        /\ idleAsleep' = idleAsleep \cup {v}
        /\ UNCHANGED <<unstarted, started, torndown, neverBuilt, disabled, closing, gone, resumeMu,
                       devices, budget, tick>>

SpareVictim(d) ==
    LET v == dial[d].victim
    IN  /\ dial[d].pc = "recheck" /\ v \in started /\ dialsInFlight(v) # {}
        /\ idleAsleep' = idleAsleep \ {v}
        /\ dial' = [dial EXCEPT ![d].pc = "settle", ![d].verdict = "refused"]
        /\ Unlock(v)
        /\ UNCHANGED <<unstarted, started, torndown, neverBuilt, disabled, closing, gone, devices,
                       budget, tick>>

(* A mutant: dials that came in meanwhile are not looked for. *)
TearVictim_unchecked(d) ==
    LET v == dial[d].victim
    IN  /\ dial[d].pc = "recheck"
        /\ started' = started \ {v} /\ torndown' = torndown \cup {v}
        /\ Teardown(v) /\ Go(d, "release")
        /\ UNCHANGED <<unstarted, idleAsleep, neverBuilt, disabled, closing, gone, resumeMu, budget, tick>>

TearVictim(d) ==
    LET v == dial[d].victim
    IN  /\ dial[d].pc = "recheck" /\ (v \in started => dialsInFlight(v) = {})
        /\ started' = started \ {v} /\ torndown' = torndown \cup {v}
        /\ Teardown(v) /\ Go(d, "release")
        /\ UNCHANGED <<unstarted, idleAsleep, neverBuilt, disabled, closing, gone, resumeMu, budget, tick>>

ReleaseVictim(d) ==
    LET v == dial[d].victim
    IN  /\ dial[d].pc = "release"
        /\ Release(v) /\ Unlock(v)
        /\ dial' = [dial EXCEPT ![d].pc = "settle", ![d].verdict = "done"]
        /\ UNCHANGED <<unstarted, flags, gone, devices, tick>>

(* A mutant: a refusal too is followed by another try of Acquire. *)
Settle_retries(d) ==
    /\ dial[d].pc = "settle"
    /\ evicting' = evicting \ {dial[d].victim}
    /\ dial' = [dial EXCEPT ![d].pc = "top", ![d].victim = Nobody, ![d].verdict = "none"]
    /\ UNCHANGED <<unstarted, flags, gone, resumeMu, devices, built, slots, overBudget, tick>>

(* A mutant: a refusal is followed by another count, with no look at closing. *)
Settle_recounts(d) ==
    /\ dial[d].pc = "settle"
    /\ evicting' = evicting \ {dial[d].victim}
    /\ dial' = [dial EXCEPT ![d].pc = IF dial[d].verdict = "done" THEN "top" ELSE "count", ![d].victim = Nobody, ![d].verdict = "none"]
    /\ UNCHANGED <<unstarted, flags, gone, resumeMu, devices, built, slots, overBudget, tick>>

(* evictOne goes on: to another try of Acquire, or to the next candidate.      *)
Settle(d) ==
    /\ dial[d].pc = "settle"
    /\ evicting' = evicting \ {dial[d].victim}
    /\ dial' = [dial EXCEPT ![d].pc = IF dial[d].verdict = "done" THEN "top" ELSE "pick",
                            ![d].victim = Nobody, ![d].verdict = "none"]
    /\ UNCHANGED <<unstarted, flags, gone, resumeMu, devices, built, slots, overBudget, tick>>

-----------------------------------------------------------------------------
(* The rebuild. *)

Rebuild(d) ==
    /\ dial[d].pc = "rebuild" /\ Go(d, "register")
    /\ RebuildDevice(dial[d].ep)
    /\ UNCHANGED <<unstarted, flags, gone, resumeMu, budget, tick>>

Rebuilt(d) ==
    LET e == dial[d].ep
    IN  /\ dial[d].pc = "register" /\ Go(d, "use")
        /\ torndown' = torndown \ {e} /\ started' = started \cup {e}
        /\ idleAsleep' = idleAsleep \ {e} /\ neverBuilt' = neverBuilt \ {e}
        /\ Register(e) /\ Unlock(e)
        /\ UNCHANGED <<unstarted, disabled, closing, gone, devices, tick>>

rebuildFailed(d) ==
    /\ dial[d].pc \in {"rebuild", "register"} /\ Go(d, "rollback")
    /\ Teardown(dial[d].ep)
    /\ UNCHANGED <<unstarted, flags, gone, resumeMu, budget, tick>>

Rollback(d) ==
    LET e == dial[d].ep
    IN  /\ dial[d].pc = "rollback"
        /\ Release(e) /\ Refuse(d)
        /\ UNCHANGED <<unstarted, flags, gone, devices, tick>>

-----------------------------------------------------------------------------
(* The idle tick: SuspendIfIdle and TeardownIfSlept of an endpoint.  Whether   *)
(* it can be reached, how long nobody has dialled it and how long it has slept *)
(* are left open.                                                              *)

TickTakes(e) ==
    /\ tick.pc = "idle" /\ ~building(e)
    /\ \/ e \notin disabled /\ tick' = [pc |-> "suspend", ep |-> e]
       \/ tick' = [pc |-> "teardown", ep |-> e]
    /\ UNCHANGED <<unstarted, flags, gone, resumeMu, devices, budget, dial>>

TickRests == tick' = [pc |-> "idle", ep |-> Nobody]

SuspendIfIdle ==
    LET e == tick.ep
    IN  /\ tick.pc = "suspend" /\ Free(e) /\ TickRests
        /\ \/ UNCHANGED <<started, idleAsleep, devices>>
           \/ /\ e \in started \ (Listening \cup flow)
              /\ idleAsleep' = idleAsleep \cup {e} /\ started' = started \ {e}
              /\ Suspend(e)
        /\ UNCHANGED <<unstarted, torndown, neverBuilt, disabled, closing, gone, resumeMu, budget, dial>>

TeardownIfSlept ==
    LET e == tick.ep
    IN  /\ tick.pc = "teardown" /\ Free(e)
        /\ \/ TickRests /\ UNCHANGED <<torndown, resumeMu, devices>>
           \/ /\ e \in idleAsleep \ torndown
              /\ torndown' = torndown \cup {e}
              /\ Teardown(e) /\ Lock(e, Tick) /\ tick' = [tick EXCEPT !.pc = "release"]
        /\ UNCHANGED <<unstarted, started, idleAsleep, neverBuilt, disabled, closing, gone, budget, dial>>

TickReleases ==
    LET e == tick.ep
    IN  /\ tick.pc = "release" /\ TickRests
        /\ Release(e) /\ Unlock(e)
        /\ UNCHANGED <<unstarted, flags, gone, devices, dial>>

-----------------------------------------------------------------------------
(* Close, announced by its first lines or by the pass before it.  That pass    *)
(* also asks for the device to go down, which it may do at any time until      *)
(* Close tears it down.                                                        *)

CloseBegins(e) ==
    /\ e \in Closed \ closing /\ closing' = closing \cup {e}
    /\ UNCHANGED <<unstarted, started, idleAsleep, torndown, neverBuilt, disabled, gone, resumeMu,
                   devices, budget, dial, tick>>

(* A mutant: Close does not wait for the lock. *)
CloseLocks_unlocked(e) ==
    /\ e \in closing \ gone
    /\ gone' = gone \cup {e}
    /\ started' = started \ {e} /\ idleAsleep' = idleAsleep \ {e} /\ torndown' = torndown \ {e}
    /\ Release(e)
    /\ UNCHANGED <<unstarted, neverBuilt, disabled, closing, resumeMu, devices, dial, tick>>

CloseLocks(e) ==
    /\ e \in closing \ gone /\ Free(e)
    /\ gone' = gone \cup {e}
    /\ started' = started \ {e} /\ idleAsleep' = idleAsleep \ {e} /\ torndown' = torndown \ {e}
    /\ Release(e)
    /\ UNCHANGED <<unstarted, neverBuilt, disabled, closing, resumeMu, devices, dial, tick>>

CloseEnds(e) ==
    /\ e \in gone \cap device
    /\ device' = device \ {e} /\ flow' = flow \ {e} /\ born' = born \ {e}
    /\ UNCHANGED <<suspended, unstarted, flags, gone, resumeMu, budget, dial, tick>>

-----------------------------------------------------------------------------
Endpoint(e) ==
    Start(e) \/ Disable(e) \/ Enable(e) \/ FlowEnds(e) \/ CloseBegins(e)

Close(e) == CloseLocks(e) \/ CloseEnds(e)

Wake(d) == ReadAsleep(d) \/ ReadStarted(d) \/ DialLocks(d) \/ DialWakes(d) \/ DialRebuilds(d) \/ DialEnds(d)

Acquire(d) ==
    \/ AcquireTop(d) \/ TakeSlot(d) \/ NoSlot(d) \/ \E v \in Endpoints : TryCandidate(d, v)
    \/ BuildOver(d) \/ WaitForSlot(d) \/ LookAgain(d)

TeardownForBudget(d) ==
    VictimLocked(d) \/ MarkVictim(d) \/ SpareVictim(d) \/ TearVictim(d) \/ ReleaseVictim(d) \/ Settle(d)

Build(d) == Rebuild(d) \/ Rebuilt(d) \/ rebuildFailed(d) \/ Rollback(d)

Ticks == SuspendIfIdle \/ TeardownIfSlept \/ TickReleases

Step(d) == Wake(d) \/ Acquire(d) \/ TeardownForBudget(d) \/ Build(d)

Next ==
    /\ UNCHANGED wg
    /\ \/ \E e \in Endpoints : Endpoint(e) \/ Close(e) \/ TickTakes(e)
       \/ \E d \in Dials : Step(d) \/ GiveUp(d) \/ \E e \in Endpoints : DialEnters(d, e)
       \/ Ticks

Spec == Init /\ [][Next]_vars

(* The dials and Close go on as long as one of them can go on again and again  *)
(* (a mutex serves waiters in order once they starve), and so does the tick    *)
(* once it has begun.                                                          *)
Progress == (\E d \in Dials : Step(d) \/ GiveUp(d)) \/ (\E e \in Endpoints : Close(e))

FairSpec ==
    /\ Spec
    /\ SF_vars(UNCHANGED wg /\ Progress)
    /\ WF_vars(UNCHANGED wg /\ Ticks)

-----------------------------------------------------------------------------
(* Not more devices than build_max stand at a time, but for those the code     *)
(* lets stand: built over the cap and marked so, there from the start, or of   *)
(* an endpoint that Close is tearing down.                                     *)
AtMostMax == wg.max > 0 => Cardinality(device \ (overBudget \cup born \cup gone)) <= wg.max

(* Whenever nobody is at work on an endpoint its flags, its slot and its       *)
(* device agree: no slot leaks, no slot of a build that is over is left, and   *)
(* an endpoint that says it is awake has a device, and one that nobody holds   *)
(* down (a rebuild that failed leaves it torn down, for the next dial to try   *)
(* again).                                                                     *)
AtRestAllAgree ==
    /\ \A e \in Endpoints \ (unstarted \cup gone) :
          Free(e) => (e \in built <=> e \in device) /\ e \notin slots
    /\ overBudget \subseteq built \cup slots
    /\ \A e \in started : Free(e) => e \in device \ suspended

(* Endpoint e has the lock of v to wait for, while its own is held. *)
WaitsFor(e, v) == \E d \in Dials : dial[d].ep = e /\ dial[d].pc = "victim" /\ dial[d].victim = v

(* No cycle of resumeMu waits can form: among any endpoints there is one whose *)
(* requester waits for none of them.                                           *)
NoWaitCycle ==
    \A S \in SUBSET Endpoints : S # {} => \E e \in S : \A v \in S : ~WaitsFor(e, v)

(* An eviction takes no device from a dial that has passed the wake or is past *)
(* reading that the endpoint is awake.                                         *)
DialsKeepTheirDevice ==
    [][ \A d \in Dials : dial[d].pc = "recheck" /\ dial'[d].pc = "release" =>
          ~\E x \in Dials : dial[x].ep = dial[d].victim /\ dial[x].pc \in {"ready", "use"} ]_vars

(* A disabled endpoint stays off: no dial, eviction or rebuild that was under  *)
(* way gives it a device, or lets go of the one that is held down.             *)
DisabledStaysOff ==
    [][ \A e \in disabled \cap disabled' :
          (e \in device' => e \in device) /\ (e \in suspended => e \in suspended') ]_vars

(* After the critical section of Close nobody else touches the endpoint: no    *)
(* flag, slot or lock of it is set again, and its device only goes.            *)
ClosedIsFinal ==
    [][ \A e \in gone :
          /\ e \in gone' /\ e \notin started' \cup idleAsleep' \cup torndown' \cup built' \cup slots'
          /\ resumeMu'[e] = Nobody
          /\ (e \in device' => e \in device) /\ (e \in suspended' <=> e \in suspended) ]_vars

(* Every dial returns, through eviction, waiting, rebuild or failure. *)
DialsReturn == \A d \in Dials : (dial[d].pc # "idle") ~> (dial[d].pc = "done")

(* Close gets through, whoever waits for a slot under the lock.                *)
CloseReturns == \A e \in Closed : (e \in closing) ~> (e \in gone /\ e \notin device)

(* An endpoint that listens is neither suspended nor torn down by the core:    *)
(* nothing would wake it.                                                      *)
ListenersStay == \A e \in Listening \ (unstarted \cup closing) : e \in device
=============================================================================
