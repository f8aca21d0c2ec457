--------------------------- MODULE StartedService ---------------------------
(***************************************************************************)
(* The lifecycle of the sing-box core inside one process:                  *)
(* daemon.StartedService (src/daemon/started_service.go).                  *)
(*                                                                         *)
(* Several callers (the control plane, the platform, a signal handler) may *)
(* call StartOrReloadService and CloseService at the same time.            *)
(* lifecycleAccess serialises the two; serviceAccess is held only for the  *)
(* short critical sections, each of which is one action here, so every     *)
(* other actor may move between two of them.  A call that arrives while    *)
(* another one is starting an instance cancels that start                  *)
(* (interruptStart) before it queues for lifecycleAccess.                  *)
(*                                                                         *)
(* The service status is also published on an observable.  waitForStarted  *)
(* (Waiters) reads the status and then subscribes; followInstance          *)
(* (Followers) subscribes and then reads.                                  *)
(***************************************************************************)
EXTENDS Naturals, Sequences, FiniteSets

CONSTANTS
    Callers,         \* goroutines calling StartOrReloadService / CloseService
    Waiters,         \* gRPC streams inside waitForStarted
    Followers,       \* gRPC streams inside followInstance
    Instances,       \* identities of *Instance; a closed one may be reused
    NoInstance,      \* the nil *Instance
    SubscriberSize,  \* buffer of serviceStatusSubscriber
    ListenerSize     \* buffer of each subscription of serviceStatusObserver

ASSUME InstanceAssumption == NoInstance \notin Instances
ASSUME SizeAssumption == SubscriberSize \in Nat \ {0} /\ ListenerSize \in Nat \ {0}

VARIABLES
    serviceStatus,     \* s.serviceStatus.Status
    instance,          \* s.instance
    startInterrupted,  \* s.startInterrupted
    closed,            \* s.closed
    startedAt,         \* s.startedAt: whose start it records, NoInstance = zero
    lifecycleAccess,   \* holder of s.lifecycleAccess: {} or {c}
    pc,                \* where each caller is
    mine,              \* the instance a caller is closing or starting
    startErr,          \* did that caller's instance.Start() fail
    live,              \* instances built by newInstance and not closed yet
    cancelled,         \* live instances whose context was cancelled
    bus,               \* statuses emitted and not yet dispatched
    wpc, wq,           \* waitForStarted: where it is, its subscription
    fpc, fview, fq     \* followInstance: where it is, what run() follows,
                       \* how many events wait in its subscription

svcVars == <<serviceStatus, instance, startInterrupted, closed, startedAt>>
callVars == <<lifecycleAccess, pc, mine, startErr>>
instVars == <<live, cancelled>>
waiterVars == <<wpc, wq>>
followerVars == <<fpc, fview, fq>>
vars == <<svcVars, callVars, instVars, bus, waiterVars, followerVars>>

Status == {"IDLE", "STARTING", "STARTED", "STOPPING", "FATAL"}

MaybeInstance == Instances \cup {NoInstance}

(* The points of StartOrReloadService (s_...) and CloseService (c_...)     *)
(* between two critical sections.                                          *)
StartPCs == {"s_closeOld", "s_begin", "s_build", "s_buildFailed", "s_publish",
             "s_start", "s_finish", "s_closeNew"}
ClosePCs == {"c_close", "c_finish"}
QueuedPCs == {"s_lock", "c_lock"}
PCs == {"idle"} \cup QueuedPCs \cup StartPCs \cup ClosePCs

(* One type invariant for the module. *)
TypeOK ==
    /\ serviceStatus \in Status
    /\ instance \in MaybeInstance
    /\ startInterrupted \in BOOLEAN
    /\ closed \in BOOLEAN
    /\ startedAt \in MaybeInstance
    /\ lifecycleAccess \in SUBSET Callers
    /\ pc \in [Callers -> PCs]
    /\ mine \in [Callers -> MaybeInstance]
    /\ startErr \in [Callers -> BOOLEAN]
    /\ live \in SUBSET Instances
    /\ cancelled \in SUBSET Instances
    /\ bus \in Seq(Status)
    /\ wpc \in [Waiters -> {"idle", "subscribing", "waiting", "served", "failed"}]
    /\ wq \in [Waiters -> Seq(Status)]
    /\ fpc \in [Followers -> {"off", "read", "run"}]
    /\ fview \in [Followers -> MaybeInstance]
    /\ fq \in [Followers -> 0..ListenerSize]

Init ==
    /\ serviceStatus = "IDLE"
    /\ instance = NoInstance
    /\ startInterrupted = FALSE
    /\ closed = FALSE
    /\ startedAt = NoInstance
    /\ lifecycleAccess = {}
    /\ pc = [c \in Callers |-> "idle"]
    /\ mine = [c \in Callers |-> NoInstance]
    /\ startErr = [c \in Callers |-> FALSE]
    /\ live = {}
    /\ cancelled = {}
    /\ bus = <<>>
    /\ wpc = [w \in Waiters |-> "idle"]
    /\ wq = [w \in Waiters |-> <<>>]
    /\ fpc = [f \in Followers |-> "off"]
    /\ fview = [f \in Followers |-> NoInstance]
    /\ fq = [f \in Followers |-> 0]

-----------------------------------------------------------------------------
(* The observable of the sing library: a buffered channel that drops what  *)
(* does not fit and is silent once closed.                                 *)
Emit(status) ==
    bus' = IF closed \/ Len(bus) >= SubscriberSize THEN bus ELSE Append(bus, status)

updateStatus(status) ==
    /\ serviceStatus' = status
    /\ Emit(status)

(* instance.Close() cancels the instance's context and releases it. *)
CloseInstance(i) ==
    /\ live' = live \ {i}
    /\ cancelled' = cancelled \ {i}

Goto(c, label) == pc' = [pc EXCEPT ![c] = label]

(* The call returns: deferred lifecycleAccess.Unlock(). *)
Return(c) ==
    /\ Goto(c, "idle")
    /\ lifecycleAccess' = lifecycleAccess \ {c}
    /\ mine' = [mine EXCEPT ![c] = NoInstance]
    /\ startErr' = [startErr EXCEPT ![c] = FALSE]

-----------------------------------------------------------------------------
(* A mutant: the status test of interruptStart is dropped. *)
interruptStart_anyStatus ==
    IF instance # NoInstance
    THEN /\ startInterrupted' = TRUE
         /\ cancelled' = cancelled \cup {instance}
    ELSE UNCHANGED <<startInterrupted, cancelled>>

(* interruptStart, the first statement of both operations, then the queue  *)
(* for lifecycleAccess.                                                    *)
interruptStart ==
    IF serviceStatus = "STARTING" /\ instance # NoInstance
    THEN /\ startInterrupted' = TRUE
         /\ cancelled' = cancelled \cup {instance}
    ELSE UNCHANGED <<startInterrupted, cancelled>>

Call(c, queued) ==
    /\ pc[c] = "idle"
    /\ interruptStart
    /\ Goto(c, queued)
    /\ UNCHANGED <<serviceStatus, instance, closed, startedAt, lifecycleAccess, mine,
                   startErr, live, bus, waiterVars, followerVars>>

CallStartOrReload(c) == Call(c, "s_lock")
CallCloseService(c) == Call(c, "c_lock")

(* lifecycleAccess.Lock() and the first critical section of                *)
(* StartOrReloadService.                                                   *)
StartEnter(c) ==
    /\ pc[c] = "s_lock"
    /\ lifecycleAccess = {}
    /\ \/ /\ closed
          /\ Return(c)
          /\ UNCHANGED <<svcVars, bus>>
       \/ /\ ~closed
          /\ instance # NoInstance
          /\ lifecycleAccess' = {c}
          /\ mine' = [mine EXCEPT ![c] = instance]
          /\ instance' = NoInstance
          /\ updateStatus("STOPPING")
          /\ Goto(c, "s_closeOld")
          /\ UNCHANGED <<startInterrupted, closed, startedAt, startErr>>
       \/ /\ ~closed
          /\ instance = NoInstance
          /\ lifecycleAccess' = {c}
          /\ startInterrupted' = FALSE
          /\ updateStatus("STARTING")
          /\ Goto(c, "s_build")
          /\ UNCHANGED <<instance, closed, startedAt, mine, startErr>>
    /\ UNCHANGED <<instVars, waiterVars, followerVars>>

(* A mutant: the reload forgets to close the old instance. *)
CloseOld_leaks(c) ==
    /\ pc[c] = "s_closeOld"
    /\ mine' = [mine EXCEPT ![c] = NoInstance]
    /\ Goto(c, "s_begin")
    /\ UNCHANGED <<svcVars, lifecycleAccess, startErr, instVars, bus, waiterVars, followerVars>>

(* oldInstance.Close(), outside serviceAccess. *)
CloseOld(c) ==
    /\ pc[c] = "s_closeOld"
    /\ CloseInstance(mine[c])
    /\ mine' = [mine EXCEPT ![c] = NoInstance]
    /\ Goto(c, "s_begin")
    /\ UNCHANGED <<svcVars, lifecycleAccess, startErr, bus, waiterVars, followerVars>>

(* serviceAccess is taken again after the old instance is gone. *)
BeginStart(c) ==
    /\ pc[c] = "s_begin"
    /\ startInterrupted' = FALSE
    /\ updateStatus("STARTING")
    /\ Goto(c, "s_build")
    /\ UNCHANGED <<instance, closed, startedAt, lifecycleAccess, mine, startErr,
                   instVars, waiterVars, followerVars>>

(* newInstance parses the configuration and builds the box: it may fail. *)
Build(c) ==
    /\ pc[c] = "s_build"
    /\ \/ \E i \in Instances \ live :
            /\ live' = live \cup {i}
            /\ mine' = [mine EXCEPT ![c] = i]
            /\ Goto(c, "s_publish")
       \/ /\ Goto(c, "s_buildFailed")
          /\ UNCHANGED <<live, mine>>
    /\ UNCHANGED <<svcVars, lifecycleAccess, startErr, cancelled, bus, waiterVars, followerVars>>

BuildFailed(c) ==
    /\ pc[c] = "s_buildFailed"
    /\ updateStatus("FATAL")
    /\ Return(c)
    /\ UNCHANGED <<instance, startInterrupted, closed, startedAt, instVars, waiterVars, followerVars>>

(* s.instance = instance: from here on interruptStart can reach it. *)
Publish(c) ==
    /\ pc[c] = "s_publish"
    /\ instance' = mine[c]
    /\ Goto(c, "s_start")
    /\ UNCHANGED <<serviceStatus, startInterrupted, closed, startedAt, lifecycleAccess, mine,
                   startErr, instVars, bus, waiterVars, followerVars>>

(* instance.Start() returns; a cancelled context may or may not make it    *)
(* fail, and it may fail for reasons of its own.                           *)
StartReturns(c) ==
    /\ pc[c] = "s_start"
    /\ \E failed \in BOOLEAN : startErr' = [startErr EXCEPT ![c] = failed]
    /\ Goto(c, "s_finish")
    /\ UNCHANGED <<svcVars, lifecycleAccess, mine, instVars, bus, waiterVars, followerVars>>

(* The last critical section: interrupted, failed or started.  An          *)
(* interrupted start leaves the status alone: the interrupter will set it. *)
FinishStart(c) ==
    /\ pc[c] = "s_finish"
    /\ \/ /\ startInterrupted
          /\ startInterrupted' = FALSE
          /\ instance' = NoInstance
          /\ Goto(c, "s_closeNew")
          /\ UNCHANGED <<serviceStatus, startedAt, bus, lifecycleAccess, mine, startErr>>
       \/ /\ ~startInterrupted
          /\ startErr[c]
          /\ instance' = NoInstance
          /\ updateStatus("FATAL")
          /\ Goto(c, "s_closeNew")
          /\ UNCHANGED <<startInterrupted, startedAt, lifecycleAccess, mine, startErr>>
       \/ /\ ~startInterrupted
          /\ ~startErr[c]
          /\ startedAt' = mine[c]
          /\ updateStatus("STARTED")
          /\ Return(c)
          /\ UNCHANGED <<instance, startInterrupted>>
    /\ UNCHANGED <<closed, instVars, waiterVars, followerVars>>

(* instance.Close() of a start that was interrupted or failed. *)
CloseNew(c) ==
    /\ pc[c] = "s_closeNew"
    /\ CloseInstance(mine[c])
    /\ Return(c)
    /\ UNCHANGED <<svcVars, bus, waiterVars, followerVars>>

-----------------------------------------------------------------------------
(* A mutant: only the instance is looked at, not the status an interrupted *)
(* start left behind.                                                      *)
NothingToClose_instanceOnly == instance = NoInstance

(* Does CloseService find nothing to close? *)
NothingToClose ==
    instance = NoInstance /\ serviceStatus \notin {"STARTING", "STARTED"}

(* CloseService after interruptStart. *)
CloseEnter(c) ==
    /\ pc[c] = "c_lock"
    /\ lifecycleAccess = {}
    /\ \/ /\ NothingToClose
          /\ Return(c)
          /\ UNCHANGED <<svcVars, bus>>
       \/ /\ ~NothingToClose
          /\ lifecycleAccess' = {c}
          /\ mine' = [mine EXCEPT ![c] = instance]
          /\ instance' = NoInstance
          /\ updateStatus("STOPPING")
          /\ Goto(c, "c_close")
          /\ UNCHANGED <<startInterrupted, closed, startedAt, startErr>>
    /\ UNCHANGED <<instVars, waiterVars, followerVars>>

(* instance.Close() if there is one, outside serviceAccess. *)
CloseRunning(c) ==
    /\ pc[c] = "c_close"
    /\ CloseInstance(mine[c])
    /\ Goto(c, "c_finish")
    /\ UNCHANGED <<svcVars, lifecycleAccess, mine, startErr, bus, waiterVars, followerVars>>

CloseFinish(c) ==
    /\ pc[c] = "c_finish"
    /\ startedAt' = NoInstance
    /\ updateStatus("IDLE")
    /\ Return(c)
    /\ UNCHANGED <<instance, startInterrupted, closed, instVars, waiterVars, followerVars>>

-----------------------------------------------------------------------------
(* A mutant: the status changes without an event. *)
SetError_silent ==
    /\ serviceStatus' = "FATAL"
    /\ UNCHANGED <<instance, startInterrupted, closed, startedAt, callVars, instVars, bus,
                   waiterVars, followerVars>>

(* SetError, called by the platform at any time. *)
SetError ==
    /\ updateStatus("FATAL")
    /\ UNCHANGED <<instance, startInterrupted, closed, startedAt, callVars, instVars,
                   waiterVars, followerVars>>

(* Close: no further start, and the observables end. *)
Close ==
    /\ ~closed
    /\ closed' = TRUE
    /\ UNCHANGED <<serviceStatus, instance, startInterrupted, startedAt, callVars, instVars,
                   bus, waiterVars, followerVars>>

-----------------------------------------------------------------------------
(* The observer's goroutine hands one status to every subscription; a full *)
(* subscription misses it.                                                 *)
Dispatch ==
    /\ bus # <<>>
    /\ bus' = Tail(bus)
    /\ wq' = [w \in Waiters |->
                IF wpc[w] = "waiting" /\ Len(wq[w]) < ListenerSize
                THEN Append(wq[w], Head(bus)) ELSE wq[w]]
    /\ fq' = [f \in Followers |->
                IF fpc[f] # "off" /\ fq[f] < ListenerSize THEN fq[f] + 1 ELSE fq[f]]
    /\ UNCHANGED <<svcVars, callVars, instVars, wpc, fpc, fview>>

(* waitForStarted: the status is read first ... *)
WaitRead(w) ==
    /\ wpc[w] = "idle"
    /\ wpc' = [wpc EXCEPT ![w] = CASE serviceStatus = "STARTED" -> "served"
                                   [] serviceStatus = "STARTING" -> "subscribing"
                                   [] OTHER -> "failed"]
    /\ UNCHANGED <<svcVars, callVars, instVars, bus, wq, followerVars>>

(* ... and the subscription is opened afterwards. *)
WaitSubscribe(w) ==
    /\ wpc[w] = "subscribing"
    /\ wpc' = [wpc EXCEPT ![w] = IF closed THEN "failed" ELSE "waiting"]
    /\ wq' = [wq EXCEPT ![w] = <<>>]
    /\ UNCHANGED <<svcVars, callVars, instVars, bus, followerVars>>

(* One status from the subscription; STARTING keeps waiting. *)
WaitReceive(w) ==
    /\ wpc[w] = "waiting"
    /\ wq[w] # <<>>
    /\ wq' = [wq EXCEPT ![w] = Tail(wq[w])]
    /\ wpc' = [wpc EXCEPT ![w] = CASE Head(wq[w]) = "STARTED" -> "served"
                                   [] Head(wq[w]) = "STARTING" -> "waiting"
                                   [] OTHER -> "failed"]
    /\ UNCHANGED <<svcVars, callVars, instVars, bus, followerVars>>

(* The observable ends: <-done. *)
WaitDone(w) ==
    /\ wpc[w] = "waiting"
    /\ closed
    /\ wpc' = [wpc EXCEPT ![w] = "failed"]
    /\ UNCHANGED <<svcVars, callVars, instVars, bus, wq, followerVars>>

(* The stream's own context ends. *)
WaitCancelled(w) ==
    /\ wpc[w] = "waiting"
    /\ wpc' = [wpc EXCEPT ![w] = "failed"]
    /\ UNCHANGED <<svcVars, callVars, instVars, bus, wq, followerVars>>

(* The next stream of the same client. *)
WaitAgain(w) ==
    /\ wpc[w] \in {"served", "failed"}
    /\ wpc' = [wpc EXCEPT ![w] = "idle"]
    /\ wq' = [wq EXCEPT ![w] = <<>>]
    /\ UNCHANGED <<svcVars, callVars, instVars, bus, followerVars>>

(* followInstance: subscribe, then read, then run until an event. *)
FollowSubscribe(f) ==
    /\ fpc[f] = "off"
    /\ ~closed
    /\ fpc' = [fpc EXCEPT ![f] = "read"]
    /\ fq' = [fq EXCEPT ![f] = 0]
    /\ UNCHANGED <<svcVars, callVars, instVars, bus, waiterVars, fview>>

CurrentInstance == IF serviceStatus = "STARTED" THEN instance ELSE NoInstance

FollowRead(f) ==
    /\ fpc[f] = "read"
    /\ fview' = [fview EXCEPT ![f] = CurrentInstance]
    /\ fpc' = [fpc EXCEPT ![f] = "run"]
    /\ UNCHANGED <<svcVars, callVars, instVars, bus, waiterVars, fq>>

(* A status event cancels run() and starts it over. *)
FollowEvent(f) ==
    /\ fpc[f] = "run"
    /\ fq[f] > 0
    /\ fq' = [fq EXCEPT ![f] = fq[f] - 1]
    /\ fpc' = [fpc EXCEPT ![f] = "read"]
    /\ UNCHANGED <<svcVars, callVars, instVars, bus, waiterVars, fview>>

(* run() returned, a context ended or the observable did. *)
FollowReturn(f) ==
    /\ fpc[f] = "run"
    /\ fpc' = [fpc EXCEPT ![f] = "off"]
    /\ UNCHANGED <<svcVars, callVars, instVars, bus, waiterVars, fview, fq>>

-----------------------------------------------------------------------------
(* The steps a call takes on its own once it was made. *)
Proceed(c) ==
    \/ StartEnter(c) \/ CloseOld(c) \/ BeginStart(c) \/ Build(c) \/ BuildFailed(c)
    \/ Publish(c) \/ StartReturns(c) \/ FinishStart(c) \/ CloseNew(c)
    \/ CloseEnter(c) \/ CloseRunning(c) \/ CloseFinish(c)

WaiterNext(w) ==
    \/ WaitRead(w) \/ WaitSubscribe(w) \/ WaitReceive(w) \/ WaitDone(w)
    \/ WaitCancelled(w) \/ WaitAgain(w)

FollowerNext(f) ==
    FollowSubscribe(f) \/ FollowRead(f) \/ FollowEvent(f) \/ FollowReturn(f)

Next ==
    \/ \E c \in Callers : CallStartOrReload(c) \/ CallCloseService(c) \/ Proceed(c)
    \/ SetError
    \/ Close
    \/ Dispatch
    \/ \E w \in Waiters : WaiterNext(w)
    \/ \E f \in Followers : FollowerNext(f)

Spec == Init /\ [][Next]_vars

(* The scheduling the code relies on: a call that was made keeps running   *)
(* (newInstance, Start and Close of an instance return), and a sync.Mutex  *)
(* hands itself to every goroutine that keeps waiting for it (its          *)
(* starvation mode), hence strong fairness for the two lock steps.         *)
FairCalls ==
    \A c \in Callers : /\ WF_vars(Proceed(c))
                       /\ SF_vars(StartEnter(c))
                       /\ SF_vars(CloseEnter(c))

(* The observer's goroutine keeps dispatching, and a stream keeps reading  *)
(* its subscription; its client need not ever give up.                     *)
FairStreams ==
    /\ WF_vars(Dispatch)
    /\ \A w \in Waiters : /\ WF_vars(WaitSubscribe(w))
                          /\ WF_vars(WaitReceive(w))
                          /\ WF_vars(WaitDone(w))

FairSpec == Spec /\ FairCalls /\ FairStreams

-----------------------------------------------------------------------------
(* A reload never runs two cores at once: the old instance is closed       *)
(* before the next one is built, whoever interrupts whom                   *)
(* (StartOrReloadService closes oldInstance before newInstance, and both   *)
(* the interrupted and the failed start close what they built).            *)
OneLiveInstance == \A i, j \in live : i = j

(* Every RPC handler that sees STARTED dereferences s.instance: it is      *)
(* there, not closed, it is not one whose start an interrupter has         *)
(* cancelled, and startedAt is the time of its start, not of another one.  *)
StartedHasInstance ==
    serviceStatus = "STARTED" =>
        instance \in live /\ instance \notin cancelled /\ startedAt = instance

(* An interrupted StartOrReloadService returns nil and leaves the status   *)
(* STARTING.  With nobody inside a lifecycle call the status is STARTING   *)
(* only while the interrupter is still queued to replace it, or after      *)
(* Close has ended the service; and no core is left running that           *)
(* s.instance does not name.                                               *)
NoOrphanStart ==
    lifecycleAccess = {} =>
        /\ live \subseteq {instance}
        /\ serviceStatus = "STARTING" => closed \/ \E c \in Callers : pc[c] \in QueuedPCs
        /\ serviceStatus # "STOPPING"

(* followInstance never follows a core that was replaced without an event  *)
(* on its way that makes it look again, although both channels drop what   *)
(* does not fit.                                                           *)
FollowerNotStale ==
    \A f \in Followers :
        fpc[f] = "run" /\ fview[f] # CurrentInstance => fq[f] > 0 \/ bus # <<>> \/ closed

(* The gRPC guide lets a client open its streams while the core is         *)
(* starting: the stream waits for the core, so it does not wait forever    *)
(* once the core is up.                                                    *)
StreamProceedsOnceStarted ==
    \A w \in Waiters : []<>~(wpc[w] = "waiting" /\ serviceStatus = "STARTED")
=============================================================================
