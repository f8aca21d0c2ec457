--------------------------- MODULE LxdController ---------------------------
(***************************************************************************)
(* The lxd daemon's control of the core: the apply pipeline with its       *)
(* rollback, start, stop, boot and shutdown (src/lxd/apply.go, daemon.go), *)
(* the state it keeps on disk (store.go), the resources a configuration    *)
(* may name (resources.go, admin.go) and the lifecycle hooks (hooks.go).   *)
(*                                                                         *)
(* applyAccess serialises every operation, so one of them is in progress   *)
(* at a time (op, pc); each disk write, hook and service call is an action *)
(* of its own, because the process may die between any two of them (Crash) *)
(* and a new one boots from what the disk says.                            *)
(*                                                                         *)
(* The core is daemon.StartedService under a single caller: a swap closes  *)
(* the old instance and then the new one comes up or does not.  The staged *)
(* candidate file is left out: only the validator of the same operation    *)
(* reads it.                                                               *)
(***************************************************************************)
EXTENDS Naturals

CONSTANTS
    Configs,         \* contents of configurations
    NoConfig,        \* no content, no file, no core
    Resources,       \* names in the resource store
    Refs,            \* the names each configuration mentions
    BootOptions,     \* command lines the daemon may be started with
    MaxBusyRetries,  \* bound on the boot's retries while the device is busy
    ReadMayFail,     \* may a read of the state directory fail
    WriteMayFail     \* may a write to the state directory fail

MaybeConfig == Configs \cup {NoConfig}

ASSUME ConfigAssumption == NoConfig \notin Configs
ASSUME RefsAssumption == Refs \in [MaybeConfig -> SUBSET Resources] /\ Refs[NoConfig] = {}
ASSUME OptionsAssumption ==
    BootOptions \subseteq [run : BOOLEAN, hooks : BOOLEAN, force : MaybeConfig, seed : MaybeConfig]
ASSUME BoundAssumption ==
    MaxBusyRetries \in Nat /\ ReadMayFail \in BOOLEAN /\ WriteMayFail \in BOOLEAN

VARIABLES
    pc,                \* the point of the operation that holds applyAccess
    op,                \* that operation
    options,           \* the command line of this process
    lastGood,          \* disk: last_good.json
    runState,          \* disk: was_running
    pending,           \* disk: the pending marker
    snapshot,          \* disk: hooks/core_snapshot.json
    res,               \* disk: version of each resource, 0 = absent
    core,              \* the configuration the core really runs
    active, running,   \* memory: activeContent, running
    interruptedApply,  \* memory: interruptedApply
    closed, sigterm,   \* memory: closed; a termination was requested
    hook, effects,     \* last hook event; did post_start's effects outlive it
    ran,               \* history: number of scripts run, modulo 2
    started,           \* history: configurations that reached STARTED
    intent,            \* history: what the operator last achieved
    diedInSwap         \* history: the last death was inside a swap

disk == <<lastGood, runState, pending, snapshot, res>>
memory == <<active, running, interruptedApply, closed, sigterm, options>>
scripts == <<hook, effects, ran>>
history == <<started, intent, diedInSwap>>
vars == <<pc, op, disk, core, memory, scripts, history>>

NoOp == [kind |-> "none", content |-> NoConfig, wasRunning |-> FALSE, rolledBack |-> FALSE,
         retries |-> 0, resource |-> NoConfig]

Kinds == {"none", "boot", "apply", "rollback", "stop", "shutdown", "put"}

OpType == [kind : Kinds, content : MaybeConfig, wasRunning : BOOLEAN, rolledBack : BOOLEAN,
           retries : 0..MaxBusyRetries, resource : Resources \cup {NoConfig}]

Hooks == {"none", "refused", "pre_start", "post_start", "post_reload", "post_stop"}

BootPCs == {"b_recover", "b_remove", "b_pending", "b_resolve"}
PCs == BootPCs \cup {"down", "idle", "a_validate", "a_pending", "a_clear", "preStart", "swap",
        "starting", "fallback", "setWasRunning", "saveLastGood", "setActive", "writeState",
        "announce", "setFatal", "close", "postStop", "removeState", "upload"}

TypeOK ==
    /\ pc \in PCs
    /\ op \in OpType
    /\ options \in BootOptions
    /\ lastGood \in MaybeConfig /\ runState \in {"absent", "0", "1"}
    /\ pending \in BOOLEAN /\ snapshot \in MaybeConfig
    /\ res \in [Resources -> 0..2]
    /\ core \in MaybeConfig /\ active \in MaybeConfig
    /\ running \in BOOLEAN /\ interruptedApply \in BOOLEAN
    /\ closed \in BOOLEAN /\ sigterm \in BOOLEAN
    /\ hook \in Hooks
    /\ effects \in BOOLEAN /\ ran \in 0..1
    /\ started \in SUBSET MaybeConfig
    /\ intent \in {"none", "run", "stop"}
    /\ diedInSwap \in BOOLEAN

Init ==
    /\ pc = "down"
    /\ op = NoOp
    /\ options \in BootOptions
    /\ lastGood = NoConfig /\ runState = "absent" /\ pending = FALSE /\ snapshot = NoConfig
    /\ res = [r \in Resources |-> 0]
    /\ core = NoConfig /\ active = NoConfig /\ running = FALSE
    /\ interruptedApply = FALSE /\ closed = FALSE /\ sigterm = FALSE
    /\ hook = "none" /\ effects = FALSE /\ ran = 0
    /\ started = {} /\ intent = "none" /\ diedInSwap = FALSE

-----------------------------------------------------------------------------
(* writeAtomic either replaces the file or leaves the old one whole. *)
Written(old, new) == IF WriteMayFail THEN {old, new} ELSE {new}

(* readOptional: may the read fail instead of telling what is there. *)
ReadFails == {FALSE} \cup (IF ReadMayFail THEN {TRUE} ELSE {})

(* Every hook goes through fire; a disabled runner runs nothing. *)
fire(event, leaves) ==
    IF options.hooks THEN hook' = event /\ effects' = leaves /\ ran' = 1 - ran
                     ELSE UNCHANGED scripts

(* The operation is over: applyAccess is released.  Apply has the deferred *)
(* ClearPending in between.                                                *)
Leave ==
    IF op.kind = "apply" THEN pc' = "a_clear" /\ UNCHANGED op
                         ELSE pc' = "idle" /\ op' = NoOp

Start(kind, content, gate) ==
    /\ op' = [NoOp EXCEPT !.kind = kind, !.content = content, !.wasRunning = running]
    /\ pc' = gate

-----------------------------------------------------------------------------
(* A process is started with some command line: Run up to bootstrap, with  *)
(* applyAccess held.                                                       *)
Boot ==
    /\ pc = "down"
    /\ pc' = "b_recover"
    /\ options' \in BootOptions
    /\ UNCHANGED <<op, disk, core, active, running, interruptedApply, closed, sigterm, scripts,
                   history>>

(* recoverAtBoot: a snapshot means that no post_stop was reached. *)
recoverAtBoot ==
    /\ pc = "b_recover"
    /\ \E unreadable \in ReadFails :
         \/ /\ snapshot = NoConfig \/ unreadable
            /\ pc' = "b_pending"
            /\ UNCHANGED scripts
         \/ /\ snapshot # NoConfig /\ ~unreadable
            /\ IF options.hooks THEN fire("post_stop", FALSE)
                                ELSE effects' = FALSE /\ UNCHANGED <<hook, ran>>
            /\ pc' = "b_remove"
    /\ UNCHANGED <<op, disk, core, memory, history>>

(* removeState, then the rest of bootstrap. *)
RecoverRemove ==
    /\ pc = "b_remove"
    /\ snapshot' \in Written(snapshot, NoConfig)
    /\ pc' = "b_pending"
    /\ UNCHANGED <<op, lastGood, runState, pending, res, core, memory, scripts, history>>

(* The pending marker of a previous process is reported and removed. *)
CheckPending ==
    /\ pc = "b_pending"
    /\ \E unreadable \in ReadFails :
         IF pending /\ ~unreadable
         THEN interruptedApply' = TRUE /\ pending' \in Written(TRUE, FALSE)
         ELSE UNCHANGED <<interruptedApply, pending>>
    /\ pc' = "b_resolve"
    /\ UNCHANGED <<op, lastGood, runState, snapshot, res, core, active, running, closed, sigterm,
                   options, scripts, history>>

(* resolveBootConfig: --config-force, else last-good, else the -c seed. An *)
(* unreadable last-good falls through to the seed; an unreadable file of   *)
(* the command line is no configuration.                                   *)
resolveBootConfig(badLastGood, badFile) ==
    CASE options.force # NoConfig -> IF badFile THEN NoConfig ELSE options.force
      [] options.force = NoConfig /\ lastGood # NoConfig /\ ~badLastGood -> lastGood
      [] OTHER -> IF badFile THEN NoConfig ELSE options.seed

(* WasRunning: a file that cannot be read counts as never recorded. *)
WasRunning(unreadable) == runState = "1" /\ ~unreadable
Recorded(unreadable) == runState # "absent" /\ ~unreadable

(* A mutant: the run state is not looked at. *)
shouldRun_always(unreadable) == TRUE

shouldRun(unreadable) == options.run \/ WasRunning(unreadable) \/ ~Recorded(unreadable)

(* The rest of bootstrap's decision: which configuration, and whether. *)
BootDecide ==
    /\ pc = "b_resolve"
    /\ \E badLastGood, badFile, badState \in ReadFails :
         LET boot == resolveBootConfig(badLastGood, badFile) IN
         IF boot # NoConfig /\ shouldRun(badState)
         THEN Start("boot", boot, "preStart")
         ELSE pc' = "idle" /\ UNCHANGED op
    /\ UNCHANGED <<disk, core, memory, scripts, history>>

-----------------------------------------------------------------------------
(* Apply: locked, not closed, the candidate staged. *)
ApplyEnter(content) ==
    /\ pc = "idle" /\ ~closed
    /\ op' = [NoOp EXCEPT !.kind = "apply", !.content = content]
    /\ pc' = "a_validate"
    /\ UNCHANGED <<disk, core, memory, scripts, history>>

(* The validator's verdict: a rejected candidate, a failed staging and a   *)
(* validator that could not run leave everything alone.                    *)
Validate ==
    /\ pc = "a_validate"
    /\ \/ pc' = "a_pending" /\ UNCHANGED op
       \/ pc' = "idle" /\ op' = NoOp
    /\ UNCHANGED <<disk, core, memory, scripts, history>>

(* SetPending, then the facts of the live core: over no core the apply is  *)
(* a start behind the pre_start gate.                                      *)
SetPending ==
    /\ pc = "a_pending"
    /\ \/ /\ pending' = TRUE
          /\ op' = [op EXCEPT !.wasRunning = running]
          /\ pc' = IF running THEN "swap" ELSE "preStart"
       \/ /\ WriteMayFail
          /\ pc' = "idle" /\ op' = NoOp
          /\ UNCHANGED pending
    /\ UNCHANGED <<lastGood, runState, snapshot, res, core, memory, scripts, history>>

(* A mutant: a request queued behind applyAccess does not look at closed. *)
RollbackEnter_whenClosed ==
    /\ pc = "idle"
    /\ lastGood # NoConfig
    /\ IF running THEN Start("rollback", lastGood, "swap")
                  ELSE Start("rollback", lastGood, "preStart")
    /\ UNCHANGED <<disk, core, memory, scripts, history>>

(* Rollback and Start: last-good again, without the validator. *)
RollbackEnter ==
    /\ pc = "idle" /\ ~closed
    /\ lastGood # NoConfig
    /\ IF running THEN Start("rollback", lastGood, "swap")
                  ELSE Start("rollback", lastGood, "preStart")
    /\ UNCHANGED <<disk, core, memory, scripts, history>>

(* The gate: a refusal is fatal and nothing is started. *)
preStart ==
    /\ pc = "preStart"
    /\ \/ /\ fire("pre_start", effects)
          /\ pc' = "swap"
          /\ UNCHANGED <<op, active, running>>
       \/ /\ options.hooks
          /\ fire("refused", effects)
          /\ active' = NoConfig /\ running' = FALSE
          /\ Leave
    /\ UNCHANGED <<disk, core, interruptedApply, closed, sigterm, options, history>>

-----------------------------------------------------------------------------
(* A mutant: last-good is recorded before the start is known to succeed. *)
Swap_savesFirst ==
    /\ pc = "swap"
    /\ core' = NoConfig
    /\ lastGood' = op.content
    /\ pc' = "starting"
    /\ UNCHANGED <<op, runState, pending, snapshot, res, memory, scripts, history>>

(* StartOrReloadService, first half: the old instance is closed. *)
Swap ==
    /\ pc = "swap"
    /\ core' = NoConfig
    /\ pc' = "starting"
    /\ intent' = IF op.kind = "boot" /\ intent = "run" THEN "run" ELSE "none"
    /\ UNCHANGED <<op, disk, memory, scripts, started, diedInSwap>>

(* Second half: the new instance reaches STARTED ... *)
StartSucceeds ==
    /\ pc = "starting"
    /\ core' = op.content
    /\ started' = started \cup {op.content}
    /\ pc' = "setWasRunning"
    /\ UNCHANGED <<op, disk, memory, scripts, intent, diedInSwap>>

(* ... or does not: the boot retries while the device is busy, an apply    *)
(* falls back to last-good once, everything else is fatal.                 *)
StartFails ==
    /\ pc = "starting"
    /\ \/ /\ op.kind = "boot" /\ op.retries < MaxBusyRetries
          /\ op' = [op EXCEPT !.retries = @ + 1]
          /\ pc' = "swap"
       \/ /\ op.kind = "apply" /\ ~op.rolledBack
          /\ pc' = "fallback" /\ UNCHANGED op
       \/ /\ op.kind # "apply" \/ op.rolledBack
          /\ pc' = "setFatal" /\ UNCHANGED op
    /\ UNCHANGED <<disk, core, memory, scripts, history>>

(* LoadLastGood after a failed swap: nothing to fall back to, or the very  *)
(* configuration that failed, is fatal.                                    *)
Fallback ==
    /\ pc = "fallback"
    /\ \E unreadable \in ReadFails :
         IF lastGood = NoConfig \/ unreadable \/ lastGood = op.content
         THEN pc' = "setFatal" /\ UNCHANGED op
         ELSE /\ op' = [op EXCEPT !.content = lastGood, !.rolledBack = TRUE]
              /\ pc' = "swap"
    /\ UNCHANGED <<disk, core, memory, scripts, history>>

(* Is what has just been started recorded as last-good? *)
Persists == op.kind \in {"boot", "apply"} /\ ~op.rolledBack /\ lastGood # op.content

(* A mutant: a start does not record the run intent. *)
SetWasRunning_skipped ==
    /\ pc = "setWasRunning"
    /\ UNCHANGED runState
    /\ pc' = IF Persists THEN "saveLastGood" ELSE "setActive"
    /\ UNCHANGED <<op, lastGood, pending, snapshot, res, core, memory, scripts, history>>

SetWasRunning ==
    /\ pc = "setWasRunning"
    /\ runState' \in Written(runState, "1")
    /\ pc' = IF Persists THEN "saveLastGood" ELSE "setActive"
    /\ UNCHANGED <<op, lastGood, pending, snapshot, res, core, memory, scripts, history>>

SaveLastGood ==
    /\ pc = "saveLastGood"
    /\ lastGood' \in Written(lastGood, op.content)
    /\ pc' = "setActive"
    /\ UNCHANGED <<op, runState, pending, snapshot, res, core, memory, scripts, history>>

setActive ==
    /\ pc = "setActive"
    /\ active' = op.content /\ running' = TRUE
    /\ pc' = "writeState"
    /\ UNCHANGED <<op, disk, core, interruptedApply, closed, sigterm, options, scripts, history>>

(* postStart and postReload write the snapshot first ... *)
writeState ==
    /\ pc = "writeState"
    /\ snapshot' \in IF options.hooks THEN Written(snapshot, op.content) ELSE {snapshot}
    /\ pc' = "announce"
    /\ UNCHANGED <<op, lastGood, runState, pending, res, core, memory, scripts, history>>

(* ... and then run the script: announceSwap tells a reload from a start   *)
(* by whether a core was running before the swap.                          *)
announceSwap ==
    /\ pc = "announce"
    /\ fire(IF op.wasRunning THEN "post_reload" ELSE "post_start", TRUE)
    /\ intent' = "run"
    /\ Leave
    /\ UNCHANGED <<disk, core, memory, started, diedInSwap>>

(* A mutant: the content of the core that is gone stays active. *)
setFatal_keepsActive ==
    /\ pc = "setFatal"
    /\ running' = FALSE
    /\ pc' = "postStop"
    /\ UNCHANGED <<op, disk, core, active, interruptedApply, closed, sigterm, options, scripts,
                   history>>

(* No instance is left: the active content is cleared. *)
setFatal ==
    /\ pc = "setFatal"
    /\ active' = NoConfig /\ running' = FALSE
    /\ pc' = "postStop"
    /\ UNCHANGED <<op, disk, core, interruptedApply, closed, sigterm, options, scripts, history>>

(* postStop runs the script first and removes the snapshot afterwards. *)
postStop ==
    /\ pc = "postStop"
    /\ fire("post_stop", FALSE)
    /\ pc' = "removeState"
    /\ UNCHANGED <<op, disk, core, memory, history>>

removeState ==
    /\ pc = "removeState"
    /\ snapshot' \in Written(snapshot, NoConfig)
    /\ Leave
    /\ UNCHANGED <<lastGood, runState, pending, res, core, memory, scripts, history>>

(* A mutant: the deferred ClearPending is missing. *)
ClearPending_forgotten ==
    /\ pc = "a_clear"
    /\ pc' = "idle" /\ op' = NoOp
    /\ UNCHANGED <<disk, core, memory, scripts, history>>

(* The deferred ClearPending of Apply. *)
ClearPending ==
    /\ pc = "a_clear"
    /\ pending' \in Written(pending, FALSE)
    /\ pc' = "idle" /\ op' = NoOp
    /\ UNCHANGED <<lastGood, runState, snapshot, res, core, memory, scripts, history>>

-----------------------------------------------------------------------------
(* stopFrom: the intent is recorded before the core is closed. *)
StopEnter ==
    /\ pc = "idle" /\ ~closed
    /\ runState' \in Written(runState, "0")
    /\ Start("stop", NoConfig, "close")
    /\ intent' = "none"
    /\ UNCHANGED <<lastGood, pending, snapshot, res, core, memory, scripts, started, diedInSwap>>

(* A mutant: post_stop is announced without a look at what was running. *)
CloseCore_announcesAlways ==
    /\ pc = "close"
    /\ core' = NoConfig
    /\ IF op.kind = "stop"
       THEN active' = NoConfig /\ running' = FALSE /\ intent' = "stop"
       ELSE UNCHANGED <<active, running, intent>>
    /\ pc' = "postStop" /\ UNCHANGED op
    /\ UNCHANGED <<disk, interruptedApply, closed, sigterm, options, scripts, started, diedInSwap>>

(* CloseService; only stop clears the active content, the process that     *)
(* shuts down keeps it.  post_stop follows when a core was running.        *)
CloseCore ==
    /\ pc = "close"
    /\ core' = NoConfig
    /\ IF op.kind = "stop"
       THEN active' = NoConfig /\ running' = FALSE /\ intent' = "stop"
       ELSE UNCHANGED <<active, running, intent>>
    /\ IF op.wasRunning THEN pc' = "postStop" /\ UNCHANGED op ELSE Leave
    /\ UNCHANGED <<disk, interruptedApply, closed, sigterm, options, scripts, started, diedInSwap>>

Sigterm ==
    /\ pc # "down" /\ ~sigterm
    /\ sigterm' = TRUE
    /\ UNCHANGED <<pc, op, disk, core, active, running, interruptedApply, closed, options,
                   scripts, history>>

(* A mutant: a daemon without a core has nothing to shut down. *)
ShutdownEnter_runningOnly ==
    /\ pc = "idle" /\ sigterm /\ ~closed /\ running
    /\ closed' = TRUE
    /\ Start("shutdown", NoConfig, "close")
    /\ UNCHANGED <<disk, core, active, running, interruptedApply, sigterm, options, scripts,
                   history>>

(* The main loop takes applyAccess, sets closed and runs shutdown. *)
ShutdownEnter ==
    /\ pc = "idle" /\ sigterm /\ ~closed
    /\ closed' = TRUE
    /\ Start("shutdown", NoConfig, "close")
    /\ UNCHANGED <<disk, core, active, running, interruptedApply, sigterm, options, scripts,
                   history>>

-----------------------------------------------------------------------------
(* A mutant: last-good is not looked at. *)
resourceReferenced_activeOnly(r) == r \in Refs[active]

(* resourceReferenced: does the active or the last-good configuration      *)
(* mention the name?                                                       *)
resourceReferenced(r) == r \in Refs[active] \cup Refs[lastGood]

(* PUT takes applyAccess, checks the guard and reads the body under it. *)
PutEnter(r) ==
    /\ pc = "idle" /\ ~closed
    /\ ~resourceReferenced(r)
    /\ op' = [NoOp EXCEPT !.kind = "put", !.resource = r]
    /\ pc' = "upload"
    /\ UNCHANGED <<disk, core, memory, scripts, history>>

(* The body arrived and is written, or the upload failed. *)
Put ==
    /\ pc = "upload"
    /\ \E version \in 1..2 : res' \in {res, [res EXCEPT ![op.resource] = version]}
    /\ pc' = "idle" /\ op' = NoOp
    /\ UNCHANGED <<lastGood, runState, pending, snapshot, core, memory, scripts, history>>

Delete(r) ==
    /\ pc = "idle" /\ ~closed
    /\ ~resourceReferenced(r)
    /\ res' = [res EXCEPT ![r] = 0]
    /\ UNCHANGED <<pc, op, lastGood, runState, pending, snapshot, core, memory, scripts, history>>

-----------------------------------------------------------------------------
(* The end of a process, in whatever it was doing: memory and core are     *)
(* gone, the disk stays.                                                   *)
ProcessEnds ==
    /\ pc' = "down" /\ op' = NoOp
    /\ core' = NoConfig /\ active' = NoConfig /\ running' = FALSE
    /\ interruptedApply' = FALSE /\ closed' = FALSE /\ sigterm' = FALSE
    /\ hook' = "none"
    /\ UNCHANGED <<disk, options, effects, ran, started, intent>>

(* Run returns after shutdown. *)
Exit ==
    /\ pc = "idle" /\ closed
    /\ ProcessEnds
    /\ diedInSwap' = FALSE

(* A core panic, kill -9 or power loss.  The swap an apply announces with  *)
(* the pending marker is what the next boot must report, however often the *)
(* boots in between die before they get to it.                             *)
Crash ==
    /\ pc # "down"
    /\ ProcessEnds
    /\ diedInSwap' = IF pc \in BootPCs \ {"b_resolve"} THEN diedInSwap
                     ELSE op.kind = "apply" /\ pc \notin {"a_validate", "a_pending"}

-----------------------------------------------------------------------------
(* The steps of the operation in progress. *)
Proceed ==
    \/ recoverAtBoot \/ RecoverRemove \/ CheckPending \/ BootDecide
    \/ Validate \/ SetPending \/ preStart
    \/ Swap \/ StartSucceeds \/ StartFails \/ Fallback
    \/ SetWasRunning \/ SaveLastGood \/ setActive \/ writeState \/ announceSwap
    \/ setFatal \/ CloseCore \/ postStop \/ removeState \/ ClearPending
    \/ Put

Next ==
    \/ Boot
    \/ Proceed
    \/ \E content \in Configs : ApplyEnter(content)
    \/ RollbackEnter
    \/ StopEnter
    \/ Sigterm
    \/ ShutdownEnter
    \/ \E r \in Resources : PutEnter(r) \/ Delete(r)
    \/ Exit
    \/ Crash

Spec == Init /\ [][Next]_vars

(* An operation that was begun keeps running: validator, hooks and an      *)
(* upload end (the first two have time-outs).  The main loop gets          *)
(* applyAccess although requests keep competing for it (the mutex's        *)
(* starvation mode), and Run returns after shutdown.                       *)
FairSpec ==
    /\ Spec
    /\ WF_vars(Proceed)
    /\ SF_vars(ShutdownEnter)
    /\ WF_vars(Exit)

-----------------------------------------------------------------------------
(* last_good.json only ever holds a configuration that has reached         *)
(* STARTED, whatever crashes and whatever write fails: the rollback and    *)
(* the boot have something that once worked.                               *)
LastGoodStarted == lastGood # NoConfig => lastGood \in started

(* Whenever an administrator's request can get in (applyAccess is free and *)
(* the daemon is not closing), /admin/status and /admin/config tell what   *)
(* the core really runs.                                                   *)
ReportsTheCore ==
    pc = "idle" /\ ~closed => /\ active = core
                              /\ running <=> core # NoConfig

(* Once shutdown has closed the core, no request that was queued behind    *)
(* applyAccess brings it back.                                             *)
NoResurrection == pc = "idle" /\ closed => core = NoConfig

(* A stop that was answered sticks: no boot starts the core again unless   *)
(* the command line says --run.                                            *)
StopSticks == pc = "swap" /\ op.kind = "boot" /\ intent = "stop" => options.run

(* A core that an answered operation left running comes back at the next   *)
(* boot: the boot never decides to stay idle.                              *)
RunComesBack == [][pc = "b_resolve" /\ pc' = "idle" => intent # "run"]_vars

(* /admin/status reports an interrupted apply exactly when the process     *)
(* before this one died inside the swap.                                   *)
InterruptedReported ==
    pc \notin {"down", "b_recover", "b_remove", "b_pending"} => interruptedApply = diedInSwap

(* A resource that the running or the last-good configuration mentions is  *)
(* never overwritten or deleted, not even by an upload that began before   *)
(* the configuration was applied.                                          *)
ProtectedResources ==
    [][\A r \in Resources : res'[r] # res[r] => r \notin Refs[core] \cup Refs[lastGood]]_vars

(* A termination request ends the process. *)
TerminationEnds == sigterm ~> pc = "down"

(* Every single run of a hook script is one that LxdHookContract allows    *)
(* next: no core is announced twice, none is left unanswered.              *)
Contract == INSTANCE LxdHookContract WITH last <- hook, turn <- ran, dirty <- effects
HookContract == Contract!Spec
=============================================================================
