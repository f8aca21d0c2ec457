------------------------ MODULE LxdControllerProofs ------------------------
(***************************************************************************)
(* What lxd's control of the core guarantees for any configurations,       *)
(* resources and command lines.                                            *)
(*                                                                         *)
(* CoreInv says what the operation in progress may rely on at each of its  *)
(* points about the core, the memory and last-good; it holds whatever      *)
(* reads and writes fail.  HookInv adds what the scripts have seen, and    *)
(* PendingInv and IntentInv what the disk remembers for the next process;  *)
(* they need a state directory that can be read and written.               *)
(***************************************************************************)
EXTENDS LxdController, TLAPS

USE SMTT(30), ZenonT(20)

(* The points of bringing a configuration up, before and after it runs. *)
BringUpPCs == {"preStart", "swap", "starting", "fallback", "setFatal"}
UpPCs == {"setWasRunning", "saveLastGood", "setActive", "writeState", "announce"}
RestPCs == {"idle", "a_validate", "a_pending", "a_clear", "upload", "close"}

OpInv ==
    /\ pc \in BringUpPCs \cup UpPCs =>
           op.content \in Configs /\ op.kind \in {"boot", "apply", "rollback"}
    /\ pc \in {"a_validate", "a_pending"} => op.content \in Configs /\ op.kind = "apply"
    /\ pc = "a_clear" => op.kind = "apply"
    /\ pc = "close" => op.kind \in {"stop", "shutdown"}
    /\ pc = "upload" => /\ op.kind = "put" /\ op.resource \in Resources
                        /\ ~resourceReferenced(op.resource)
    /\ pc \in {"postStop", "removeState"} =>
           op.kind \in {"boot", "apply", "rollback", "stop", "shutdown"}
    /\ closed => \/ pc = "idle"
                 \/ pc \in {"close", "postStop", "removeState"} /\ op.kind = "shutdown"
    /\ op.kind = "shutdown" => closed

(* Memory tells what the core runs. *)
Agree == active = core /\ (running <=> core # NoConfig)

MemoryInv ==
    /\ pc \in RestPCs /\ (pc = "close" \/ ~closed) => Agree
    /\ pc \in {"down", "preStart"} \cup BootPCs => Agree /\ ~running
    /\ pc = "idle" /\ closed => core = NoConfig
    /\ pc \in {"starting", "fallback", "setFatal", "postStop", "removeState"} => core = NoConfig
    /\ pc \in {"postStop", "removeState"} /\ op.kind # "shutdown" => Agree
    /\ pc \in UpPCs => core = op.content
    /\ pc \in {"writeState", "announce"} => Agree

GoodInv ==
    /\ LastGoodStarted
    /\ pc \in UpPCs => op.content \in started

CoreInv == OpInv /\ MemoryInv /\ GoodInv

(* The last announcement was of a core that runs. *)
Announced == hook \in {"post_start", "post_reload"}

(* What the scripts have seen at each point, with hooks switched on. *)
HookInv ==
    /\ effects => snapshot # NoConfig
    /\ pc \in {"down", "b_recover"} \/ ~options.hooks => hook = "none"
    /\ pc \notin {"down", "b_recover"} /\ ~options.hooks => ~effects
    /\ pc \in BootPCs \ {"b_recover"} => hook \in {"none", "post_stop"} /\ ~effects
    /\ pc = "preStart" => ~op.wasRunning
    /\ pc \in {"postStop", "removeState"} /\ op.kind = "shutdown" => op.wasRunning
    /\ options.hooks =>
         /\ pc = "preStart" => hook \in {"none", "refused", "post_stop"} /\ ~effects
         /\ pc \in (BringUpPCs \cup UpPCs \cup {"postStop"}) \ {"preStart"} =>
                IF op.wasRunning THEN Announced ELSE hook = "pre_start" /\ ~effects
         /\ pc \in {"close"} => (op.wasRunning <=> running)
         /\ pc = "announce" => snapshot # NoConfig
         /\ pc = "removeState" => hook = "post_stop" /\ ~effects
         /\ pc \in RestPCs /\ (pc = "close" \/ ~closed) =>
                IF running THEN Announced
                           ELSE hook \in {"none", "refused", "post_stop"} /\ ~effects

(* A process that has not yet looked for the pending marker. *)
BeforeReport == {"down", "b_recover", "b_remove", "b_pending"}

(* The marker is on disk while an apply is past its validation; from its   *)
(* death until the next process looks it stands for that death.            *)
PendingInv ==
    /\ pc \in BootPCs \cup {"down", "idle"} => op.kind = "none"
    /\ pc \in BeforeReport => pending = diedInSwap /\ ~interruptedApply
    /\ pc \notin BeforeReport =>
           /\ interruptedApply = diedInSwap
           /\ pending <=> op.kind = "apply" /\ pc \notin {"a_validate", "a_pending"}

(* The run state and last-good say what the operator last achieved, and    *)
(* each start and stop has them written before it counts as achieved.      *)
IntentInv ==
    /\ intent = "stop" => runState = "0"
    /\ intent = "run" => runState = "1" /\ lastGood # NoConfig
    /\ pc = "close" /\ op.kind = "stop" => runState = "0"
    /\ pc \in {"starting", "fallback"} \cup UpPCs => intent # "stop"
    /\ pc \in {"preStart", "swap"} /\ op.kind = "boot" /\ intent = "stop" => options.run
    /\ pc \in UpPCs \ {"setWasRunning"} => runState = "1"
    /\ op.kind = "rollback" \/ op.rolledBack => lastGood # NoConfig
    /\ pc \in {"setActive", "writeState", "announce"} => lastGood # NoConfig

-----------------------------------------------------------------------------
(* A write leaves either the old content or the new one. *)
LEMMA WrittenIsEither ==
    ASSUME NEW old, NEW new, NEW x \in Written(old, new)
    PROVE  x \in {old, new} /\ (~WriteMayFail => x = new)
BY Zenon DEF Written

(* The record of no operation is an operation, and no content is one of    *)
(* the things a configuration's place may hold.                            *)
LEMMA NothingType == NoOp \in OpType /\ NoConfig \in MaybeConfig
BY BoundAssumption DEF NoOp, OpType, Kinds, MaybeConfig

(* What an operation carries. *)
LEMMA OpFields ==
    ASSUME op \in OpType
    PROVE  op.content \in MaybeConfig /\ op.wasRunning \in BOOLEAN
BY Zenon DEF OpType

(* An operation begins with a typed record. *)
LEMMA StartType ==
    ASSUME NEW kind \in Kinds, NEW content \in MaybeConfig,
           NEW gate \in PCs, running \in BOOLEAN, Start(kind, content, gate)
    PROVE  op' \in OpType /\ pc' = gate
BY NothingType, Zenon DEF Start, NoOp, OpType

(* However an operation ends, it ends at a known point. *)
LEMMA LeaveType ==
    ASSUME op \in OpType, Leave
    PROVE  op' \in OpType /\ pc' \in {"idle", "a_clear"}
BY NothingType, Zenon DEF Leave

(* Counting modulo 2. *)
LEMMA TurnType == \A n \in 0..1 : 1 - n \in 0..1
OBVIOUS

(* A hook, whichever, leaves a known event behind. *)
LEMMA FireType ==
    ASSUME NEW event \in Hooks, NEW leaves \in BOOLEAN, fire(event, leaves),
           hook \in Hooks, effects \in BOOLEAN, ran \in 0..1
    PROVE  hook' \in Hooks /\ effects' \in BOOLEAN /\ ran' \in 0..1
BY TurnType, Zenon DEF fire, scripts

(* Every operation, hook, disk write and crash keeps the state typed. *)
THEOREM TypeCorrect == Spec => []TypeOK
<1>1. Init => TypeOK
  <2> SUFFICES ASSUME Init PROVE TypeOK
    BY Zenon
  <2>1. op \in OpType
    BY NothingType, Zenon DEF Init
  <2>2. res \in [Resources -> 0..2]
    BY DEF Init
  <2>3. ran \in 0..1
    BY DEF Init
  <2> QED
    BY <2>1, <2>2, <2>3, Zenon DEF Init, TypeOK, PCs, MaybeConfig, Hooks
<1>2. TypeOK /\ [Next]_vars => TypeOK'
  <2> SUFFICES ASSUME TypeOK, [Next]_vars PROVE TypeOK'
    BY Zenon
  <2> USE DEF TypeOK, disk, memory, scripts, history
  <2>1. CASE Boot
    <3>1. pc' \in PCs
      BY <2>1, Zenon DEF Boot, PCs, BootPCs
    <3> QED
      BY <3>1, <2>1 DEF Boot
  <2>2. CASE recoverAtBoot
    <3>1. pc' \in PCs
      BY <2>2, Zenon DEF recoverAtBoot, PCs, BootPCs
    <3>2. hook' \in Hooks /\ effects' \in BOOLEAN /\ ran' \in 0..1
      BY <2>2, TurnType, Zenon DEF recoverAtBoot, fire, Hooks, scripts
    <3> QED
      BY <3>1, <3>2, <2>2 DEF recoverAtBoot
  <2>3. CASE RecoverRemove
    <3>1. pc' \in PCs
      BY <2>3, Zenon DEF RecoverRemove, PCs, BootPCs
    <3>2. snapshot' \in MaybeConfig
      BY <2>3, WrittenIsEither, NothingType DEF RecoverRemove
    <3> QED
      BY <3>1, <3>2, <2>3 DEF RecoverRemove
  <2>4. CASE CheckPending
    <3>1. pc' \in PCs
      BY <2>4, Zenon DEF CheckPending, PCs, BootPCs
    <3>2. pending' \in BOOLEAN
      BY <2>4, WrittenIsEither, Zenon DEF CheckPending
    <3>3. interruptedApply' \in BOOLEAN
      BY <2>4, Zenon DEF CheckPending
    <3> QED
      BY <3>1, <3>2, <3>3, <2>4, Zenon DEF CheckPending
  <2>5. CASE BootDecide
    <3>1. op' \in OpType /\ pc' \in PCs
      <4>1. PICK badLastGood, badFile, badState \in ReadFails :
              LET boot == resolveBootConfig(badLastGood, badFile) IN
              IF boot # NoConfig /\ shouldRun(badState)
              THEN Start("boot", boot, "preStart")
              ELSE pc' = "idle" /\ UNCHANGED op
        BY <2>5, Zenon DEF BootDecide
      <4>2. resolveBootConfig(badLastGood, badFile) \in MaybeConfig
        BY OptionsAssumption, NothingType, Zenon DEF resolveBootConfig
      <4>3. "boot" \in Kinds /\ "preStart" \in PCs /\ "idle" \in PCs
        BY Zenon DEF Kinds, PCs
      <4> QED
        BY <4>1, <4>2, <4>3, StartType, Zenon
    <3> QED
      BY <3>1, <2>5 DEF BootDecide
  <2>6. ASSUME NEW content \in Configs, ApplyEnter(content) PROVE TypeOK'
    <3>1. pc' \in PCs
      BY <2>6, Zenon DEF ApplyEnter, PCs, BootPCs
    <3>2. op' \in OpType
      BY <2>6, NothingType, Zenon DEF ApplyEnter, NoOp, OpType, Kinds, MaybeConfig
    <3> QED
      BY <3>1, <3>2, <2>6, Zenon DEF ApplyEnter
  <2>7. CASE Validate
    <3>1. pc' \in PCs
      BY <2>7, Zenon DEF Validate, PCs, BootPCs
    <3>2. op' \in OpType
      BY <2>7, NothingType, Zenon DEF Validate
    <3> QED
      BY <3>1, <3>2, <2>7 DEF Validate
  <2>8. CASE SetPending
    <3>1. pc' \in PCs
      BY <2>8, Zenon DEF SetPending, PCs, BootPCs
    <3>2. op' \in OpType
      BY <2>8, NothingType, Zenon DEF SetPending, OpType
    <3>3. pending' \in BOOLEAN
      BY <2>8, Zenon DEF SetPending
    <3> QED
      BY <3>1, <3>2, <3>3, <2>8, Zenon DEF SetPending
  <2>9. CASE RollbackEnter
    <3>1. "rollback" \in Kinds /\ "preStart" \in PCs /\ "swap" \in PCs
      BY Zenon DEF Kinds, PCs
    <3>2. op' \in OpType /\ pc' \in PCs
      <4>1. CASE running
        BY <4>1, <3>1, <2>9, StartType, Zenon DEF RollbackEnter
      <4>2. CASE ~running
        BY <4>2, <3>1, <2>9, StartType, Zenon DEF RollbackEnter
      <4> QED
        BY <4>1, <4>2, Zenon
    <3> QED
      BY <3>2, <2>9, Zenon DEF RollbackEnter
  <2>10. CASE preStart
    <3>1. CASE fire("pre_start", effects) /\ pc' = "swap" /\ UNCHANGED <<op, active, running>>
      <4>1. hook' \in Hooks /\ effects' \in BOOLEAN /\ ran' \in 0..1
        BY <3>1, FireType, Zenon DEF Hooks
      <4>2. pc' \in PCs
        BY <3>1, Zenon DEF PCs
      <4> QED
        BY <4>1, <4>2, <3>1, <2>10 DEF preStart
    <3>2. CASE /\ fire("refused", effects)
               /\ active' = NoConfig /\ running' = FALSE
               /\ Leave
      <4>1. hook' \in Hooks /\ effects' \in BOOLEAN /\ ran' \in 0..1
        BY <3>2, FireType, Zenon DEF Hooks
      <4>2. op' \in OpType /\ pc' \in PCs
        BY <3>2, LeaveType, Zenon DEF PCs
      <4>3. active' \in MaybeConfig /\ running' \in BOOLEAN
        BY <3>2, NothingType, Zenon
      <4> QED
        BY <4>1, <4>2, <4>3, <2>10, Zenon DEF preStart
    <3> QED
      BY <3>1, <3>2, <2>10, Zenon DEF preStart
  <2>11. CASE Swap
    <3>1. pc' \in PCs
      BY <2>11, Zenon DEF Swap, PCs, BootPCs
    <3>2. core' \in MaybeConfig
      BY <2>11, NothingType, Zenon DEF Swap
    <3>3. intent' \in {"none", "run", "stop"}
      BY <2>11, Zenon DEF Swap
    <3> QED
      BY <3>1, <3>2, <3>3, <2>11, Zenon DEF Swap
  <2>12. CASE StartSucceeds
    <3>1. pc' \in PCs
      BY <2>12, Zenon DEF StartSucceeds, PCs, BootPCs
    <3>2. core' \in MaybeConfig
      BY <2>12, OpFields, Zenon DEF StartSucceeds
    <3>3. started' \in SUBSET MaybeConfig
      BY <2>12, OpFields, Zenon DEF StartSucceeds
    <3> QED
      BY <3>1, <3>2, <3>3, <2>12 DEF StartSucceeds
  <2>13. CASE StartFails
    <3>1. pc' \in PCs
      BY <2>13, Zenon DEF StartFails, PCs, BootPCs
    <3>2. op' \in OpType
      BY <2>13, BoundAssumption DEF StartFails, OpType
    <3> QED
      BY <3>1, <3>2, <2>13 DEF StartFails
  <2>14. CASE Fallback
    <3>1. pc' \in PCs
      BY <2>14, Zenon DEF Fallback, PCs, BootPCs
    <3>2. op' \in OpType
      BY <2>14, Zenon DEF Fallback, OpType
    <3> QED
      BY <3>1, <3>2, <2>14 DEF Fallback
  <2>15. CASE SetWasRunning
    <3>1. pc' \in PCs
      BY <2>15, Zenon DEF SetWasRunning, PCs, BootPCs
    <3>2. runState' \in {"absent", "0", "1"}
      BY <2>15, WrittenIsEither, Zenon DEF SetWasRunning
    <3> QED
      BY <3>1, <3>2, <2>15, Zenon DEF SetWasRunning
  <2>16. CASE SaveLastGood
    <3>1. pc' \in PCs
      BY <2>16, Zenon DEF SaveLastGood, PCs, BootPCs
    <3>2. lastGood' \in MaybeConfig
      BY <2>16, WrittenIsEither, OpFields DEF SaveLastGood
    <3> QED
      BY <3>1, <3>2, <2>16 DEF SaveLastGood
  <2>17. CASE setActive
    <3>1. pc' \in PCs
      BY <2>17, Zenon DEF setActive, PCs, BootPCs
    <3>2. active' \in MaybeConfig
      BY <2>17, OpFields, Zenon DEF setActive
    <3>3. running' \in BOOLEAN
      BY <2>17, Zenon DEF setActive
    <3> QED
      BY <3>1, <3>2, <3>3, <2>17, Zenon DEF setActive
  <2>18. CASE writeState
    <3>1. pc' \in PCs
      BY <2>18, Zenon DEF writeState, PCs, BootPCs
    <3>2. snapshot' \in MaybeConfig
      BY <2>18, WrittenIsEither, OpFields DEF writeState
    <3> QED
      BY <3>1, <3>2, <2>18 DEF writeState
  <2>19. CASE announceSwap
    <3>1. op' \in OpType
      BY <2>19, LeaveType, Zenon DEF announceSwap
    <3>2. pc' \in PCs
      BY <2>19, LeaveType, Zenon DEF announceSwap, PCs, BootPCs
    <3>3. hook' \in Hooks /\ effects' \in BOOLEAN /\ ran' \in 0..1
      BY <2>19, FireType, Zenon DEF announceSwap, Hooks
    <3>4. intent' \in {"none", "run", "stop"}
      BY <2>19, Zenon DEF announceSwap
    <3> QED
      BY <3>1, <3>2, <3>3, <3>4, <2>19, Zenon DEF announceSwap
  <2>20. CASE setFatal
    <3>1. pc' \in PCs
      BY <2>20, Zenon DEF setFatal, PCs, BootPCs
    <3>2. active' \in MaybeConfig
      BY <2>20, NothingType, Zenon DEF setFatal
    <3>3. running' \in BOOLEAN
      BY <2>20, Zenon DEF setFatal
    <3> QED
      BY <3>1, <3>2, <3>3, <2>20, Zenon DEF setFatal
  <2>21. CASE postStop
    <3>1. pc' \in PCs
      BY <2>21, Zenon DEF postStop, PCs, BootPCs
    <3>2. hook' \in Hooks /\ effects' \in BOOLEAN /\ ran' \in 0..1
      BY <2>21, FireType, Zenon DEF postStop, Hooks
    <3> QED
      BY <3>1, <3>2, <2>21 DEF postStop
  <2>22. CASE removeState
    <3>1. op' \in OpType
      BY <2>22, LeaveType, Zenon DEF removeState
    <3>2. pc' \in PCs
      BY <2>22, LeaveType, Zenon DEF removeState, PCs, BootPCs
    <3>3. snapshot' \in MaybeConfig
      BY <2>22, WrittenIsEither, NothingType DEF removeState
    <3> QED
      BY <3>1, <3>2, <3>3, <2>22 DEF removeState
  <2>23. CASE ClearPending
    <3>1. pc' \in PCs
      BY <2>23, Zenon DEF ClearPending, PCs, BootPCs
    <3>2. op' \in OpType
      BY <2>23, NothingType, Zenon DEF ClearPending
    <3>3. pending' \in BOOLEAN
      BY <2>23, WrittenIsEither, Zenon DEF ClearPending
    <3> QED
      BY <3>1, <3>2, <3>3, <2>23, Zenon DEF ClearPending
  <2>24. CASE StopEnter
    <3>1. runState' \in {"absent", "0", "1"}
      BY <2>24, WrittenIsEither, Zenon DEF StopEnter
    <3>2. "stop" \in Kinds /\ "close" \in PCs
      BY Zenon DEF Kinds, PCs
    <3>3. op' \in OpType /\ pc' \in PCs
      BY <3>2, <2>24, StartType, NothingType, Zenon DEF StopEnter
    <3> QED
      BY <3>1, <3>3, <2>24, Zenon DEF StopEnter
  <2>25. CASE CloseCore
    <3>1. op' \in OpType
      BY <2>25, LeaveType, Zenon DEF CloseCore
    <3>2. pc' \in PCs
      BY <2>25, LeaveType, Zenon DEF CloseCore, PCs, BootPCs
    <3>3. core' \in MaybeConfig
      BY <2>25, NothingType, Zenon DEF CloseCore
    <3>4. active' \in MaybeConfig
      BY <2>25, NothingType, Zenon DEF CloseCore
    <3>5. running' \in BOOLEAN
      BY <2>25, Zenon DEF CloseCore
    <3>6. intent' \in {"none", "run", "stop"}
      BY <2>25, Zenon DEF CloseCore
    <3> QED
      BY <3>1, <3>2, <3>3, <3>4, <3>5, <3>6, <2>25, Zenon DEF CloseCore
  <2>26. CASE Sigterm
    <3>1. sigterm' \in BOOLEAN
      BY <2>26, Zenon DEF Sigterm
    <3> QED
      BY <3>1, <2>26, Zenon DEF Sigterm
  <2>27. CASE ShutdownEnter
    <3>1. "shutdown" \in Kinds /\ "close" \in PCs
      BY Zenon DEF Kinds, PCs
    <3>2. op' \in OpType /\ pc' \in PCs
      BY <3>1, <2>27, StartType, NothingType, Zenon DEF ShutdownEnter
    <3>3. closed' \in BOOLEAN
      BY <2>27, Zenon DEF ShutdownEnter
    <3> QED
      BY <3>2, <3>3, <2>27, Zenon DEF ShutdownEnter
  <2>28. ASSUME NEW r \in Resources, PutEnter(r) PROVE TypeOK'
    <3>1. pc' \in PCs
      BY <2>28, Zenon DEF PutEnter, PCs, BootPCs
    <3>2. op' \in OpType
      BY <2>28, NothingType, Zenon DEF PutEnter, NoOp, OpType, Kinds
    <3> QED
      BY <3>1, <3>2, <2>28 DEF PutEnter
  <2>29. CASE Put
    <3>1. pc' \in PCs
      BY <2>29, Zenon DEF Put, PCs, BootPCs
    <3>2. op' \in OpType
      BY <2>29, NothingType, Zenon DEF Put
    <3>3. res' \in [Resources -> 0..2]
      BY <2>29 DEF Put
    <3> QED
      BY <3>1, <3>2, <3>3, <2>29 DEF Put
  <2>30. ASSUME NEW r \in Resources, Delete(r) PROVE TypeOK'
    <3>1. res' \in [Resources -> 0..2]
      BY <2>30 DEF Delete
    <3> QED
      BY <3>1, <2>30 DEF Delete
  <2>31. CASE Exit
    <3>1. pc' \in PCs
      BY <2>31, Zenon DEF Exit, PCs, BootPCs, ProcessEnds
    <3>2. op' \in OpType
      BY <2>31, NothingType, Zenon DEF Exit, ProcessEnds
    <3>3. core' \in MaybeConfig
      BY <2>31, NothingType, Zenon DEF Exit, ProcessEnds
    <3>4. active' \in MaybeConfig
      BY <2>31, NothingType, Zenon DEF Exit, ProcessEnds
    <3>5. /\ running' \in BOOLEAN /\ interruptedApply' \in BOOLEAN
          /\ closed' \in BOOLEAN /\ sigterm' \in BOOLEAN
      BY <2>31, Zenon DEF Exit, ProcessEnds
    <3>6. hook' \in Hooks /\ effects' \in BOOLEAN /\ ran' \in 0..1
      BY <2>31, Zenon DEF Exit, ProcessEnds, Hooks
    <3>7. diedInSwap' \in BOOLEAN
      BY <2>31, Zenon DEF Exit
    <3> QED
      BY <3>1, <3>2, <3>3, <3>4, <3>5, <3>6, <3>7, <2>31, Zenon DEF Exit, ProcessEnds
  <2>32. CASE Crash
    <3>1. pc' \in PCs
      BY <2>32, Zenon DEF Crash, PCs, BootPCs, ProcessEnds
    <3>2. op' \in OpType
      BY <2>32, NothingType, Zenon DEF Crash, ProcessEnds
    <3>3. core' \in MaybeConfig
      BY <2>32, NothingType, Zenon DEF Crash, ProcessEnds
    <3>4. active' \in MaybeConfig
      BY <2>32, NothingType, Zenon DEF Crash, ProcessEnds
    <3>5. /\ running' \in BOOLEAN /\ interruptedApply' \in BOOLEAN
          /\ closed' \in BOOLEAN /\ sigterm' \in BOOLEAN
      BY <2>32, Zenon DEF Crash, ProcessEnds
    <3>6. hook' \in Hooks /\ effects' \in BOOLEAN /\ ran' \in 0..1
      BY <2>32, Zenon DEF Crash, ProcessEnds, Hooks
    <3>7. diedInSwap' \in BOOLEAN
      BY <2>32, Zenon DEF Crash
    <3> QED
      BY <3>1, <3>2, <3>3, <3>4, <3>5, <3>6, <3>7, <2>32, Zenon DEF Crash, ProcessEnds
  <2>33. CASE UNCHANGED vars
    BY <2>33 DEF vars
  <2> QED
    BY <2>1, <2>2, <2>3, <2>4, <2>5, <2>6, <2>7, <2>8, <2>9, <2>10, <2>11, <2>12,
       <2>13, <2>14, <2>15, <2>16, <2>17, <2>18, <2>19, <2>20, <2>21, <2>22, <2>23,
       <2>24, <2>25, <2>26, <2>27, <2>28, <2>29, <2>30, <2>31, <2>32, <2>33, Zenon
       DEF Next, Proceed
<1> QED
  BY <1>1, <1>2, PTL DEF Spec
-----------------------------------------------------------------------------
(* Each point keeps what it knows of its operation. *)
LEMMA OpStep ==
    ASSUME TypeOK, OpInv, [Next]_vars
    PROVE  OpInv'
<1> USE DEF disk, memory, scripts, history
<1>1. CASE Boot
  BY <1>1, Zenon DEF Boot, TypeOK, OpInv, resourceReferenced, BringUpPCs, UpPCs, RestPCs, BootPCs
<1>2. CASE recoverAtBoot
  BY <1>2, Zenon DEF recoverAtBoot, TypeOK, OpInv, resourceReferenced, BringUpPCs, UpPCs, RestPCs,
         BootPCs
<1>3. CASE RecoverRemove
  BY <1>3, Zenon DEF RecoverRemove, TypeOK, OpInv, resourceReferenced, BringUpPCs, UpPCs, RestPCs,
         BootPCs
<1>4. CASE CheckPending
  BY <1>4, Zenon DEF CheckPending, TypeOK, OpInv, resourceReferenced, BringUpPCs, UpPCs, RestPCs,
         BootPCs
<1>5. CASE BootDecide
  <2>1. PICK badLastGood, badFile, badState \in ReadFails :
          LET boot == resolveBootConfig(badLastGood, badFile) IN
          IF boot # NoConfig /\ shouldRun(badState)
          THEN Start("boot", boot, "preStart")
          ELSE pc' = "idle" /\ UNCHANGED op
    BY <1>5, Zenon DEF BootDecide
  <2>2. resolveBootConfig(badLastGood, badFile) \in MaybeConfig
    BY OptionsAssumption, NothingType, Zenon DEF resolveBootConfig, TypeOK
  <2>3. pc = "b_resolve" /\ UNCHANGED closed
    BY <1>5, Zenon DEF BootDecide
  <2>4. CASE /\ resolveBootConfig(badLastGood, badFile) \in Configs
             /\ op' = [NoOp EXCEPT !.kind = "boot", !.content = resolveBootConfig(badLastGood, badFile),
                                    !.wasRunning = running]
             /\ pc' = "preStart"
    BY <2>4, <2>3, Zenon DEF NoOp, OpInv, BringUpPCs, UpPCs
  <2>5. CASE pc' = "idle" /\ UNCHANGED op
    BY <2>5, <2>3, Zenon DEF OpInv, BringUpPCs, UpPCs
  <2> QED
    BY <2>1, <2>2, <2>4, <2>5, Zenon DEF Start, MaybeConfig
<1>6. ASSUME NEW content \in Configs, ApplyEnter(content) PROVE OpInv'
  BY <1>6, Zenon DEF ApplyEnter, NoOp, TypeOK, OpInv, resourceReferenced, BringUpPCs, UpPCs,
         RestPCs, BootPCs
<1>7. CASE Validate
  BY <1>7 DEF Validate, NoOp, TypeOK, OpInv, resourceReferenced, BringUpPCs, UpPCs, RestPCs,
     BootPCs
<1>8. CASE SetPending
  <2>1. UNCHANGED closed /\ pc = "a_pending"
    BY <1>8, Zenon DEF SetPending
  <2>2. \/ op'.kind = op.kind /\ op'.content = op.content /\ pc' \in {"swap", "preStart"}
        \/ op' = NoOp /\ pc' = "idle"
    BY <1>8, Zenon DEF SetPending, TypeOK, OpType
  <2> QED
    BY <2>1, <2>2 DEF OpInv, NoOp, BringUpPCs, UpPCs
<1>9. CASE RollbackEnter
  <2>1. lastGood \in Configs /\ ~closed /\ UNCHANGED closed
    BY <1>9, Zenon DEF RollbackEnter, TypeOK, MaybeConfig
  <2>2. /\ op'.kind = "rollback" /\ op'.content = lastGood
        /\ pc' \in {"swap", "preStart"}
    BY <1>9, Zenon DEF RollbackEnter, Start, NoOp
  <2> QED
    BY <2>1, <2>2, Zenon DEF OpInv, BringUpPCs, UpPCs
<1>10. CASE preStart
  <2>1. pc = "preStart" /\ UNCHANGED closed /\ ~closed
    BY <1>10, Zenon DEF preStart, OpInv
  <2>2. \/ pc' = "swap" /\ UNCHANGED op
        \/ pc' = "a_clear" /\ op.kind = "apply" /\ UNCHANGED op
        \/ pc' = "idle" /\ op' = NoOp
    BY <1>10, Zenon DEF preStart, Leave
  <2> QED
    BY <2>1, <2>2 DEF OpInv, NoOp, BringUpPCs, UpPCs
<1>11. CASE Swap
  BY <1>11, Zenon DEF Swap, TypeOK, OpInv, resourceReferenced, BringUpPCs, UpPCs, RestPCs, BootPCs
<1>12. CASE StartSucceeds
  BY <1>12, Zenon DEF StartSucceeds, TypeOK, OpInv, resourceReferenced, BringUpPCs, UpPCs,
         RestPCs, BootPCs
<1>13. CASE StartFails
  <2>1. UNCHANGED closed /\ pc = "starting"
    BY <1>13, Zenon DEF StartFails
  <2>2. /\ op'.kind = op.kind /\ op'.content = op.content
        /\ pc' \in {"swap", "fallback", "setFatal"}
    BY <1>13, Zenon DEF StartFails, TypeOK, OpType
  <2> QED
    BY <2>1, <2>2, Zenon DEF OpInv, BringUpPCs, UpPCs
<1>14. CASE Fallback
  <2>1. UNCHANGED closed /\ pc = "fallback"
    BY <1>14, Zenon DEF Fallback
  <2>2. /\ op'.kind = op.kind /\ op'.content \in {op.content, lastGood} \ {NoConfig}
        /\ pc' \in {"swap", "setFatal"}
    BY <1>14, <2>1, ConfigAssumption, Zenon DEF Fallback, TypeOK, OpInv, OpType, BringUpPCs
  <2>3. op'.content \in Configs
    BY <2>1, <2>2, Zenon DEF TypeOK, OpInv, MaybeConfig, BringUpPCs
  <2> QED
    BY <2>1, <2>2, <2>3, Zenon DEF OpInv, BringUpPCs, UpPCs
<1>15. CASE SetWasRunning
  BY <1>15, Zenon DEF SetWasRunning, TypeOK, OpInv, resourceReferenced, BringUpPCs, UpPCs,
         RestPCs, BootPCs
<1>16. CASE SaveLastGood
  BY <1>16, Zenon DEF SaveLastGood, TypeOK, OpInv, resourceReferenced, BringUpPCs, UpPCs, RestPCs,
         BootPCs
<1>17. CASE setActive
  BY <1>17, Zenon DEF setActive, TypeOK, OpInv, resourceReferenced, BringUpPCs, UpPCs, RestPCs,
         BootPCs
<1>18. CASE writeState
  BY <1>18, Zenon DEF writeState, TypeOK, OpInv, resourceReferenced, BringUpPCs, UpPCs, RestPCs,
         BootPCs
<1>19. CASE announceSwap
  BY <1>19, SMTT(20) DEF announceSwap, Leave, NoOp, TypeOK, OpInv, resourceReferenced, BringUpPCs,
     UpPCs, RestPCs, BootPCs
<1>20. CASE setFatal
  BY <1>20, Zenon DEF setFatal, TypeOK, OpInv, resourceReferenced, BringUpPCs, UpPCs, RestPCs,
         BootPCs
<1>21. CASE postStop
  BY <1>21, Zenon DEF postStop, TypeOK, OpInv, resourceReferenced, BringUpPCs, UpPCs, RestPCs,
         BootPCs
<1>22. CASE removeState
  BY <1>22, SMTT(20) DEF removeState, Leave, NoOp, TypeOK, OpInv, resourceReferenced, BringUpPCs,
     UpPCs, RestPCs, BootPCs
<1>23. CASE ClearPending
  BY <1>23, Zenon DEF ClearPending, NoOp, TypeOK, OpInv, resourceReferenced, BringUpPCs, UpPCs,
         RestPCs, BootPCs
<1>24. CASE StopEnter
  BY <1>24, Zenon DEF StopEnter, Start, NoOp, TypeOK, OpInv, resourceReferenced, BringUpPCs,
         UpPCs, RestPCs, BootPCs
<1>25. CASE CloseCore
  BY <1>25 DEF CloseCore, Leave, NoOp, TypeOK, OpInv, resourceReferenced, BringUpPCs, UpPCs,
     RestPCs, BootPCs
<1>26. CASE Sigterm
  BY <1>26, Zenon DEF Sigterm, TypeOK, OpInv, resourceReferenced, BringUpPCs, UpPCs, RestPCs,
         BootPCs
<1>27. CASE ShutdownEnter
  BY <1>27, Zenon DEF ShutdownEnter, Start, NoOp, TypeOK, OpInv, resourceReferenced, BringUpPCs,
         UpPCs, RestPCs, BootPCs
<1>28. ASSUME NEW r \in Resources, PutEnter(r) PROVE OpInv'
  BY <1>28, Zenon DEF PutEnter, NoOp, TypeOK, OpInv, resourceReferenced, BringUpPCs, UpPCs,
         RestPCs, BootPCs
<1>29. CASE Put
  BY <1>29, Zenon DEF Put, NoOp, TypeOK, OpInv, resourceReferenced, BringUpPCs, UpPCs, RestPCs,
         BootPCs
<1>30. ASSUME NEW r \in Resources, Delete(r) PROVE OpInv'
  BY <1>30, Zenon DEF Delete, TypeOK, OpInv, resourceReferenced, BringUpPCs, UpPCs, RestPCs,
         BootPCs
<1>31. CASE Exit
  BY <1>31, Zenon DEF Exit, ProcessEnds, NoOp, TypeOK, OpInv, resourceReferenced, BringUpPCs,
         UpPCs, RestPCs, BootPCs
<1>32. CASE Crash
  BY <1>32, Zenon DEF Crash, ProcessEnds, NoOp, TypeOK, OpInv, resourceReferenced, BringUpPCs,
         UpPCs, RestPCs, BootPCs
<1>33. CASE UNCHANGED vars
  BY <1>33, Zenon DEF vars, TypeOK, OpInv, resourceReferenced, BringUpPCs, UpPCs, RestPCs, BootPCs
<1> QED
  BY <1>1, <1>2, <1>3, <1>4, <1>5, <1>6, <1>7, <1>8, <1>9, <1>10, <1>11, <1>12,
     <1>13, <1>14, <1>15, <1>16, <1>17, <1>18, <1>19, <1>20, <1>21, <1>22, <1>23,
     <1>24, <1>25, <1>26, <1>27, <1>28, <1>29, <1>30, <1>31, <1>32, <1>33
     DEF Next, Proceed

(* Memory and core agree wherever the operation in progress says so. *)
LEMMA MemoryStep ==
    ASSUME TypeOK, OpInv, MemoryInv, [Next]_vars
    PROVE  MemoryInv'
<1> USE DEF disk, memory, scripts, history
<1>1. CASE Boot
  BY <1>1, Zenon DEF Boot, OpInv, MemoryInv, Agree, BringUpPCs, UpPCs, RestPCs, BootPCs
<1>2. CASE recoverAtBoot
  BY <1>2, Zenon DEF recoverAtBoot, OpInv, MemoryInv, Agree, BringUpPCs, UpPCs, RestPCs, BootPCs
<1>3. CASE RecoverRemove
  BY <1>3, Zenon DEF RecoverRemove, OpInv, MemoryInv, Agree, BringUpPCs, UpPCs, RestPCs, BootPCs
<1>4. CASE CheckPending
  BY <1>4, Zenon DEF CheckPending, OpInv, MemoryInv, Agree, BringUpPCs, UpPCs, RestPCs, BootPCs
<1>5. CASE BootDecide
  BY <1>5, Zenon DEF BootDecide, Start, NoOp, OpInv, MemoryInv, Agree, BringUpPCs, UpPCs, RestPCs,
         BootPCs
<1>6. ASSUME NEW content \in Configs, ApplyEnter(content) PROVE MemoryInv'
  BY <1>6, Zenon DEF ApplyEnter, NoOp, OpInv, MemoryInv, Agree, BringUpPCs, UpPCs, RestPCs,
         BootPCs
<1>7. CASE Validate
  BY <1>7, Zenon DEF Validate, NoOp, OpInv, MemoryInv, Agree, BringUpPCs, UpPCs, RestPCs, BootPCs
<1>8. CASE SetPending
  BY <1>8, Zenon DEF SetPending, NoOp, OpInv, MemoryInv, Agree, BringUpPCs, UpPCs, RestPCs,
         BootPCs
<1>9. CASE RollbackEnter
  BY <1>9, Zenon DEF RollbackEnter, Start, NoOp, OpInv, MemoryInv, Agree, BringUpPCs, UpPCs,
         RestPCs, BootPCs
<1>10. CASE preStart
  BY <1>10, Zenon DEF preStart, Leave, NoOp, OpInv, MemoryInv, Agree, BringUpPCs, UpPCs, RestPCs,
         BootPCs
<1>11. CASE Swap
  BY <1>11, Zenon DEF Swap, OpInv, MemoryInv, Agree, BringUpPCs, UpPCs, RestPCs, BootPCs
<1>12. CASE StartSucceeds
  BY <1>12, Zenon DEF StartSucceeds, OpInv, MemoryInv, Agree, BringUpPCs, UpPCs, RestPCs, BootPCs
<1>13. CASE StartFails
  BY <1>13, Zenon DEF StartFails, OpInv, MemoryInv, Agree, BringUpPCs, UpPCs, RestPCs, BootPCs
<1>14. CASE Fallback
  BY <1>14, Zenon DEF Fallback, OpInv, MemoryInv, Agree, BringUpPCs, UpPCs, RestPCs, BootPCs
<1>15. CASE SetWasRunning
  BY <1>15, Zenon DEF SetWasRunning, OpInv, MemoryInv, Agree, BringUpPCs, UpPCs, RestPCs, BootPCs
<1>16. CASE SaveLastGood
  BY <1>16, Zenon DEF SaveLastGood, OpInv, MemoryInv, Agree, BringUpPCs, UpPCs, RestPCs, BootPCs
<1>17. CASE setActive
  <2>1. op.content # NoConfig /\ core = op.content
    BY <1>17, ConfigAssumption, Zenon DEF setActive, OpInv, MemoryInv, UpPCs
  <2> QED
    BY <1>17, <2>1, Zenon DEF setActive, OpInv, MemoryInv, Agree, BringUpPCs, UpPCs, RestPCs,
           BootPCs
<1>18. CASE writeState
  BY <1>18, Zenon DEF writeState, OpInv, MemoryInv, Agree, BringUpPCs, UpPCs, RestPCs, BootPCs
<1>19. CASE announceSwap
  BY <1>19, Zenon DEF announceSwap, Leave, NoOp, OpInv, MemoryInv, Agree, BringUpPCs, UpPCs,
         RestPCs, BootPCs
<1>20. CASE setFatal
  BY <1>20, Zenon DEF setFatal, OpInv, MemoryInv, Agree, BringUpPCs, UpPCs, RestPCs, BootPCs
<1>21. CASE postStop
  BY <1>21, Zenon DEF postStop, OpInv, MemoryInv, Agree, BringUpPCs, UpPCs, RestPCs, BootPCs
<1>22. CASE removeState
  BY <1>22, Zenon DEF removeState, Leave, NoOp, OpInv, MemoryInv, Agree, BringUpPCs, UpPCs,
         RestPCs, BootPCs
<1>23. CASE ClearPending
  BY <1>23, Zenon DEF ClearPending, NoOp, OpInv, MemoryInv, Agree, BringUpPCs, UpPCs, RestPCs,
         BootPCs
<1>24. CASE StopEnter
  BY <1>24, Zenon DEF StopEnter, Start, NoOp, OpInv, MemoryInv, Agree, BringUpPCs, UpPCs, RestPCs,
         BootPCs
<1>25. CASE CloseCore
  BY <1>25, Zenon DEF CloseCore, Leave, NoOp, OpInv, MemoryInv, Agree, BringUpPCs, UpPCs, RestPCs,
         BootPCs
<1>26. CASE Sigterm
  BY <1>26, Zenon DEF Sigterm, OpInv, MemoryInv, Agree, BringUpPCs, UpPCs, RestPCs, BootPCs
<1>27. CASE ShutdownEnter
  BY <1>27, Zenon DEF ShutdownEnter, Start, NoOp, OpInv, MemoryInv, Agree, BringUpPCs, UpPCs,
         RestPCs, BootPCs
<1>28. ASSUME NEW r \in Resources, PutEnter(r) PROVE MemoryInv'
  BY <1>28, Zenon DEF PutEnter, NoOp, OpInv, MemoryInv, Agree, BringUpPCs, UpPCs, RestPCs, BootPCs
<1>29. CASE Put
  BY <1>29, Zenon DEF Put, NoOp, OpInv, MemoryInv, Agree, BringUpPCs, UpPCs, RestPCs, BootPCs
<1>30. ASSUME NEW r \in Resources, Delete(r) PROVE MemoryInv'
  BY <1>30, Zenon DEF Delete, OpInv, MemoryInv, Agree, BringUpPCs, UpPCs, RestPCs, BootPCs
<1>31. CASE Exit
  BY <1>31, Zenon DEF Exit, ProcessEnds, NoOp, OpInv, MemoryInv, Agree, BringUpPCs, UpPCs,
         RestPCs, BootPCs
<1>32. CASE Crash
  BY <1>32, Zenon DEF Crash, ProcessEnds, NoOp, OpInv, MemoryInv, Agree, BringUpPCs, UpPCs,
         RestPCs, BootPCs
<1>33. CASE UNCHANGED vars
  BY <1>33, Zenon DEF vars, OpInv, MemoryInv, Agree, BringUpPCs, UpPCs, RestPCs, BootPCs
<1> QED
  BY <1>1, <1>2, <1>3, <1>4, <1>5, <1>6, <1>7, <1>8, <1>9, <1>10, <1>11, <1>12,
     <1>13, <1>14, <1>15, <1>16, <1>17, <1>18, <1>19, <1>20, <1>21, <1>22, <1>23,
     <1>24, <1>25, <1>26, <1>27, <1>28, <1>29, <1>30, <1>31, <1>32, <1>33
     DEF Next, Proceed

(* Only a configuration that came up becomes last-good. *)
LEMMA GoodStep ==
    ASSUME TypeOK, OpInv, GoodInv, [Next]_vars
    PROVE  GoodInv'
<1> USE DEF disk, memory, scripts, history
<1>1. CASE Boot
  BY <1>1, Zenon DEF Boot, OpInv, GoodInv, LastGoodStarted, BringUpPCs, UpPCs, RestPCs, BootPCs
<1>2. CASE recoverAtBoot
  BY <1>2, Zenon DEF recoverAtBoot, OpInv, GoodInv, LastGoodStarted, BringUpPCs, UpPCs, RestPCs,
         BootPCs
<1>3. CASE RecoverRemove
  BY <1>3, Zenon DEF RecoverRemove, OpInv, GoodInv, LastGoodStarted, BringUpPCs, UpPCs, RestPCs,
         BootPCs
<1>4. CASE CheckPending
  BY <1>4, Zenon DEF CheckPending, OpInv, GoodInv, LastGoodStarted, BringUpPCs, UpPCs, RestPCs,
         BootPCs
<1>5. CASE BootDecide
  BY <1>5, Zenon DEF BootDecide, Start, NoOp, OpInv, GoodInv, LastGoodStarted, BringUpPCs, UpPCs,
         RestPCs, BootPCs
<1>6. ASSUME NEW content \in Configs, ApplyEnter(content) PROVE GoodInv'
  BY <1>6, Zenon DEF ApplyEnter, NoOp, OpInv, GoodInv, LastGoodStarted, BringUpPCs, UpPCs,
         RestPCs, BootPCs
<1>7. CASE Validate
  BY <1>7, Zenon DEF Validate, NoOp, OpInv, GoodInv, LastGoodStarted, BringUpPCs, UpPCs, RestPCs,
         BootPCs
<1>8. CASE SetPending
  BY <1>8, Zenon DEF SetPending, NoOp, OpInv, GoodInv, LastGoodStarted, BringUpPCs, UpPCs,
         RestPCs, BootPCs
<1>9. CASE RollbackEnter
  BY <1>9, Zenon DEF RollbackEnter, Start, NoOp, OpInv, GoodInv, LastGoodStarted, BringUpPCs,
         UpPCs, RestPCs, BootPCs
<1>10. CASE preStart
  BY <1>10, Zenon DEF preStart, Leave, NoOp, OpInv, GoodInv, LastGoodStarted, BringUpPCs, UpPCs,
         RestPCs, BootPCs
<1>11. CASE Swap
  BY <1>11, Zenon DEF Swap, OpInv, GoodInv, LastGoodStarted, BringUpPCs, UpPCs, RestPCs, BootPCs
<1>12. CASE StartSucceeds
  BY <1>12, Zenon DEF StartSucceeds, OpInv, GoodInv, LastGoodStarted, BringUpPCs, UpPCs, RestPCs,
         BootPCs
<1>13. CASE StartFails
  BY <1>13, Zenon DEF StartFails, OpInv, GoodInv, LastGoodStarted, BringUpPCs, UpPCs, RestPCs,
         BootPCs
<1>14. CASE Fallback
  BY <1>14, Zenon DEF Fallback, OpInv, GoodInv, LastGoodStarted, BringUpPCs, UpPCs, RestPCs,
         BootPCs
<1>15. CASE SetWasRunning
  BY <1>15, Zenon DEF SetWasRunning, OpInv, GoodInv, LastGoodStarted, BringUpPCs, UpPCs, RestPCs,
         BootPCs
<1>16. CASE SaveLastGood
  <2>1. lastGood' \in {lastGood, op.content}
    BY <1>16, WrittenIsEither, Zenon DEF SaveLastGood
  <2> QED
    BY <1>16, <2>1, Zenon DEF SaveLastGood, GoodInv, LastGoodStarted, UpPCs
<1>17. CASE setActive
  BY <1>17, Zenon DEF setActive, OpInv, GoodInv, LastGoodStarted, BringUpPCs, UpPCs, RestPCs,
         BootPCs
<1>18. CASE writeState
  BY <1>18, Zenon DEF writeState, OpInv, GoodInv, LastGoodStarted, BringUpPCs, UpPCs, RestPCs,
         BootPCs
<1>19. CASE announceSwap
  BY <1>19, Zenon DEF announceSwap, Leave, NoOp, OpInv, GoodInv, LastGoodStarted, BringUpPCs,
         UpPCs, RestPCs, BootPCs
<1>20. CASE setFatal
  BY <1>20, Zenon DEF setFatal, OpInv, GoodInv, LastGoodStarted, BringUpPCs, UpPCs, RestPCs,
         BootPCs
<1>21. CASE postStop
  BY <1>21, Zenon DEF postStop, OpInv, GoodInv, LastGoodStarted, BringUpPCs, UpPCs, RestPCs,
         BootPCs
<1>22. CASE removeState
  BY <1>22, Zenon DEF removeState, Leave, NoOp, OpInv, GoodInv, LastGoodStarted, BringUpPCs,
         UpPCs, RestPCs, BootPCs
<1>23. CASE ClearPending
  BY <1>23, Zenon DEF ClearPending, NoOp, OpInv, GoodInv, LastGoodStarted, BringUpPCs, UpPCs,
         RestPCs, BootPCs
<1>24. CASE StopEnter
  BY <1>24, Zenon DEF StopEnter, Start, NoOp, OpInv, GoodInv, LastGoodStarted, BringUpPCs, UpPCs,
         RestPCs, BootPCs
<1>25. CASE CloseCore
  BY <1>25, Zenon DEF CloseCore, Leave, NoOp, OpInv, GoodInv, LastGoodStarted, BringUpPCs, UpPCs,
         RestPCs, BootPCs
<1>26. CASE Sigterm
  BY <1>26, Zenon DEF Sigterm, OpInv, GoodInv, LastGoodStarted, BringUpPCs, UpPCs, RestPCs,
         BootPCs
<1>27. CASE ShutdownEnter
  BY <1>27, Zenon DEF ShutdownEnter, Start, NoOp, OpInv, GoodInv, LastGoodStarted, BringUpPCs,
         UpPCs, RestPCs, BootPCs
<1>28. ASSUME NEW r \in Resources, PutEnter(r) PROVE GoodInv'
  BY <1>28, Zenon DEF PutEnter, NoOp, OpInv, GoodInv, LastGoodStarted, BringUpPCs, UpPCs, RestPCs,
         BootPCs
<1>29. CASE Put
  BY <1>29, Zenon DEF Put, NoOp, OpInv, GoodInv, LastGoodStarted, BringUpPCs, UpPCs, RestPCs,
         BootPCs
<1>30. ASSUME NEW r \in Resources, Delete(r) PROVE GoodInv'
  BY <1>30, Zenon DEF Delete, OpInv, GoodInv, LastGoodStarted, BringUpPCs, UpPCs, RestPCs, BootPCs
<1>31. CASE Exit
  BY <1>31, Zenon DEF Exit, ProcessEnds, NoOp, OpInv, GoodInv, LastGoodStarted, BringUpPCs, UpPCs,
         RestPCs, BootPCs
<1>32. CASE Crash
  BY <1>32, Zenon DEF Crash, ProcessEnds, NoOp, OpInv, GoodInv, LastGoodStarted, BringUpPCs,
         UpPCs, RestPCs, BootPCs
<1>33. CASE UNCHANGED vars
  BY <1>33, Zenon DEF vars, OpInv, GoodInv, LastGoodStarted, BringUpPCs, UpPCs, RestPCs, BootPCs
<1> QED
  BY <1>1, <1>2, <1>3, <1>4, <1>5, <1>6, <1>7, <1>8, <1>9, <1>10, <1>11, <1>12,
     <1>13, <1>14, <1>15, <1>16, <1>17, <1>18, <1>19, <1>20, <1>21, <1>22, <1>23,
     <1>24, <1>25, <1>26, <1>27, <1>28, <1>29, <1>30, <1>31, <1>32, <1>33
     DEF Next, Proceed

-----------------------------------------------------------------------------
(* The inductive invariant: at each point of the operation in progress the *)
(* daemon's memory, the core and last-good stand as CoreInv says, whatever *)
(* reads and writes fail and wherever the process dies.                    *)
THEOREM CoreInvariant == Spec => [](TypeOK /\ CoreInv)
<1>1. Init => CoreInv
  BY SMTT(20) DEF Init, CoreInv, OpInv, MemoryInv, GoodInv, LastGoodStarted, Agree, NoOp, BringUpPCs,
         UpPCs, RestPCs, BootPCs
<1>2. TypeOK /\ CoreInv /\ [Next]_vars => CoreInv'
  BY OpStep, MemoryStep, GoodStep, Zenon DEF CoreInv
<1> QED
  BY <1>1, <1>2, TypeCorrect, PTL DEF Spec

(* last_good.json only ever names a configuration that came up once        *)
(* (SaveLastGood after the swap), for any number of configurations.        *)
THEOREM LastGoodIsProven == Spec => []LastGoodStarted
<1>1. CoreInv => LastGoodStarted
  BY Zenon DEF CoreInv, GoodInv
<1> QED
  BY <1>1, CoreInvariant, PTL

(* Between operations setActive, setFatal and the stop have left memory in *)
(* step with the core.                                                     *)
THEOREM StatusIsTrue == Spec => []ReportsTheCore
<1>1. CoreInv => ReportsTheCore
  BY Zenon DEF CoreInv, MemoryInv, Agree, ReportsTheCore, RestPCs
<1> QED
  BY <1>1, CoreInvariant, PTL

(* closed is set under applyAccess and looked at under it, so shutdown is  *)
(* the last operation.                                                     *)
THEOREM ShutdownIsFinal == Spec => []NoResurrection
<1>1. CoreInv => NoResurrection
  BY Zenon DEF CoreInv, MemoryInv, NoResurrection
<1> QED
  BY <1>1, CoreInvariant, PTL

(* The guard of PUT and DELETE holds until the resource is written: the    *)
(* upload is read under applyAccess.                                       *)
THEOREM ReferencedResourcesStay == Spec => ProtectedResources
<1> DEFINE Stays == \A r \in Resources : res'[r] # res[r] => r \notin Refs[core] \cup Refs[lastGood]
<1>1. TypeOK /\ CoreInv /\ [Next]_vars => [Stays]_vars
  <2> SUFFICES ASSUME TypeOK, CoreInv, Next, NEW r \in Resources, res'[r] # res[r]
               PROVE  r \notin Refs[core] \cup Refs[lastGood]
    BY Zenon
  <2>1. CASE Put
    <3>1. r = op.resource
      BY <2>1, Zenon DEF Put, TypeOK
    <3>2. active = core /\ ~resourceReferenced(op.resource)
      BY <2>1, Zenon DEF Put, CoreInv, OpInv, MemoryInv, Agree, RestPCs
    <3> QED
      BY <3>1, <3>2, Zenon DEF resourceReferenced
  <2>2. ASSUME NEW x \in Resources, Delete(x) PROVE r \notin Refs[core] \cup Refs[lastGood]
    <3>1. r = x
      BY <2>2, Zenon DEF Delete, TypeOK
    <3>2. active = core /\ ~resourceReferenced(x)
      BY <2>2, Zenon DEF Delete, CoreInv, MemoryInv, Agree, RestPCs
    <3> QED
      BY <3>1, <3>2, Zenon DEF resourceReferenced
  <2>3. CASE ~Put /\ ~(\E x \in Resources : Delete(x))
    <3>1. UNCHANGED res
      BY <2>3, Zenon DEF Next, Proceed, disk, Boot, recoverAtBoot, RecoverRemove, CheckPending,
         BootDecide, Validate, SetPending, preStart, Swap, StartSucceeds, StartFails, Fallback,
         SetWasRunning, SaveLastGood, setActive, writeState, announceSwap, setFatal, CloseCore,
         postStop, removeState, ClearPending, ApplyEnter, RollbackEnter, StopEnter, Sigterm,
         ShutdownEnter, PutEnter, Exit, Crash, ProcessEnds
    <3> QED
      BY <3>1, Zenon
  <2> QED
    BY <2>1, <2>2, <2>3, Zenon
<1> QED
  BY <1>1, CoreInvariant, PTL DEF Spec, ProtectedResources

-----------------------------------------------------------------------------
(* The scripts have seen what HookInv says, as long as the state directory *)
(* can be read and written.                                                *)
LEMMA HookStep ==
    ASSUME ~ReadMayFail, ~WriteMayFail, TypeOK, CoreInv, HookInv, [Next]_vars
    PROVE  HookInv'
<1> USE DEF disk, memory, scripts, history
<1>1. CASE Boot
  BY <1>1, Zenon DEF Boot, HookInv, Announced, CoreInv, OpInv, MemoryInv, Agree, BringUpPCs,
         UpPCs, RestPCs, BootPCs
<1>2. CASE recoverAtBoot
  <2>1. pc = "b_recover" /\ pc' \in {"b_pending", "b_remove"}
    BY <1>2, Zenon DEF recoverAtBoot
  <2>2. hook' \in {"none", "post_stop"} /\ ~effects' /\ (~options.hooks => hook' = "none")
    <3>1. hook = "none"
      BY <2>1, Zenon DEF HookInv
    <3>2. \A unreadable \in ReadFails : ~unreadable
      BY Zenon DEF ReadFails
    <3>3. CASE snapshot = NoConfig /\ UNCHANGED scripts
      BY <3>1, <3>3, <2>1, Zenon DEF HookInv
    <3>4. CASE IF options.hooks THEN fire("post_stop", FALSE)
                                ELSE effects' = FALSE /\ UNCHANGED <<hook, ran>>
      BY <3>1, <3>4, Zenon DEF fire
    <3> QED
      BY <3>2, <3>3, <3>4, <1>2, Zenon DEF recoverAtBoot
  <2> QED
    BY <1>2, <2>1, <2>2, Zenon DEF recoverAtBoot, HookInv, Announced, CoreInv, OpInv, MemoryInv,
           Agree, BringUpPCs, UpPCs, RestPCs, BootPCs
<1>3. CASE RecoverRemove
  BY <1>3, Zenon DEF RecoverRemove, HookInv, Announced, CoreInv, OpInv, MemoryInv, Agree,
         BringUpPCs, UpPCs, RestPCs, BootPCs
<1>4. CASE CheckPending
  BY <1>4, Zenon DEF CheckPending, HookInv, Announced, CoreInv, OpInv, MemoryInv, Agree,
         BringUpPCs, UpPCs, RestPCs, BootPCs
<1>5. CASE BootDecide
  BY <1>5, Zenon DEF BootDecide, Start, NoOp, HookInv, Announced, CoreInv, OpInv, MemoryInv,
     Agree, BringUpPCs, UpPCs, RestPCs, BootPCs
<1>6. ASSUME NEW content \in Configs, ApplyEnter(content) PROVE HookInv'
  BY <1>6, Zenon DEF ApplyEnter, NoOp, HookInv, Announced, CoreInv, OpInv, MemoryInv, Agree,
         BringUpPCs, UpPCs, RestPCs, BootPCs
<1>7. CASE Validate
  BY <1>7, Zenon DEF Validate, NoOp, HookInv, Announced, CoreInv, OpInv, MemoryInv, Agree,
         BringUpPCs, UpPCs, RestPCs, BootPCs
<1>8. CASE SetPending
  <2>1. \/ /\ op'.kind = op.kind /\ op'.wasRunning = running
           /\ pc' = IF running THEN "swap" ELSE "preStart"
        \/ op' = NoOp /\ pc' = "idle"
    BY <1>8, Zenon DEF SetPending, TypeOK, OpType
  <2> QED
    BY <1>8, <2>1, Zenon DEF SetPending, HookInv, Announced, CoreInv, OpInv, MemoryInv, Agree,
           BringUpPCs, UpPCs, RestPCs, BootPCs, NoOp
<1>9. CASE RollbackEnter
  BY <1>9, Zenon DEF RollbackEnter, Start, NoOp, HookInv, Announced, CoreInv, OpInv,
     MemoryInv, Agree, BringUpPCs, UpPCs, RestPCs, BootPCs
<1>10. CASE preStart
  <2>1. CASE fire("pre_start", effects) /\ pc' = "swap" /\ UNCHANGED op
    BY <1>10, <2>1, Zenon DEF preStart, fire, HookInv, Announced, CoreInv, OpInv, MemoryInv,
           Agree, BringUpPCs, UpPCs, RestPCs, BootPCs
  <2>2. CASE options.hooks /\ fire("refused", effects) /\ running' = FALSE /\ Leave
    BY <1>10, <2>2, Zenon DEF preStart, fire, Leave, NoOp, HookInv, Announced, CoreInv, OpInv,
           MemoryInv, Agree, BringUpPCs, UpPCs, RestPCs, BootPCs
  <2> QED
    BY <1>10, <2>1, <2>2, Zenon DEF preStart
<1>11. CASE Swap
  BY <1>11, Zenon DEF Swap, HookInv, Announced, CoreInv, OpInv, MemoryInv, Agree, BringUpPCs,
         UpPCs, RestPCs, BootPCs
<1>12. CASE StartSucceeds
  BY <1>12, Zenon DEF StartSucceeds, HookInv, Announced, CoreInv, OpInv, MemoryInv, Agree,
         BringUpPCs, UpPCs, RestPCs, BootPCs
<1>13. CASE StartFails
  <2>1. /\ op'.kind = op.kind /\ op'.wasRunning = op.wasRunning
        /\ pc' \in {"swap", "fallback", "setFatal"}
    BY <1>13, Zenon DEF StartFails, TypeOK, OpType
  <2> QED
    BY <1>13, <2>1, Zenon DEF StartFails, HookInv, Announced, CoreInv, OpInv, MemoryInv, Agree,
           BringUpPCs, UpPCs, RestPCs, BootPCs
<1>14. CASE Fallback
  <2>1. /\ op'.kind = op.kind /\ op'.wasRunning = op.wasRunning
        /\ pc' \in {"swap", "setFatal"}
    BY <1>14, Zenon DEF Fallback, TypeOK, OpType
  <2> QED
    BY <1>14, <2>1, Zenon DEF Fallback, HookInv, Announced, CoreInv, OpInv, MemoryInv, Agree,
           BringUpPCs, UpPCs, RestPCs, BootPCs
<1>15. CASE SetWasRunning
  BY <1>15, Zenon DEF SetWasRunning, HookInv, Announced, CoreInv, OpInv, MemoryInv, Agree,
         BringUpPCs, UpPCs, RestPCs, BootPCs
<1>16. CASE SaveLastGood
  BY <1>16, Zenon DEF SaveLastGood, HookInv, Announced, CoreInv, OpInv, MemoryInv, Agree,
         BringUpPCs, UpPCs, RestPCs, BootPCs
<1>17. CASE setActive
  BY <1>17, Zenon DEF setActive, HookInv, Announced, CoreInv, OpInv, MemoryInv, Agree, BringUpPCs,
         UpPCs, RestPCs, BootPCs
<1>18. CASE writeState
  <2>1. op.content # NoConfig
    BY <1>18, ConfigAssumption, Zenon DEF writeState, CoreInv, OpInv, UpPCs
  <2>2. snapshot' = IF options.hooks THEN op.content ELSE snapshot
    BY <1>18, Zenon DEF writeState, Written
  <2> QED
    BY <1>18, <2>1, <2>2, Zenon DEF writeState, HookInv, Announced, CoreInv, OpInv, MemoryInv,
           Agree, BringUpPCs, UpPCs, RestPCs, BootPCs
<1>19. CASE announceSwap
  <2>1. core # NoConfig /\ running
    BY <1>19, ConfigAssumption, Zenon DEF announceSwap, CoreInv, OpInv, MemoryInv, Agree, UpPCs
  <2>2. CASE options.hooks
    BY <1>19, <2>1, <2>2, Zenon DEF announceSwap, fire, Leave, NoOp, HookInv, Announced, CoreInv,
           OpInv, MemoryInv, Agree, BringUpPCs, UpPCs, RestPCs, BootPCs
  <2>3. CASE ~options.hooks
    BY <1>19, <2>1, <2>3, Zenon DEF announceSwap, fire, Leave, NoOp, HookInv, Announced, CoreInv,
           OpInv, MemoryInv, Agree, BringUpPCs, UpPCs, RestPCs, BootPCs
  <2> QED
    BY <2>2, <2>3, Zenon
<1>20. CASE setFatal
  BY <1>20, Zenon DEF setFatal, HookInv, Announced, CoreInv, OpInv, MemoryInv, Agree, BringUpPCs,
         UpPCs, RestPCs, BootPCs
<1>21. CASE postStop
  <2>1. CASE options.hooks
    BY <1>21, <2>1, Zenon DEF postStop, fire, HookInv, Announced, CoreInv, OpInv, MemoryInv,
           Agree, BringUpPCs, UpPCs, RestPCs, BootPCs
  <2>2. CASE ~options.hooks
    BY <1>21, <2>2, Zenon DEF postStop, fire, HookInv, Announced, CoreInv, OpInv, MemoryInv,
           Agree, BringUpPCs, UpPCs, RestPCs, BootPCs
  <2> QED
    BY <2>1, <2>2, Zenon
<1>22. CASE removeState
  BY <1>22, Zenon DEF removeState, Leave, NoOp, HookInv, Announced, CoreInv, OpInv, MemoryInv,
         Agree, BringUpPCs, UpPCs, RestPCs, BootPCs
<1>23. CASE ClearPending
  BY <1>23, Zenon DEF ClearPending, NoOp, HookInv, Announced, CoreInv, OpInv, MemoryInv, Agree,
         BringUpPCs, UpPCs, RestPCs, BootPCs
<1>24. CASE StopEnter
  BY <1>24, Zenon DEF StopEnter, Start, NoOp, HookInv, Announced, CoreInv, OpInv, MemoryInv,
         Agree, BringUpPCs, UpPCs, RestPCs, BootPCs
<1>25. CASE CloseCore
  BY <1>25, Zenon DEF CloseCore, Leave, NoOp, HookInv, Announced, CoreInv, OpInv, MemoryInv,
         Agree, BringUpPCs, UpPCs, RestPCs, BootPCs
<1>26. CASE Sigterm
  <2>1. UNCHANGED <<pc, op, options, snapshot, running, closed, hook, effects>>
    BY <1>26, Zenon DEF Sigterm, disk, scripts
  <2> QED
    BY <2>1, Zenon DEF HookInv, Announced
<1>27. CASE ShutdownEnter
  BY <1>27, Zenon DEF ShutdownEnter, Start, NoOp, HookInv, Announced, CoreInv, OpInv, MemoryInv,
         Agree, BringUpPCs, UpPCs, RestPCs, BootPCs
<1>28. ASSUME NEW r \in Resources, PutEnter(r) PROVE HookInv'
  BY <1>28, Zenon DEF PutEnter, NoOp, HookInv, Announced, CoreInv, OpInv, MemoryInv, Agree,
         BringUpPCs, UpPCs, RestPCs, BootPCs
<1>29. CASE Put
  BY <1>29, Zenon DEF Put, NoOp, HookInv, Announced, CoreInv, OpInv, MemoryInv, Agree, BringUpPCs,
         UpPCs, RestPCs, BootPCs
<1>30. ASSUME NEW r \in Resources, Delete(r) PROVE HookInv'
  BY <1>30, Zenon DEF Delete, HookInv, Announced, CoreInv, OpInv, MemoryInv, Agree, BringUpPCs,
         UpPCs, RestPCs, BootPCs
<1>31. CASE Exit
  BY <1>31, Zenon DEF Exit, ProcessEnds, NoOp, HookInv, Announced, CoreInv, OpInv, MemoryInv,
         Agree, BringUpPCs, UpPCs, RestPCs, BootPCs
<1>32. CASE Crash
  BY <1>32, Zenon DEF Crash, ProcessEnds, NoOp, HookInv, Announced, CoreInv, OpInv, MemoryInv,
         Agree, BringUpPCs, UpPCs, RestPCs, BootPCs
<1>33. CASE UNCHANGED vars
  BY <1>33, Zenon DEF vars, HookInv, Announced
<1> QED
  BY <1>1, <1>2, <1>3, <1>4, <1>5, <1>6, <1>7, <1>8, <1>9, <1>10, <1>11, <1>12,
     <1>13, <1>14, <1>15, <1>16, <1>17, <1>18, <1>19, <1>20, <1>21, <1>22, <1>23,
     <1>24, <1>25, <1>26, <1>27, <1>28, <1>29, <1>30, <1>31, <1>32, <1>33
     DEF Next, Proceed

(* lxd refines the contract its hook scripts are promised: behind any      *)
(* number of configurations, applies, rollbacks, stops and crashes every   *)
(* single run of a script is one that LxdHookContract allows next.  No     *)
(* core is announced twice, a passed gate is answered once, and what a     *)
(* post_start changed is undone before the gate opens again.               *)
THEOREM HooksKeepTheContract ==
    ASSUME ~ReadMayFail, ~WriteMayFail
    PROVE  Spec => HookContract
<1>1. Init => HookInv /\ Contract!Init
  BY Zenon DEF Init, HookInv, Contract!Init, NoOp, BringUpPCs, UpPCs, RestPCs, BootPCs
<1>2. TypeOK /\ CoreInv /\ HookInv /\ [Next]_vars => HookInv'
  BY HookStep, Zenon
<1>3. TypeOK /\ CoreInv /\ HookInv /\ [Next]_vars => [Contract!Next]_<<hook, ran, effects>>
  <2> SUFFICES ASSUME TypeOK, CoreInv, HookInv, Next, ~UNCHANGED scripts
               PROVE  Contract!Next
    BY Zenon DEF vars, scripts
  <2>1. CASE recoverAtBoot
    BY <2>1, Zenon DEF recoverAtBoot, fire, HookInv, scripts, Contract!Next, Contract!Recover,
       Contract!RestoredByHand, Contract!Run
  <2>2. CASE preStart
    <3>1. effects = FALSE /\ options.hooks
      BY <2>2, Zenon DEF preStart, fire, HookInv, TypeOK
    <3> QED
      BY <2>2, <3>1, Zenon DEF preStart, fire, HookInv, Contract!Next, Contract!PreStart,
         Contract!Running, Contract!Run
  <2>3. CASE announceSwap
    <3>1. options.hooks
      BY <2>3, Zenon DEF announceSwap, fire
    <3>2. IF op.wasRunning THEN Announced ELSE hook = "pre_start"
      BY <3>1, <2>3, Zenon DEF announceSwap, HookInv, UpPCs, BringUpPCs
    <3> QED
      BY <3>1, <3>2, <2>3, Zenon DEF announceSwap, fire, Announced, Contract!Next,
             Contract!PostStart, Contract!PostReload, Contract!Running, Contract!Run
  <2>4. CASE postStop
    <3>1. options.hooks
      BY <2>4, Zenon DEF postStop, fire
    <3>2. IF op.wasRunning THEN Announced ELSE hook = "pre_start"
      BY <3>1, <2>4, Zenon DEF postStop, HookInv, UpPCs, BringUpPCs
    <3> QED
      BY <3>1, <3>2, <2>4, Zenon DEF postStop, fire, Announced, Contract!Next, Contract!PostStop,
             Contract!Running, Contract!Run
  <2>5. CASE Exit \/ Crash
    BY <2>5, Zenon DEF Exit, Crash, ProcessEnds, Contract!Next, Contract!ProcessEnds
  <2>6. CASE ~(recoverAtBoot \/ preStart \/ announceSwap \/ postStop \/ Exit \/ Crash)
    BY <2>6, Zenon DEF Next, Proceed, scripts, Boot, RecoverRemove, CheckPending, BootDecide,
       Validate,
       SetPending, Swap, StartSucceeds, StartFails, Fallback, SetWasRunning, SaveLastGood,
       setActive, writeState, setFatal, CloseCore, removeState, ClearPending, ApplyEnter,
       RollbackEnter, StopEnter, Sigterm, ShutdownEnter, PutEnter, Put, Delete
  <2> QED
    BY <2>1, <2>2, <2>3, <2>4, <2>5, <2>6, Zenon
<1> QED
  BY <1>1, <1>2, <1>3, CoreInvariant, PTL DEF Spec, HookContract, Contract!Spec

-----------------------------------------------------------------------------
(* How an operation ends: an apply goes on to its deferred ClearPending. *)
LEMMA LeaveEnds ==
    ASSUME Leave
    PROVE  \/ op.kind = "apply" /\ pc' = "a_clear" /\ op' = op
           \/ op.kind # "apply" /\ pc' = "idle" /\ op' = NoOp
BY Zenon DEF Leave

(* No operation is of kind "none" and rolls nothing back. *)
LEMMA NoOpFields == NoOp.kind = "none" /\ NoOp.rolledBack = FALSE
BY Zenon DEF NoOp

(* The marker keeps telling the truth about the apply in progress and      *)
(* about the last death.                                                   *)
LEMMA PendingStep ==
    ASSUME ~ReadMayFail, ~WriteMayFail, TypeOK, CoreInv, PendingInv, [Next]_vars
    PROVE  PendingInv'
<1> USE DEF disk, memory, scripts, history
<1>1. CASE Boot
  BY <1>1, Zenon DEF Boot, TypeOK, PendingInv, BeforeReport, CoreInv, OpInv, BringUpPCs, UpPCs,
     RestPCs, BootPCs
<1>2. CASE recoverAtBoot
  BY <1>2, Zenon DEF recoverAtBoot, TypeOK, PendingInv, BeforeReport, CoreInv, OpInv, BringUpPCs,
     UpPCs, RestPCs, BootPCs
<1>3. CASE RecoverRemove
  BY <1>3, Zenon DEF RecoverRemove, TypeOK, PendingInv, BeforeReport, CoreInv, OpInv, BringUpPCs,
     UpPCs, RestPCs, BootPCs
<1>4. CASE CheckPending
  <2>1. \A unreadable \in ReadFails : ~unreadable
    BY Zenon DEF ReadFails
  <2>2. pending => interruptedApply' = TRUE /\ pending' = FALSE
    BY <1>4, <2>1, Zenon DEF CheckPending, Written
  <2>3. ~pending => UNCHANGED <<interruptedApply, pending>>
    BY <1>4, Zenon DEF CheckPending
  <2>4. pc = "b_pending" /\ pc' = "b_resolve" /\ UNCHANGED <<op, diedInSwap>>
    BY <1>4, Zenon DEF CheckPending, history
  <2>5. ~interruptedApply /\ pending = diedInSwap /\ op.kind = "none"
    BY <2>4, Zenon DEF PendingInv, BeforeReport, BootPCs
  <2>6. pending \in BOOLEAN /\ interruptedApply \in BOOLEAN /\ diedInSwap \in BOOLEAN
    BY Zenon DEF TypeOK
  <2>7. interruptedApply' = diedInSwap'
    <3>1. CASE pending
      BY <3>1, <2>2, <2>4, <2>5, <2>6, Zenon
    <3>2. CASE ~pending
      BY <3>2, <2>3, <2>4, <2>5, <2>6, Zenon
    <3> QED
      BY <3>1, <3>2, Zenon
  <2>8. ~pending' /\ op'.kind = "none"
    <3>1. op'.kind = "none"
      BY <2>4, <2>5, Zenon
    <3>2. ~pending'
      BY <2>2, <2>3, <2>6
    <3> QED
      BY <3>1, <3>2, Zenon
  <2> QED
    BY <2>4, <2>7, <2>8 DEF PendingInv, BeforeReport, BootPCs
<1>5. CASE BootDecide
  <2>1. pc = "b_resolve" /\ UNCHANGED <<pending, interruptedApply, diedInSwap>>
    BY <1>5, Zenon DEF BootDecide
  <2>2. \/ pc' = "preStart" /\ op'.kind = "boot"
        \/ pc' = "idle" /\ UNCHANGED op
    BY <1>5, Zenon DEF BootDecide, Start, NoOp
  <2> QED
    BY <2>1, <2>2 DEF PendingInv, BeforeReport, BootPCs
<1>6. ASSUME NEW content \in Configs, ApplyEnter(content) PROVE PendingInv'
  BY <1>6, Zenon DEF ApplyEnter, NoOp, TypeOK, PendingInv, BeforeReport, CoreInv, OpInv,
     BringUpPCs, UpPCs, RestPCs, BootPCs
<1>7. CASE Validate
  <2>1. pc = "a_validate" /\ UNCHANGED <<pending, interruptedApply, diedInSwap>>
    BY <1>7, Zenon DEF Validate
  <2>2. \/ pc' = "a_pending" /\ UNCHANGED op
        \/ pc' = "idle" /\ op' = NoOp
    BY <1>7, Zenon DEF Validate
  <2> QED
    BY <2>1, <2>2, NoOpFields DEF PendingInv, BeforeReport, BootPCs
<1>8. CASE SetPending
  <2>1. pc = "a_pending" /\ op.kind = "apply" /\ UNCHANGED <<interruptedApply, diedInSwap>>
    BY <1>8, Zenon DEF SetPending, CoreInv, OpInv
  <2>2. \/ pending' = TRUE /\ op'.kind = op.kind /\ pc' \in {"swap", "preStart"}
        \/ pc' = "idle" /\ op' = NoOp /\ UNCHANGED pending
    BY <1>8, Zenon DEF SetPending, TypeOK, OpType
  <2> QED
    BY <2>1, <2>2, NoOpFields DEF PendingInv, BeforeReport, BootPCs
<1>9. CASE RollbackEnter
  BY <1>9, Zenon DEF RollbackEnter, Start, NoOp, TypeOK, PendingInv, BeforeReport, CoreInv, OpInv,
     BringUpPCs, UpPCs, RestPCs, BootPCs
<1>10. CASE preStart
  <2>1. pc = "preStart" /\ UNCHANGED <<pending, interruptedApply, diedInSwap>>
    BY <1>10, Zenon DEF preStart
  <2>2. \/ pc' = "a_clear" /\ op.kind = "apply" /\ op' = op
        \/ pc' = "idle" /\ op.kind # "apply" /\ op' = NoOp
        \/ pc' = "swap" /\ op' = op
    BY <1>10, LeaveEnds, Zenon DEF preStart
  <2> QED
    BY <2>1, <2>2, NoOpFields DEF PendingInv, BeforeReport, BootPCs
<1>11. CASE Swap
  BY <1>11, Zenon DEF Swap, TypeOK, PendingInv, BeforeReport, CoreInv, OpInv, BringUpPCs, UpPCs,
     RestPCs, BootPCs
<1>12. CASE StartSucceeds
  BY <1>12, Zenon DEF StartSucceeds, TypeOK, PendingInv, BeforeReport, CoreInv, OpInv, BringUpPCs,
     UpPCs, RestPCs, BootPCs
<1>13. CASE StartFails
  <2>1. pc = "starting" /\ UNCHANGED <<pending, interruptedApply, diedInSwap>>
    BY <1>13, Zenon DEF StartFails
  <2>2. op'.kind = op.kind /\ pc' \in {"swap", "fallback", "setFatal"}
    BY <1>13, Zenon DEF StartFails, TypeOK, OpType
  <2> QED
    BY <2>1, <2>2 DEF PendingInv, BeforeReport, BootPCs
<1>14. CASE Fallback
  <2>1. pc = "fallback" /\ UNCHANGED <<pending, interruptedApply, diedInSwap>>
    BY <1>14, Zenon DEF Fallback
  <2>2. op'.kind = op.kind /\ pc' \in {"swap", "setFatal"}
    BY <1>14, Zenon DEF Fallback, TypeOK, OpType
  <2> QED
    BY <2>1, <2>2 DEF PendingInv, BeforeReport, BootPCs
<1>15. CASE SetWasRunning
  BY <1>15, Zenon DEF SetWasRunning, TypeOK, PendingInv, BeforeReport, CoreInv, OpInv, BringUpPCs,
     UpPCs, RestPCs, BootPCs
<1>16. CASE SaveLastGood
  BY <1>16, Zenon DEF SaveLastGood, TypeOK, PendingInv, BeforeReport, CoreInv, OpInv, BringUpPCs,
     UpPCs, RestPCs, BootPCs
<1>17. CASE setActive
  BY <1>17, Zenon DEF setActive, TypeOK, PendingInv, BeforeReport, CoreInv, OpInv, BringUpPCs,
     UpPCs, RestPCs, BootPCs
<1>18. CASE writeState
  BY <1>18, Zenon DEF writeState, TypeOK, PendingInv, BeforeReport, CoreInv, OpInv, BringUpPCs,
     UpPCs, RestPCs, BootPCs
<1>19. CASE announceSwap
  <2>1. pc = "announce" /\ UNCHANGED <<pending, interruptedApply, diedInSwap>>
    BY <1>19, Zenon DEF announceSwap
  <2>2. \/ pc' = "a_clear" /\ op.kind = "apply" /\ op' = op
        \/ pc' = "idle" /\ op.kind # "apply" /\ op' = NoOp
    BY <1>19, LeaveEnds, Zenon DEF announceSwap
  <2> QED
    BY <2>1, <2>2, NoOpFields DEF PendingInv, BeforeReport, BootPCs
<1>20. CASE setFatal
  BY <1>20, Zenon DEF setFatal, TypeOK, PendingInv, BeforeReport, CoreInv, OpInv, BringUpPCs,
     UpPCs, RestPCs, BootPCs
<1>21. CASE postStop
  BY <1>21, Zenon DEF postStop, TypeOK, PendingInv, BeforeReport, CoreInv, OpInv, BringUpPCs,
     UpPCs, RestPCs, BootPCs
<1>22. CASE removeState
  <2>1. pc = "removeState" /\ UNCHANGED <<pending, interruptedApply, diedInSwap>>
    BY <1>22, Zenon DEF removeState
  <2>2. \/ pc' = "a_clear" /\ op.kind = "apply" /\ op' = op
        \/ pc' = "idle" /\ op.kind # "apply" /\ op' = NoOp
    BY <1>22, LeaveEnds, Zenon DEF removeState
  <2> QED
    BY <2>1, <2>2, NoOpFields DEF PendingInv, BeforeReport, BootPCs
<1>23. CASE ClearPending
  <2>1. pc = "a_clear" /\ UNCHANGED <<interruptedApply, diedInSwap>>
    BY <1>23, Zenon DEF ClearPending
  <2>2. pc' = "idle" /\ op' = NoOp /\ pending' = FALSE
    BY <1>23, WrittenIsEither, Zenon DEF ClearPending
  <2> QED
    BY <2>1, <2>2, NoOpFields DEF PendingInv, BeforeReport, BootPCs
<1>24. CASE StopEnter
  BY <1>24, Zenon DEF StopEnter, Start, NoOp, TypeOK, PendingInv, BeforeReport, CoreInv, OpInv,
     BringUpPCs, UpPCs, RestPCs, BootPCs
<1>25. CASE CloseCore
  <2>1. pc = "close" /\ UNCHANGED <<pending, interruptedApply, diedInSwap>>
    BY <1>25, Zenon DEF CloseCore
  <2>2. \/ pc' = "a_clear" /\ op.kind = "apply" /\ op' = op
        \/ pc' = "idle" /\ op.kind # "apply" /\ op' = NoOp
        \/ pc' = "postStop" /\ op' = op
    BY <1>25, LeaveEnds, Zenon DEF CloseCore
  <2> QED
    BY <2>1, <2>2, NoOpFields DEF PendingInv, BeforeReport, BootPCs
<1>26. CASE Sigterm
  BY <1>26, Zenon DEF Sigterm, TypeOK, PendingInv, BeforeReport, CoreInv, OpInv, BringUpPCs,
     UpPCs, RestPCs, BootPCs
<1>27. CASE ShutdownEnter
  BY <1>27, Zenon DEF ShutdownEnter, Start, NoOp, TypeOK, PendingInv, BeforeReport, CoreInv,
     OpInv, BringUpPCs, UpPCs, RestPCs, BootPCs
<1>28. ASSUME NEW r \in Resources, PutEnter(r) PROVE PendingInv'
  BY <1>28, Zenon DEF PutEnter, NoOp, TypeOK, PendingInv, BeforeReport, CoreInv, OpInv,
     BringUpPCs, UpPCs, RestPCs, BootPCs
<1>29. CASE Put
  BY <1>29, Zenon DEF Put, NoOp, TypeOK, PendingInv, BeforeReport, CoreInv, OpInv, BringUpPCs,
     UpPCs, RestPCs, BootPCs
<1>30. ASSUME NEW r \in Resources, Delete(r) PROVE PendingInv'
  BY <1>30, Zenon DEF Delete, TypeOK, PendingInv, BeforeReport, CoreInv, OpInv, BringUpPCs, UpPCs,
     RestPCs, BootPCs
<1>31. CASE Exit
  BY <1>31, Zenon DEF Exit, ProcessEnds, NoOp, TypeOK, PendingInv, BeforeReport, CoreInv, OpInv,
     BringUpPCs, UpPCs, RestPCs, BootPCs
<1>32. CASE Crash
  BY <1>32, Zenon DEF Crash, ProcessEnds, NoOp, TypeOK, PendingInv, BeforeReport, CoreInv, OpInv,
     BringUpPCs, UpPCs, RestPCs, BootPCs
<1>33. CASE UNCHANGED vars
  BY <1>33, Zenon DEF vars, TypeOK, PendingInv, BeforeReport, CoreInv, OpInv, BringUpPCs, UpPCs,
     RestPCs, BootPCs
<1> QED
  BY <1>1, <1>2, <1>3, <1>4, <1>5, <1>6, <1>7, <1>8, <1>9, <1>10, <1>11, <1>12, <1>13, <1>14,
     <1>15, <1>16, <1>17, <1>18, <1>19, <1>20, <1>21, <1>22, <1>23, <1>24, <1>25, <1>26, <1>27,
     <1>28, <1>29, <1>30, <1>31, <1>32, <1>33 DEF Next, Proceed

(* The disk keeps knowing what the operator last achieved. *)
LEMMA IntentStep ==
    ASSUME ~ReadMayFail, ~WriteMayFail, TypeOK, CoreInv, PendingInv, IntentInv, [Next]_vars
    PROVE  IntentInv'
<1> USE DEF disk, memory, scripts, history
<1>1. CASE Boot
  BY <1>1, Zenon DEF Boot, TypeOK, IntentInv, PendingInv, CoreInv, OpInv, BringUpPCs, UpPCs,
     RestPCs, BootPCs
<1>2. CASE recoverAtBoot
  BY <1>2, Zenon DEF recoverAtBoot, TypeOK, IntentInv, PendingInv, CoreInv, OpInv, BringUpPCs,
     UpPCs, RestPCs, BootPCs
<1>3. CASE RecoverRemove
  BY <1>3, Zenon DEF RecoverRemove, TypeOK, IntentInv, PendingInv, CoreInv, OpInv, BringUpPCs,
     UpPCs, RestPCs, BootPCs
<1>4. CASE CheckPending
  BY <1>4, Zenon DEF CheckPending, TypeOK, IntentInv, PendingInv, CoreInv, OpInv, BringUpPCs,
     UpPCs, RestPCs, BootPCs
<1>5. CASE BootDecide
  <2>1. pc = "b_resolve" /\ UNCHANGED <<options, intent, runState, lastGood>>
    BY <1>5, Zenon DEF BootDecide
  <2>2. \A unreadable \in ReadFails : ~unreadable
    BY Zenon DEF ReadFails
  <2>3. \/ /\ pc' = "preStart" /\ op'.kind = "boot" /\ op'.rolledBack = FALSE
           /\ \E badState \in ReadFails : shouldRun(badState)
        \/ pc' = "idle" /\ UNCHANGED op
    BY <1>5, Zenon DEF BootDecide, Start, NoOp
  <2>4. intent = "stop" /\ (\E badState \in ReadFails : shouldRun(badState)) => options.run
    BY <2>2, Zenon DEF shouldRun, WasRunning, Recorded, IntentInv
  <2> QED
    BY <2>1, <2>3, <2>4 DEF IntentInv, UpPCs
<1>6. ASSUME NEW content \in Configs, ApplyEnter(content) PROVE IntentInv'
  BY <1>6, Zenon DEF ApplyEnter, NoOp, TypeOK, IntentInv, PendingInv, CoreInv, OpInv, BringUpPCs,
     UpPCs, RestPCs, BootPCs
<1>7. CASE Validate
  <2>1. pc = "a_validate" /\ UNCHANGED <<options, intent, runState, lastGood>>
    BY <1>7, Zenon DEF Validate
  <2>2. \/ pc' = "a_pending" /\ op' = op
        \/ pc' = "idle" /\ op' = NoOp
    BY <1>7, Zenon DEF Validate
  <2> QED
    BY <2>1, <2>2, NoOpFields DEF IntentInv, UpPCs
<1>8. CASE SetPending
  <2>1. pc = "a_pending" /\ op.kind = "apply" /\ UNCHANGED <<options, intent, runState, lastGood>>
    BY <1>8, Zenon DEF SetPending, CoreInv, OpInv
  <2>2. \/ /\ op'.kind = op.kind /\ op'.rolledBack = op.rolledBack
           /\ pc' \in {"swap", "preStart"}
        \/ pc' = "idle" /\ op' = NoOp
    BY <1>8, Zenon DEF SetPending, TypeOK, OpType
  <2> QED
    BY <2>1, <2>2, NoOpFields DEF IntentInv, UpPCs
<1>9. CASE RollbackEnter
  BY <1>9, Zenon DEF RollbackEnter, Start, NoOp, TypeOK, IntentInv, PendingInv, CoreInv, OpInv,
     BringUpPCs, UpPCs, RestPCs, BootPCs
<1>10. CASE preStart
  <2>1. pc = "preStart" /\ UNCHANGED <<options, intent, runState, lastGood>>
    BY <1>10, Zenon DEF preStart
  <2>2. \/ pc' = "a_clear" /\ op' = op
        \/ pc' = "idle" /\ op' = NoOp
        \/ pc' = "swap" /\ op' = op
    BY <1>10, LeaveEnds, Zenon DEF preStart
  <2> QED
    BY <2>1, <2>2, NoOpFields DEF IntentInv, UpPCs
<1>11. CASE Swap
  BY <1>11, Zenon DEF Swap, TypeOK, IntentInv, PendingInv, CoreInv, OpInv, BringUpPCs, UpPCs,
     RestPCs, BootPCs
<1>12. CASE StartSucceeds
  BY <1>12, Zenon DEF StartSucceeds, TypeOK, IntentInv, PendingInv, CoreInv, OpInv, BringUpPCs,
     UpPCs, RestPCs, BootPCs
<1>13. CASE StartFails
  <2>1. pc = "starting" /\ UNCHANGED <<options, intent, runState, lastGood>>
    BY <1>13, Zenon DEF StartFails
  <2>2. /\ op'.kind = op.kind /\ op'.rolledBack = op.rolledBack
        /\ pc' \in {"swap", "fallback", "setFatal"}
    BY <1>13, Zenon DEF StartFails, TypeOK, OpType
  <2> QED
    BY <2>1, <2>2 DEF IntentInv, UpPCs
<1>14. CASE Fallback
  BY <1>14, Zenon DEF Fallback, TypeOK, IntentInv, PendingInv, CoreInv, OpInv, BringUpPCs, UpPCs,
     RestPCs, BootPCs
<1>15. CASE SetWasRunning
  <2>1. /\ pc = "setWasRunning" /\ runState' = "1"
        /\ UNCHANGED <<op, options, intent, lastGood>>
    BY <1>15, WrittenIsEither, Zenon DEF SetWasRunning
  <2>2. intent # "stop" /\ op.content # NoConfig
    BY <2>1, ConfigAssumption, Zenon DEF IntentInv, CoreInv, OpInv, UpPCs
  <2>3. \/ pc' = "saveLastGood"
        \/ pc' = "setActive" /\ lastGood # NoConfig
    <3>1. op.kind \in {"boot", "apply", "rollback"}
      BY <2>1, Zenon DEF CoreInv, OpInv, UpPCs
    <3>2. op.kind = "rollback" \/ op.rolledBack => lastGood # NoConfig
      BY Zenon DEF IntentInv
    <3> QED
      BY <3>1, <3>2, <2>2, <1>15, Zenon DEF SetWasRunning, Persists
  <2> QED
    BY <2>1, <2>2, <2>3 DEF IntentInv, UpPCs
<1>16. CASE SaveLastGood
  <2>1. /\ pc = "saveLastGood" /\ lastGood' = op.content /\ pc' = "setActive"
        /\ UNCHANGED <<op, options, intent, runState>>
    BY <1>16, WrittenIsEither, Zenon DEF SaveLastGood
  <2>2. op.content # NoConfig
    BY <2>1, ConfigAssumption, Zenon DEF CoreInv, OpInv, UpPCs
  <2> QED
    BY <2>1, <2>2 DEF IntentInv, UpPCs
<1>17. CASE setActive
  BY <1>17, Zenon DEF setActive, TypeOK, IntentInv, PendingInv, CoreInv, OpInv, BringUpPCs, UpPCs,
     RestPCs, BootPCs
<1>18. CASE writeState
  BY <1>18, Zenon DEF writeState, TypeOK, IntentInv, PendingInv, CoreInv, OpInv, BringUpPCs,
     UpPCs, RestPCs, BootPCs
<1>19. CASE announceSwap
  BY <1>19, Zenon DEF announceSwap, Leave, NoOp, TypeOK, IntentInv, PendingInv, CoreInv, OpInv,
     BringUpPCs, UpPCs, RestPCs, BootPCs
<1>20. CASE setFatal
  BY <1>20, Zenon DEF setFatal, TypeOK, IntentInv, PendingInv, CoreInv, OpInv, BringUpPCs, UpPCs,
     RestPCs, BootPCs
<1>21. CASE postStop
  BY <1>21, Zenon DEF postStop, TypeOK, IntentInv, PendingInv, CoreInv, OpInv, BringUpPCs, UpPCs,
     RestPCs, BootPCs
<1>22. CASE removeState
  <2>1. pc = "removeState" /\ UNCHANGED <<options, intent, runState, lastGood>>
    BY <1>22, Zenon DEF removeState
  <2>2. \/ pc' = "a_clear" /\ op' = op
        \/ pc' = "idle" /\ op' = NoOp
    BY <1>22, LeaveEnds, Zenon DEF removeState
  <2> QED
    BY <2>1, <2>2, NoOpFields DEF IntentInv, UpPCs
<1>23. CASE ClearPending
  BY <1>23, Zenon DEF ClearPending, NoOp, TypeOK, IntentInv, PendingInv, CoreInv, OpInv,
     BringUpPCs, UpPCs, RestPCs, BootPCs
<1>24. CASE StopEnter
  <2>1. /\ pc' = "close" /\ runState' = "0" /\ intent' = "none"
        /\ UNCHANGED <<options, lastGood>>
    BY <1>24, WrittenIsEither, Zenon DEF StopEnter, Start
  <2>2. op'.kind = "stop" /\ op'.rolledBack = FALSE
    BY <1>24, Zenon DEF StopEnter, Start, NoOp
  <2> QED
    BY <2>1, <2>2 DEF IntentInv, UpPCs
<1>25. CASE CloseCore
  <2>1. /\ pc = "close" /\ UNCHANGED <<options, runState, lastGood>>
        /\ intent' = IF op.kind = "stop" THEN "stop" ELSE intent
    BY <1>25, Zenon DEF CloseCore
  <2>2. \/ pc' = "a_clear" /\ op' = op
        \/ pc' = "idle" /\ op' = NoOp
        \/ pc' = "postStop" /\ op' = op
    BY <1>25, LeaveEnds, Zenon DEF CloseCore
  <2> QED
    BY <2>1, <2>2, NoOpFields DEF IntentInv, UpPCs
<1>26. CASE Sigterm
  BY <1>26, Zenon DEF Sigterm, TypeOK, IntentInv, PendingInv, CoreInv, OpInv, BringUpPCs, UpPCs,
     RestPCs, BootPCs
<1>27. CASE ShutdownEnter
  BY <1>27, Zenon DEF ShutdownEnter, Start, NoOp, TypeOK, IntentInv, PendingInv, CoreInv, OpInv,
     BringUpPCs, UpPCs, RestPCs, BootPCs
<1>28. ASSUME NEW r \in Resources, PutEnter(r) PROVE IntentInv'
  BY <1>28, Zenon DEF PutEnter, NoOp, TypeOK, IntentInv, PendingInv, CoreInv, OpInv, BringUpPCs,
     UpPCs, RestPCs, BootPCs
<1>29. CASE Put
  BY <1>29, Zenon DEF Put, NoOp, TypeOK, IntentInv, PendingInv, CoreInv, OpInv, BringUpPCs, UpPCs,
     RestPCs, BootPCs
<1>30. ASSUME NEW r \in Resources, Delete(r) PROVE IntentInv'
  BY <1>30, Zenon DEF Delete, TypeOK, IntentInv, PendingInv, CoreInv, OpInv, BringUpPCs, UpPCs,
     RestPCs, BootPCs
<1>31. CASE Exit
  BY <1>31, Zenon DEF Exit, ProcessEnds, NoOp, TypeOK, IntentInv, PendingInv, CoreInv, OpInv,
     BringUpPCs, UpPCs, RestPCs, BootPCs
<1>32. CASE Crash
  BY <1>32, Zenon DEF Crash, ProcessEnds, NoOp, TypeOK, IntentInv, PendingInv, CoreInv, OpInv,
     BringUpPCs, UpPCs, RestPCs, BootPCs
<1>33. CASE UNCHANGED vars
  BY <1>33, Zenon DEF vars, TypeOK, IntentInv, PendingInv, CoreInv, OpInv, BringUpPCs, UpPCs,
     RestPCs, BootPCs
<1> QED
  BY <1>1, <1>2, <1>3, <1>4, <1>5, <1>6, <1>7, <1>8, <1>9, <1>10, <1>11, <1>12, <1>13, <1>14,
     <1>15, <1>16, <1>17, <1>18, <1>19, <1>20, <1>21, <1>22, <1>23, <1>24, <1>25, <1>26, <1>27,
     <1>28, <1>29, <1>30, <1>31, <1>32, <1>33 DEF Next, Proceed

(* PendingInv and IntentInv hold as long as the state directory can be     *)
(* read and written, wherever the process dies.                            *)
THEOREM DiskInvariant ==
    ASSUME ~ReadMayFail, ~WriteMayFail
    PROVE  Spec => [](PendingInv /\ IntentInv)
<1>1. Init => PendingInv /\ IntentInv
  BY NoOpFields DEF Init, PendingInv, IntentInv, BeforeReport, UpPCs, BootPCs
<1>2. TypeOK /\ CoreInv /\ PendingInv /\ IntentInv /\ [Next]_vars => PendingInv' /\ IntentInv'
  BY PendingStep, IntentStep, Zenon
<1> QED
  BY <1>1, <1>2, CoreInvariant, PTL DEF Spec

(* The pending marker written by SetPending, removed by the deferred       *)
(* ClearPending and looked at by bootstrap makes /admin/status report an   *)
(* interrupted apply exactly when there was one, for any number of         *)
(* configurations and of deaths in between.                                *)
THEOREM InterruptedApplyIsReported ==
    ASSUME ~ReadMayFail, ~WriteMayFail
    PROVE  Spec => []InterruptedReported
<1>1. PendingInv => InterruptedReported
  BY Zenon DEF PendingInv, InterruptedReported, BeforeReport
<1> QED
  BY <1>1, DiskInvariant, PTL

(* stopFrom writes the run state before it closes the core, so a boot      *)
(* after an answered stop starts nothing unless it is told to.             *)
THEOREM StoppedStaysStopped ==
    ASSUME ~ReadMayFail, ~WriteMayFail
    PROVE  Spec => []StopSticks
<1>1. IntentInv => StopSticks
  BY Zenon DEF IntentInv, StopSticks
<1> QED
  BY <1>1, DiskInvariant, PTL

(* A start writes the run state and last-good before it is answered, so    *)
(* the boot after it finds both and never stays idle.                      *)
THEOREM RunningComesBack ==
    ASSUME ~ReadMayFail, ~WriteMayFail
    PROVE  Spec => RunComesBack
<1>1. TypeOK /\ IntentInv /\ [Next]_vars => [pc = "b_resolve" /\ pc' = "idle" => intent # "run"]_vars
  <2> SUFFICES ASSUME TypeOK, IntentInv, Next, pc = "b_resolve", pc' = "idle", intent = "run"
               PROVE  FALSE
    BY Zenon
  <2>1. BootDecide
    BY Zenon DEF Next, Proceed, Boot, recoverAtBoot, RecoverRemove, CheckPending, Validate,
       SetPending, preStart, Swap, StartSucceeds, StartFails, Fallback, SetWasRunning,
       SaveLastGood, setActive, writeState, announceSwap, setFatal, CloseCore, postStop,
       removeState, ClearPending, Put, ApplyEnter, RollbackEnter, StopEnter, Sigterm,
       ShutdownEnter, PutEnter, Delete, Exit, Crash, ProcessEnds
  <2>2. \A unreadable \in ReadFails : ~unreadable
    BY Zenon DEF ReadFails
  <2>3. PICK badLastGood, badFile, badState \in ReadFails :
          ~(resolveBootConfig(badLastGood, badFile) # NoConfig /\ shouldRun(badState))
    BY <2>1, Zenon DEF BootDecide, Start
  <2>4. shouldRun(badState)
    BY <2>2, Zenon DEF shouldRun, WasRunning, IntentInv
  <2>5. resolveBootConfig(badLastGood, badFile) # NoConfig
    BY <2>2, Zenon DEF resolveBootConfig, IntentInv
  <2> QED
    BY <2>3, <2>4, <2>5, Zenon
<1> QED
  BY <1>1, DiskInvariant, CoreInvariant, PTL DEF Spec, RunComesBack
=============================================================================
