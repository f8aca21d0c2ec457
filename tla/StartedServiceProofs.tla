------------------------ MODULE StartedServiceProofs ------------------------
(***************************************************************************)
(* The safety of the core's lifecycle for any number of callers, streams   *)
(* and instances, and any channel sizes.                                   *)
(*                                                                         *)
(* None of the properties is inductive alone: what a critical section does *)
(* to s.instance is right only because of what its caller left behind in   *)
(* the earlier ones.  The invariant says, for the caller that is inside    *)
(* lifecycleAccess, what each point between two critical sections may rely *)
(* on (PointInv), and for a free lock what the last caller left (FreeInv). *)
(***************************************************************************)
EXTENDS StartedService, TLAPS

USE SMTT(30), ZenonT(20)

Inside(c) == pc[c] \in StartPCs \cup ClosePCs

Queued == \E c \in Callers : pc[c] \in QueuedPCs

(* lifecycleAccess is a mutex over the bodies of both operations. *)
LockInv ==
    /\ \A c \in Callers : Inside(c) <=> c \in lifecycleAccess
    /\ \A c, d \in lifecycleAccess : c = d

(* The instances alive when only i can be. *)
Only(i) == IF i = NoInstance THEN {} ELSE {i}

FreeInv ==
    lifecycleAccess = {} =>
        /\ live = Only(instance)
        /\ ~startInterrupted
        /\ serviceStatus # "STOPPING"
        /\ serviceStatus = "STARTED" => instance # NoInstance /\ startedAt = instance
        /\ serviceStatus = "STARTING" => instance = NoInstance /\ (closed \/ Queued)

(* What holds at the point where c is inside the operation. *)
PointInv(c) ==
    /\ pc[c] \in {"s_closeOld", "c_close", "s_begin", "c_finish"} =>
           serviceStatus \in {"STOPPING", "FATAL"}
    /\ pc[c] \in StartPCs \ {"s_closeOld", "s_begin"} =>
           serviceStatus \in {"STARTING", "FATAL"}
    /\ pc[c] \in {"s_closeOld", "s_publish", "s_start", "s_finish", "s_closeNew"} =>
           mine[c] # NoInstance
    /\ pc[c] \in {"s_closeOld", "c_close", "s_publish", "s_start", "s_finish", "s_closeNew"} =>
           live = Only(mine[c])
    /\ pc[c] \in {"s_begin", "s_build", "s_buildFailed", "c_finish"} => live = {}
    /\ pc[c] \in {"s_start", "s_finish"} => instance = mine[c]
    /\ pc[c] \in (StartPCs \cup ClosePCs) \ {"s_start", "s_finish"} =>
           instance = NoInstance /\ ~startInterrupted
    /\ pc[c] = "s_publish" => mine[c] \notin cancelled
    /\ pc[c] = "s_closeNew" /\ serviceStatus = "STARTING" => Queued

(* Only an interrupted instance is cancelled, and the interrupter is still *)
(* waiting for the lock while its mark stands.                             *)
InterruptInv ==
    /\ cancelled \subseteq live
    /\ startInterrupted \/ instance \notin cancelled
    /\ startInterrupted => Queued

LifecycleInv ==
    /\ LockInv
    /\ FreeInv
    /\ \A c \in Callers : PointInv(c)
    /\ InterruptInv

-----------------------------------------------------------------------------
(* Emit appends at most one status to the subscriber's channel. *)
LEMMA EmitType ==
    ASSUME NEW status \in Status, bus \in Seq(Status), Emit(status)
    PROVE  bus' \in Seq(Status)
BY DEF Emit

(* A fresh subscription has nothing to read. *)
LEMMA EmptyType == <<>> \in Seq(Status)
OBVIOUS

(* Every critical section, channel operation and stream step keeps the     *)
(* fields of the service within their types.                               *)
THEOREM TypeCorrect == Spec => []TypeOK
<1>1. Init => TypeOK
  <2> SUFFICES ASSUME Init PROVE TypeOK
    BY Zenon
  <2>1. bus \in Seq(Status) /\ wq \in [Waiters -> Seq(Status)]
    BY EmptyType, Zenon DEF Init
  <2>2. serviceStatus \in Status /\ fq \in [Followers -> 0..ListenerSize]
    BY SizeAssumption DEF Init, Status
  <2> QED
    BY <2>1, <2>2, Zenon DEF Init, TypeOK, MaybeInstance, PCs, StartPCs, ClosePCs, QueuedPCs
<1>2. TypeOK /\ [Next]_vars => TypeOK'
  <2> SUFFICES ASSUME TypeOK, [Next]_vars PROVE TypeOK'
    BY Zenon
  <2> USE DEF TypeOK, Status, MaybeInstance, PCs, StartPCs, ClosePCs, QueuedPCs
  <2>1. ASSUME NEW c \in Callers, CallStartOrReload(c) PROVE TypeOK'
    BY <2>1, Zenon DEF CallStartOrReload, Call, interruptStart, Goto, waiterVars, followerVars
  <2>2. ASSUME NEW c \in Callers, CallCloseService(c) PROVE TypeOK'
    BY <2>2, Zenon DEF CallCloseService, Call, interruptStart, Goto, waiterVars, followerVars
  <2>3. ASSUME NEW c \in Callers, StartEnter(c) PROVE TypeOK'
    <3>1. bus' \in Seq(Status)
      BY <2>3, EmitType, Zenon DEF StartEnter, updateStatus, svcVars
    <3>2. pc' \in [Callers -> PCs] /\ lifecycleAccess' \in SUBSET Callers
      BY <2>3, Zenon DEF StartEnter, Return, Goto
    <3>3. mine' \in [Callers -> MaybeInstance] /\ startErr' \in [Callers -> BOOLEAN]
      BY <2>3, Zenon DEF StartEnter, Return
    <3>4. /\ serviceStatus' \in Status /\ instance' \in MaybeInstance
          /\ startedAt' \in MaybeInstance /\ startInterrupted' \in BOOLEAN
      BY <2>3, Zenon DEF StartEnter, updateStatus, svcVars
    <3> QED
      BY <2>3, <3>1, <3>2, <3>3, <3>4, Zenon DEF StartEnter, svcVars, instVars, waiterVars,
             followerVars
  <2>4. ASSUME NEW c \in Callers, CloseOld(c) PROVE TypeOK'
    BY <2>4, Zenon DEF CloseOld, CloseInstance, Goto, svcVars, waiterVars, followerVars
  <2>5. ASSUME NEW c \in Callers, BeginStart(c) PROVE TypeOK'
    <3>1. bus' \in Seq(Status)
      BY <2>5, EmitType, Zenon DEF BeginStart, updateStatus
    <3> QED
      BY <2>5, <3>1, Zenon DEF BeginStart, Goto, updateStatus, instVars, waiterVars, followerVars
  <2>6. ASSUME NEW c \in Callers, Build(c) PROVE TypeOK'
    <3>1. pc' \in [Callers -> PCs]
      BY <2>6 DEF Build, Goto
    <3>2. mine' \in [Callers -> MaybeInstance] /\ live' \in SUBSET Instances
      BY <2>6, Zenon DEF Build
    <3> QED
      BY <2>6, <3>1, <3>2, Zenon DEF Build, svcVars, waiterVars, followerVars
  <2>7. ASSUME NEW c \in Callers, BuildFailed(c) PROVE TypeOK'
    <3>1. bus' \in Seq(Status)
      BY <2>7, EmitType, Zenon DEF BuildFailed, updateStatus
    <3> QED
      BY <2>7, <3>1, Zenon DEF BuildFailed, Return, Goto, updateStatus, instVars, waiterVars,
             followerVars
  <2>8. ASSUME NEW c \in Callers, Publish(c) PROVE TypeOK'
    BY <2>8, Zenon DEF Publish, Goto, instVars, waiterVars, followerVars
  <2>9. ASSUME NEW c \in Callers, StartReturns(c) PROVE TypeOK'
    BY <2>9, Zenon DEF StartReturns, Goto, svcVars, instVars, waiterVars, followerVars
  <2>10. ASSUME NEW c \in Callers, FinishStart(c) PROVE TypeOK'
    <3>1. bus' \in Seq(Status)
      BY <2>10, EmitType, Zenon DEF FinishStart, updateStatus
    <3>2. pc' \in [Callers -> PCs] /\ lifecycleAccess' \in SUBSET Callers
      BY <2>10, Zenon DEF FinishStart, Return, Goto
    <3>3. mine' \in [Callers -> MaybeInstance] /\ startErr' \in [Callers -> BOOLEAN]
      BY <2>10, Zenon DEF FinishStart, Return
    <3>4. /\ serviceStatus' \in Status /\ instance' \in MaybeInstance
          /\ startedAt' \in MaybeInstance /\ startInterrupted' \in BOOLEAN
      BY <2>10, Zenon DEF FinishStart, updateStatus
    <3> QED
      BY <2>10, <3>1, <3>2, <3>3, <3>4, Zenon DEF FinishStart, instVars, waiterVars, followerVars
  <2>11. ASSUME NEW c \in Callers, CloseNew(c) PROVE TypeOK'
    BY <2>11, Zenon DEF CloseNew, CloseInstance, Return, Goto, svcVars, waiterVars, followerVars
  <2>12. ASSUME NEW c \in Callers, CloseEnter(c) PROVE TypeOK'
    <3>1. bus' \in Seq(Status)
      BY <2>12, EmitType, Zenon DEF CloseEnter, updateStatus, svcVars
    <3> QED
      <4>1. CASE Return(c) /\ UNCHANGED <<svcVars, bus>>
        BY <2>12, <4>1, Zenon DEF CloseEnter, Return, Goto, svcVars, instVars, waiterVars,
               followerVars
      <4>2. CASE ~NothingToClose
        <5>1. lifecycleAccess' \in SUBSET Callers /\ pc' \in [Callers -> PCs]
          BY <2>12, <4>2, Zenon DEF CloseEnter, Goto
        <5>2. mine' \in [Callers -> MaybeInstance]
          BY <2>12, <4>2, Zenon DEF CloseEnter
        <5> QED
          BY <2>12, <3>1, <4>2, <5>1, <5>2, Zenon DEF CloseEnter, updateStatus, instVars,
                 waiterVars, followerVars
      <4> QED
        BY <2>12, <4>1, <4>2, Zenon DEF CloseEnter
  <2>13. ASSUME NEW c \in Callers, CloseRunning(c) PROVE TypeOK'
    BY <2>13, Zenon DEF CloseRunning, CloseInstance, Goto, svcVars, waiterVars, followerVars
  <2>14. ASSUME NEW c \in Callers, CloseFinish(c) PROVE TypeOK'
    <3>1. bus' \in Seq(Status)
      BY <2>14, EmitType, Zenon DEF CloseFinish, updateStatus
    <3> QED
      BY <2>14, <3>1, Zenon DEF CloseFinish, Return, Goto, updateStatus, instVars, waiterVars,
             followerVars
  <2>15. CASE SetError
    <3>1. bus' \in Seq(Status)
      BY <2>15, EmitType, Zenon DEF SetError, updateStatus
    <3> QED
      BY <2>15, <3>1, Zenon DEF SetError, updateStatus, callVars, instVars, waiterVars,
             followerVars
  <2>16. CASE Close
    BY <2>16, Zenon DEF Close, callVars, instVars, waiterVars, followerVars
  <2>17. CASE Dispatch
    BY <2>17, SizeAssumption DEF Dispatch, svcVars, callVars, instVars
  <2>18. ASSUME NEW w \in Waiters, WaiterNext(w) PROVE TypeOK'
    <3> USE DEF svcVars, callVars, instVars, followerVars
    <3>1. CASE WaitRead(w) \/ WaitDone(w) \/ WaitCancelled(w)
      BY <3>1, Zenon DEF WaitRead, WaitDone, WaitCancelled
    <3>2. CASE WaitSubscribe(w) \/ WaitAgain(w)
      <4>1. wq' = [wq EXCEPT ![w] = <<>>]
        BY <3>2, Zenon DEF WaitSubscribe, WaitAgain
      <4>2. wq' \in [Waiters -> Seq(Status)]
        BY <4>1, EmptyType, Zenon
      <4> QED
        BY <3>2, <4>2, Zenon DEF WaitSubscribe, WaitAgain
    <3>3. CASE WaitReceive(w)
      BY <3>3 DEF WaitReceive
    <3> QED
      BY <2>18, <3>1, <3>2, <3>3, Zenon DEF WaiterNext
  <2>19. ASSUME NEW f \in Followers, FollowerNext(f) PROVE TypeOK'
    <3> USE DEF svcVars, callVars, instVars, waiterVars
    <3>1. CASE FollowSubscribe(f) \/ FollowEvent(f)
      <4>1. PICK n \in 0..ListenerSize : fq' = [fq EXCEPT ![f] = n]
        <5>1. CASE FollowSubscribe(f)
          BY <5>1, SizeAssumption, 0 \in 0..ListenerSize, Zenon DEF FollowSubscribe
        <5>2. CASE FollowEvent(f)
          <6>1. fq[f] \in 0..ListenerSize /\ fq[f] > 0
            BY <5>2, Zenon DEF FollowEvent
          <6>2. fq[f] - 1 \in 0..ListenerSize
            BY <6>1, SizeAssumption
          <6> QED
            BY <5>2, <6>2, Zenon DEF FollowEvent
        <5> QED
          BY <3>1, <5>1, <5>2, Zenon
      <4>2. fq' \in [Followers -> 0..ListenerSize]
        BY <4>1, Zenon
      <4> QED
        BY <3>1, <4>2, Zenon DEF FollowSubscribe, FollowEvent
    <3>2. CASE FollowRead(f)
      BY <3>2, Zenon DEF FollowRead, CurrentInstance
    <3>3. CASE FollowReturn(f)
      BY <3>3, Zenon DEF FollowReturn
    <3> QED
      BY <2>19, <3>1, <3>2, <3>3, Zenon DEF FollowerNext
  <2>20. CASE UNCHANGED vars
    BY <2>20, Zenon DEF vars, svcVars, callVars, instVars, waiterVars, followerVars
  <2> QED
    BY <2>1, <2>2, <2>3, <2>4, <2>5, <2>6, <2>7, <2>8, <2>9, <2>10, <2>11, <2>12, <2>13,
       <2>14, <2>15, <2>16, <2>17, <2>18, <2>19, <2>20 DEF Next, Proceed
<1> QED
  BY <1>1, <1>2, PTL DEF Spec

-----------------------------------------------------------------------------
(* What the lifecycle invariant depends on. *)
lifecycleVars == <<serviceStatus, instance, startInterrupted, closed, startedAt, lifecycleAccess, pc,
                   mine, live, cancelled>>

(* Streams and the dispatcher do not touch the lifecycle. *)
LEMMA StreamsKeepLifecycle ==
    ASSUME LifecycleInv, UNCHANGED lifecycleVars
    PROVE  LifecycleInv'
BY Zenon DEF LifecycleInv, LockInv, FreeInv, PointInv, InterruptInv, Inside, Queued, Only,
       lifecycleVars

(* Nobody else is inside while a caller is. *)
LEMMA OneInside ==
    ASSUME LockInv, NEW c \in Callers, NEW d \in Callers, Inside(c), d # c
    PROVE  ~Inside(d) /\ lifecycleAccess # {}
BY Zenon DEF LockInv

(* A caller that is outside after a step has no point to keep. *)
LEMMA OutsidePoint ==
    ASSUME NEW d \in Callers, pc'[d] \notin StartPCs \cup ClosePCs
    PROVE  PointInv(d)'
BY Zenon DEF PointInv, StartPCs, ClosePCs

(* A step of the caller inside leaves the others outside. *)
LEMMA OthersOutside ==
    ASSUME TypeOK, LockInv, NEW c \in Callers, NEW d \in Callers, Inside(c), d # c,
           NEW label, Goto(c, label)
    PROVE  PointInv(d)'
<1>1. ~Inside(d)
  BY OneInside, Zenon
<1>2. pc'[d] = pc[d]
  BY Zenon DEF Goto, TypeOK
<1> QED
  BY <1>1, <1>2, OutsidePoint, Zenon DEF Inside

(* A step from one point inside to the next leaves the mutex alone. *)
LEMMA MoveKeepsLock ==
    ASSUME TypeOK, LockInv, NEW c \in Callers, Inside(c),
           NEW label \in StartPCs \cup ClosePCs, Goto(c, label), UNCHANGED lifecycleAccess
    PROVE  LockInv'
BY Zenon DEF TypeOK, LockInv, Inside, Goto

(* A call that returns gives the mutex back. *)
LEMMA ReturnKeepsLock ==
    ASSUME TypeOK, LockInv, NEW c \in Callers, Inside(c) \/ lifecycleAccess = {}, Return(c)
    PROVE  LockInv'
BY Zenon DEF TypeOK, LockInv, Inside, Return, Goto, StartPCs, ClosePCs

(* StartEnter enters: the lock was free, so FreeInv speaks of what it finds. *)
LEMMA StartEnterKeeps ==
    ASSUME TypeOK, LifecycleInv, NEW c \in Callers, StartEnter(c)
    PROVE  LifecycleInv'
<1> USE DEF StartEnter, Goto, Return, updateStatus, svcVars, instVars
<1>1. LockInv'
  BY DEF TypeOK, LifecycleInv, LockInv, Inside, StartPCs, ClosePCs
<1>2. FreeInv'
  BY InstanceAssumption, Zenon DEF TypeOK, LifecycleInv, LockInv, FreeInv, PointInv, InterruptInv,
         Inside, Queued, Only, StartPCs, ClosePCs, QueuedPCs, MaybeInstance
<1>3. ASSUME NEW d \in Callers PROVE PointInv(d)'
  BY InstanceAssumption
     DEF TypeOK, LifecycleInv, LockInv, FreeInv, PointInv, InterruptInv, Inside, Queued,
         Only, StartPCs, ClosePCs, QueuedPCs, MaybeInstance
<1>4. InterruptInv'
  BY InstanceAssumption
     DEF TypeOK, LifecycleInv, LockInv, FreeInv, PointInv, InterruptInv, Inside, Queued,
         Only, StartPCs, ClosePCs, QueuedPCs, MaybeInstance
<1> QED
  BY <1>1, <1>2, <1>3, <1>4, Zenon DEF LifecycleInv

(* CloseOld closes the only instance there is. *)
LEMMA CloseOldKeeps ==
    ASSUME TypeOK, LifecycleInv, NEW c \in Callers, CloseOld(c)
    PROVE  LifecycleInv'
<1> USE DEF CloseOld, Goto, CloseInstance, svcVars
<1>1. LockInv'
  BY Zenon DEF TypeOK, LifecycleInv, LockInv, Inside, StartPCs, ClosePCs
<1>2. FreeInv'
  BY InstanceAssumption, Zenon DEF TypeOK, LifecycleInv, LockInv, FreeInv, PointInv, InterruptInv,
         Inside, Queued, Only, StartPCs, ClosePCs, QueuedPCs, MaybeInstance
<1>3. ASSUME NEW d \in Callers PROVE PointInv(d)'
  BY InstanceAssumption
     DEF TypeOK, LifecycleInv, LockInv, FreeInv, PointInv, InterruptInv, Inside, Queued,
         Only, StartPCs, ClosePCs, QueuedPCs, MaybeInstance
<1>4. InterruptInv'
  BY InstanceAssumption, Zenon DEF TypeOK, LifecycleInv, LockInv, FreeInv, PointInv, InterruptInv,
         Inside, Queued, Only, StartPCs, ClosePCs, QueuedPCs, MaybeInstance
<1> QED
  BY <1>1, <1>2, <1>3, <1>4, Zenon DEF LifecycleInv

(* BeginStart begins with no instance alive. *)
LEMMA BeginStartKeeps ==
    ASSUME TypeOK, LifecycleInv, NEW c \in Callers, BeginStart(c)
    PROVE  LifecycleInv'
<1> USE DEF BeginStart, Goto, updateStatus, instVars
<1>1. LockInv'
  BY Zenon DEF TypeOK, LifecycleInv, LockInv, Inside, StartPCs, ClosePCs
<1>2. FreeInv'
  BY InstanceAssumption, Zenon DEF TypeOK, LifecycleInv, LockInv, FreeInv, PointInv, InterruptInv,
         Inside, Queued, Only, StartPCs, ClosePCs, QueuedPCs, MaybeInstance
<1>3. ASSUME NEW d \in Callers PROVE PointInv(d)'
  BY InstanceAssumption
     DEF TypeOK, LifecycleInv, LockInv, FreeInv, PointInv, InterruptInv, Inside, Queued,
         Only, StartPCs, ClosePCs, QueuedPCs, MaybeInstance
<1>4. InterruptInv'
  BY InstanceAssumption, Zenon DEF TypeOK, LifecycleInv, LockInv, FreeInv, PointInv, InterruptInv,
         Inside, Queued, Only, StartPCs, ClosePCs, QueuedPCs, MaybeInstance
<1> QED
  BY <1>1, <1>2, <1>3, <1>4, Zenon DEF LifecycleInv

(* Build adds the only instance alive. *)
LEMMA BuildKeeps ==
    ASSUME TypeOK, LifecycleInv, NEW c \in Callers, Build(c)
    PROVE  LifecycleInv'
<1> USE DEF Build, Goto, svcVars
<1>1. LockInv'
  BY DEF TypeOK, LifecycleInv, LockInv, Inside, StartPCs, ClosePCs
<1>2. FreeInv'
  BY InstanceAssumption, Zenon DEF TypeOK, LifecycleInv, LockInv, FreeInv, PointInv, InterruptInv,
         Inside, Queued, Only, StartPCs, ClosePCs, QueuedPCs, MaybeInstance
<1>3. ASSUME NEW d \in Callers PROVE PointInv(d)'
  <2>1. /\ pc[c] = "s_build" /\ live = {} /\ cancelled = {} /\ instance = NoInstance
        /\ ~startInterrupted /\ serviceStatus \in {"STARTING", "FATAL"}
    BY Zenon DEF LifecycleInv, PointInv, InterruptInv, StartPCs
  <2>2. UNCHANGED <<serviceStatus, instance, startInterrupted, cancelled>>
    BY Zenon
  <2>3. CASE d = c
    <3>1. ASSUME NEW i \in Instances, live' = {i}, mine'[c] = i, pc'[c] = "s_publish"
          PROVE  PointInv(c)'
      BY <2>1, <3>1, InstanceAssumption, Zenon DEF PointInv, Only, StartPCs, ClosePCs
    <3>2. CASE pc'[c] = "s_buildFailed" /\ live' = {}
      <4> HIDE DEF Build
      <4> QED
        BY <2>1, <2>2, <2>3, <3>2, Zenon DEF PointInv, StartPCs, ClosePCs
    <3> QED
      BY <2>1, <2>3, <3>1, <3>2 DEF TypeOK
  <2>4. CASE d # c
    <3>1. Inside(c) /\ \E label : Goto(c, label)
      BY <2>1, Zenon DEF Inside, StartPCs
    <3> QED
      BY <2>4, <3>1, OthersOutside, Zenon DEF LifecycleInv
  <2> QED
    BY <2>3, <2>4, Zenon
<1>4. InterruptInv'
  BY InstanceAssumption, Zenon DEF TypeOK, LifecycleInv, LockInv, FreeInv, PointInv, InterruptInv,
         Inside, Queued, Only, StartPCs, ClosePCs, QueuedPCs, MaybeInstance
<1> QED
  BY <1>1, <1>2, <1>3, <1>4, Zenon DEF LifecycleInv

(* BuildFailed leaves with no instance alive. *)
LEMMA BuildFailedKeeps ==
    ASSUME TypeOK, LifecycleInv, NEW c \in Callers, BuildFailed(c)
    PROVE  LifecycleInv'
<1> USE DEF BuildFailed, Goto, Return, updateStatus, instVars
<1>1. LockInv'
  BY Zenon DEF TypeOK, LifecycleInv, LockInv, Inside, StartPCs, ClosePCs
<1>2. FreeInv'
  BY InstanceAssumption, Zenon DEF TypeOK, LifecycleInv, LockInv, FreeInv, PointInv, InterruptInv,
         Inside, Queued, Only, StartPCs, ClosePCs, QueuedPCs, MaybeInstance
<1>3. ASSUME NEW d \in Callers PROVE PointInv(d)'
  BY InstanceAssumption
     DEF TypeOK, LifecycleInv, LockInv, FreeInv, PointInv, InterruptInv, Inside, Queued,
         Only, StartPCs, ClosePCs, QueuedPCs, MaybeInstance
<1>4. InterruptInv'
  BY InstanceAssumption, Zenon DEF TypeOK, LifecycleInv, LockInv, FreeInv, PointInv, InterruptInv,
         Inside, Queued, Only, StartPCs, ClosePCs, QueuedPCs, MaybeInstance
<1> QED
  BY <1>1, <1>2, <1>3, <1>4, Zenon DEF LifecycleInv

(* Publish names the instance that is alive, which nobody could cancel yet. *)
LEMMA PublishKeeps ==
    ASSUME TypeOK, LifecycleInv, NEW c \in Callers, Publish(c)
    PROVE  LifecycleInv'
<1> USE DEF Publish, Goto, instVars
<1>1. LockInv'
  BY Zenon DEF TypeOK, LifecycleInv, LockInv, Inside, StartPCs, ClosePCs
<1>2. FreeInv'
  BY InstanceAssumption, Zenon DEF TypeOK, LifecycleInv, LockInv, FreeInv, PointInv, InterruptInv,
         Inside, Queued, Only, StartPCs, ClosePCs, QueuedPCs, MaybeInstance
<1>3. ASSUME NEW d \in Callers PROVE PointInv(d)'
  BY InstanceAssumption
     DEF TypeOK, LifecycleInv, LockInv, FreeInv, PointInv, InterruptInv, Inside, Queued,
         Only, StartPCs, ClosePCs, QueuedPCs, MaybeInstance
<1>4. InterruptInv'
  BY InstanceAssumption, Zenon DEF TypeOK, LifecycleInv, LockInv, FreeInv, PointInv, InterruptInv,
         Inside, Queued, Only, StartPCs, ClosePCs, QueuedPCs, MaybeInstance
<1> QED
  BY <1>1, <1>2, <1>3, <1>4, Zenon DEF LifecycleInv

(* StartReturns changes nothing but the caller's own point. *)
LEMMA StartReturnsKeeps ==
    ASSUME TypeOK, LifecycleInv, NEW c \in Callers, StartReturns(c)
    PROVE  LifecycleInv'
<1> USE DEF StartReturns, Goto, svcVars, instVars
<1>1. LockInv'
  BY Zenon DEF TypeOK, LifecycleInv, LockInv, Inside, StartPCs, ClosePCs
<1>2. FreeInv'
  BY InstanceAssumption, Zenon DEF TypeOK, LifecycleInv, LockInv, FreeInv, PointInv, InterruptInv,
         Inside, Queued, Only, StartPCs, ClosePCs, QueuedPCs, MaybeInstance
<1>3. ASSUME NEW d \in Callers PROVE PointInv(d)'
  BY InstanceAssumption
     DEF TypeOK, LifecycleInv, LockInv, FreeInv, PointInv, InterruptInv, Inside, Queued,
         Only, StartPCs, ClosePCs, QueuedPCs, MaybeInstance
<1>4. InterruptInv'
  BY InstanceAssumption
     DEF TypeOK, LifecycleInv, LockInv, FreeInv, PointInv, InterruptInv, Inside, Queued,
         Only, StartPCs, ClosePCs, QueuedPCs, MaybeInstance
<1> QED
  BY <1>1, <1>2, <1>3, <1>4, Zenon DEF LifecycleInv

(* FinishStart publishes STARTED only for an instance nobody has interrupted. *)
LEMMA FinishStartKeeps ==
    ASSUME TypeOK, LifecycleInv, NEW c \in Callers, FinishStart(c)
    PROVE  LifecycleInv'
<1> USE DEF FinishStart, Goto, Return, updateStatus, instVars
<1>1. LockInv'
  <2>1. LockInv /\ Inside(c)
    BY Zenon DEF LifecycleInv, Inside, StartPCs
  <2>2. CASE Return(c)
    BY <2>1, <2>2, ReturnKeepsLock, Zenon
  <2>3. CASE Goto(c, "s_closeNew") /\ UNCHANGED lifecycleAccess
    BY <2>1, <2>3, MoveKeepsLock, "s_closeNew" \in StartPCs, Zenon DEF StartPCs
  <2> QED
    BY <2>2, <2>3, Zenon
<1>2. FreeInv'
  BY InstanceAssumption
     DEF TypeOK, LifecycleInv, LockInv, FreeInv, PointInv, InterruptInv, Inside, Queued,
         Only, StartPCs, ClosePCs, QueuedPCs, MaybeInstance
<1>3. ASSUME NEW d \in Callers PROVE PointInv(d)'
  BY InstanceAssumption, SMTT(20)
     DEF TypeOK, LifecycleInv, LockInv, FreeInv, PointInv, InterruptInv, Inside, Queued,
         Only, StartPCs, ClosePCs, QueuedPCs, MaybeInstance
<1>4. InterruptInv'
  BY InstanceAssumption
     DEF TypeOK, LifecycleInv, LockInv, FreeInv, PointInv, InterruptInv, Inside, Queued,
         Only, StartPCs, ClosePCs, QueuedPCs, MaybeInstance
<1> QED
  BY <1>1, <1>2, <1>3, <1>4, Zenon DEF LifecycleInv

(* CloseNew closes what the start had built. *)
LEMMA CloseNewKeeps ==
    ASSUME TypeOK, LifecycleInv, NEW c \in Callers, CloseNew(c)
    PROVE  LifecycleInv'
<1> USE DEF CloseNew, Goto, CloseInstance, Return, svcVars
<1>1. LockInv'
  BY Zenon DEF TypeOK, LifecycleInv, LockInv, Inside, StartPCs, ClosePCs
<1>2. FreeInv'
  <2>1. live' = {} /\ instance' = NoInstance /\ ~startInterrupted'
    BY InstanceAssumption, Zenon DEF LifecycleInv, PointInv, Only, StartPCs, ClosePCs
  <2>2. serviceStatus' \in {"STARTING", "FATAL"}
    BY Zenon DEF LifecycleInv, PointInv, StartPCs
  <2>3. serviceStatus' = "STARTING" => Queued'
    BY Zenon DEF TypeOK, LifecycleInv, PointInv, Queued, QueuedPCs
  <2> QED
    BY <2>1, <2>2, <2>3, Zenon DEF FreeInv, Only
<1>3. ASSUME NEW d \in Callers PROVE PointInv(d)'
  <2>1. CASE d = c
    BY <2>1, OutsidePoint, Zenon DEF TypeOK, StartPCs, ClosePCs
  <2>2. CASE d # c
    <3>1. Inside(c) /\ Goto(c, "idle")
      BY Zenon DEF Inside, StartPCs
    <3> QED
      BY <2>2, <3>1, OthersOutside, Zenon DEF LifecycleInv
  <2> QED
    BY <2>1, <2>2, Zenon
<1>4. InterruptInv'
  BY InstanceAssumption, Zenon DEF TypeOK, LifecycleInv, LockInv, FreeInv, PointInv, InterruptInv,
         Inside, Queued, Only, StartPCs, ClosePCs, QueuedPCs, MaybeInstance
<1> QED
  BY <1>1, <1>2, <1>3, <1>4, Zenon DEF LifecycleInv

(* CloseEnter enters: the lock was free. *)
LEMMA CloseEnterKeeps ==
    ASSUME TypeOK, LifecycleInv, NEW c \in Callers, CloseEnter(c)
    PROVE  LifecycleInv'
<1> USE DEF CloseEnter, Goto, NothingToClose, Return, updateStatus, svcVars, instVars
<1>1. LockInv'
  BY DEF TypeOK, LifecycleInv, LockInv, Inside, StartPCs, ClosePCs
<1>2. FreeInv'
  BY InstanceAssumption, Zenon DEF TypeOK, LifecycleInv, LockInv, FreeInv, PointInv, InterruptInv,
         Inside, Queued, Only, StartPCs, ClosePCs, QueuedPCs, MaybeInstance
<1>3. ASSUME NEW d \in Callers PROVE PointInv(d)'
  <2>1. CASE d # c
    <3>1. ~Inside(d) /\ pc'[d] = pc[d]
      BY <2>1, Zenon DEF TypeOK, LifecycleInv, LockInv
    <3> QED
      BY <3>1, OutsidePoint, Zenon DEF Inside
  <2>2. CASE d = c /\ pc'[c] = "idle"
    BY <2>2, OutsidePoint, Zenon DEF StartPCs, ClosePCs
  <2>3. CASE d = c /\ pc'[c] = "c_close"
    <3>1. live = Only(instance) /\ ~startInterrupted
      BY Zenon DEF LifecycleInv, FreeInv, NothingToClose
    <3>2. /\ live' = Only(mine'[c]) /\ instance' = NoInstance /\ ~startInterrupted'
          /\ serviceStatus' = "STOPPING"
      BY <2>3, <3>1 DEF TypeOK
    <3> HIDE DEF CloseEnter
    <3> QED
      BY <2>3, <3>2, Zenon DEF PointInv, StartPCs, ClosePCs, Only
  <2> QED
    BY <2>1, <2>2, <2>3, Zenon DEF TypeOK
<1>4. InterruptInv'
  BY InstanceAssumption
     DEF TypeOK, LifecycleInv, LockInv, FreeInv, PointInv, InterruptInv, Inside, Queued,
         Only, StartPCs, ClosePCs, QueuedPCs, MaybeInstance
<1> QED
  BY <1>1, <1>2, <1>3, <1>4, Zenon DEF LifecycleInv

(* CloseRunning closes the only instance there is. *)
LEMMA CloseRunningKeeps ==
    ASSUME TypeOK, LifecycleInv, NEW c \in Callers, CloseRunning(c)
    PROVE  LifecycleInv'
<1> USE DEF CloseRunning, Goto, CloseInstance, svcVars
<1>1. LockInv'
  BY Zenon DEF TypeOK, LifecycleInv, LockInv, Inside, StartPCs, ClosePCs
<1>2. FreeInv'
  BY InstanceAssumption, Zenon DEF TypeOK, LifecycleInv, LockInv, FreeInv, PointInv, InterruptInv,
         Inside, Queued, Only, StartPCs, ClosePCs, QueuedPCs, MaybeInstance
<1>3. ASSUME NEW d \in Callers PROVE PointInv(d)'
  <2>1. /\ Inside(c) /\ live = Only(mine[c]) /\ instance = NoInstance
        /\ ~startInterrupted /\ serviceStatus \in {"STOPPING", "FATAL"}
    BY Zenon DEF LifecycleInv, PointInv, Inside, ClosePCs
  <2>2. CASE d = c
    <3>1. /\ pc'[c] = "c_finish" /\ live' = {}
          /\ UNCHANGED <<serviceStatus, instance, startInterrupted>>
      BY <2>1, Zenon DEF TypeOK, Only
    <3> HIDE DEF CloseRunning
    <3> QED
      BY <2>1, <2>2, <3>1, Zenon DEF PointInv, StartPCs, ClosePCs
  <2>3. CASE d # c
    BY <2>1, <2>3, OthersOutside, Zenon DEF LifecycleInv, CloseRunning
  <2> QED
    BY <2>2, <2>3, Zenon
<1>4. InterruptInv'
  BY InstanceAssumption, Zenon DEF TypeOK, LifecycleInv, LockInv, FreeInv, PointInv, InterruptInv,
         Inside, Queued, Only, StartPCs, ClosePCs, QueuedPCs, MaybeInstance
<1> QED
  BY <1>1, <1>2, <1>3, <1>4, Zenon DEF LifecycleInv

(* CloseFinish leaves with no instance alive. *)
LEMMA CloseFinishKeeps ==
    ASSUME TypeOK, LifecycleInv, NEW c \in Callers, CloseFinish(c)
    PROVE  LifecycleInv'
<1> USE DEF CloseFinish, Goto, Return, updateStatus, instVars
<1>1. LockInv'
  BY Zenon DEF TypeOK, LifecycleInv, LockInv, Inside, StartPCs, ClosePCs
<1>2. FreeInv'
  BY InstanceAssumption, Zenon DEF TypeOK, LifecycleInv, LockInv, FreeInv, PointInv, InterruptInv,
         Inside, Queued, Only, StartPCs, ClosePCs, QueuedPCs, MaybeInstance
<1>3. ASSUME NEW d \in Callers PROVE PointInv(d)'
  <2>1. CASE d = c
    BY <2>1, OutsidePoint, Zenon DEF TypeOK, StartPCs, ClosePCs
  <2>2. CASE d # c
    <3>1. Inside(c) /\ Goto(c, "idle")
      BY Zenon DEF Inside, ClosePCs
    <3> QED
      BY <2>2, <3>1, OthersOutside, Zenon DEF LifecycleInv
  <2> QED
    BY <2>1, <2>2, Zenon
<1>4. InterruptInv'
  BY InstanceAssumption, Zenon DEF TypeOK, LifecycleInv, LockInv, FreeInv, PointInv, InterruptInv,
         Inside, Queued, Only, StartPCs, ClosePCs, QueuedPCs, MaybeInstance
<1> QED
  BY <1>1, <1>2, <1>3, <1>4, Zenon DEF LifecycleInv

(* A call that arrives may mark and cancel the instance being started, and *)
(* then waits for the lock: that is what InterruptInv asks for.            *)
LEMMA CallKeeps ==
    ASSUME TypeOK, LifecycleInv, NEW c \in Callers, NEW queued \in QueuedPCs, Call(c, queued)
    PROVE  LifecycleInv'
<1> USE DEF Call, Goto, interruptStart
<1>1. LockInv'
  BY Zenon DEF TypeOK, LifecycleInv, LockInv, Inside, StartPCs, ClosePCs, QueuedPCs
<1>2. Queued'
  BY Zenon DEF TypeOK, Queued
<1>3. FreeInv'
  BY <1>2, InstanceAssumption, Zenon DEF TypeOK, LifecycleInv, FreeInv, Only
<1>4. ASSUME NEW d \in Callers PROVE PointInv(d)'
  BY <1>2, InstanceAssumption, Zenon DEF TypeOK, LifecycleInv, PointInv, Only, StartPCs, ClosePCs,
         QueuedPCs, MaybeInstance
<1>5. InterruptInv'
  <2>1. CASE serviceStatus = "STARTING" /\ instance # NoInstance
    <3>1. lifecycleAccess # {}
      BY <2>1, Zenon DEF LifecycleInv, FreeInv
    <3>2. PICK d \in Callers : Inside(d)
      BY <3>1, Zenon DEF TypeOK, LifecycleInv, LockInv
    <3>3. instance \in live
      BY <2>1, <3>2, Zenon DEF LifecycleInv, PointInv, Inside, StartPCs, ClosePCs, Only
    <3> QED
      BY <1>2, <2>1, <3>3, Zenon DEF LifecycleInv, InterruptInv
  <2>2. CASE ~(serviceStatus = "STARTING" /\ instance # NoInstance)
    BY <1>2, <2>2, Zenon DEF LifecycleInv, InterruptInv
  <2> QED
    BY <2>1, <2>2, Zenon
<1> QED
  BY <1>1, <1>3, <1>4, <1>5, Zenon DEF LifecycleInv

(* SetError may overwrite any status with FATAL, which no point rules out. *)
LEMMA SetErrorKeeps ==
    ASSUME TypeOK, LifecycleInv, SetError
    PROVE  LifecycleInv'
BY Zenon DEF SetError, updateStatus, callVars, instVars, LifecycleInv, LockInv, FreeInv, PointInv,
       InterruptInv, Inside, Queued, Only

(* Close only ends the service. *)
LEMMA CloseKeeps ==
    ASSUME TypeOK, LifecycleInv, Close
    PROVE  LifecycleInv'
BY Zenon DEF Close, callVars, instVars, LifecycleInv, LockInv, FreeInv, PointInv, InterruptInv,
       Inside, Queued, Only

(* The lifecycle invariant holds in every reachable state. *)
THEOREM LifecycleInvariant == Spec => []LifecycleInv
<1>1. Init => LifecycleInv
  BY DEF Init, LifecycleInv, LockInv, FreeInv, PointInv, InterruptInv, Inside, Only,
         StartPCs, ClosePCs
<1>2. TypeOK /\ LifecycleInv /\ [Next]_vars => LifecycleInv'
  <2> SUFFICES ASSUME TypeOK, LifecycleInv, [Next]_vars PROVE LifecycleInv'
    BY Zenon
  <2>1. ASSUME NEW c \in Callers, CallStartOrReload(c) \/ CallCloseService(c)
        PROVE  LifecycleInv'
    BY <2>1, CallKeeps, Zenon DEF CallStartOrReload, CallCloseService, QueuedPCs
  <2>2. ASSUME NEW c \in Callers, Proceed(c) PROVE LifecycleInv'
    BY <2>2, StartEnterKeeps, CloseOldKeeps, BeginStartKeeps, BuildKeeps, BuildFailedKeeps,
       PublishKeeps, StartReturnsKeeps, FinishStartKeeps, CloseNewKeeps, CloseEnterKeeps,
       CloseRunningKeeps, CloseFinishKeeps, Zenon DEF Proceed
  <2>3. CASE Dispatch \/ (\E w \in Waiters : WaiterNext(w))
             \/ (\E f \in Followers : FollowerNext(f)) \/ UNCHANGED vars
    <3>1. UNCHANGED lifecycleVars
      BY <2>3, Zenon DEF Dispatch, WaiterNext, WaitRead, WaitSubscribe, WaitReceive, WaitDone,
             WaitCancelled, WaitAgain, FollowerNext, FollowSubscribe, FollowRead, FollowEvent,
             FollowReturn, vars, svcVars, callVars, instVars, lifecycleVars
    <3> QED
      BY <3>1, StreamsKeepLifecycle, Zenon
  <2> QED
    BY <2>1, <2>2, <2>3, SetErrorKeeps, CloseKeeps, Zenon DEF Next
<1> QED
  BY <1>1, <1>2, TypeCorrect, PTL DEF Spec

-----------------------------------------------------------------------------
(* A reload never runs two cores at once, whoever interrupts whom. *)
THEOREM NeverTwoCores == Spec => []OneLiveInstance
<1>1. TypeOK /\ LifecycleInv => OneLiveInstance
  <2> SUFFICES ASSUME TypeOK, LifecycleInv PROVE OneLiveInstance
    BY Zenon
  <2>1. CASE lifecycleAccess = {}
    BY <2>1, Zenon DEF LifecycleInv, FreeInv, Only, OneLiveInstance
  <2>2. CASE lifecycleAccess # {}
    <3>1. PICK c \in Callers : Inside(c)
      BY <2>2, Zenon DEF TypeOK, LifecycleInv, LockInv
    <3> QED
      BY <3>1, Zenon DEF LifecycleInv, PointInv, Inside, StartPCs, ClosePCs, Only, OneLiveInstance
  <2> QED
    BY <2>1, <2>2, Zenon
<1> QED
  BY <1>1, TypeCorrect, LifecycleInvariant, PTL

(* An RPC handler that sees STARTED finds an instance that is alive, was   *)
(* not cancelled and is the one startedAt was set for.                     *)
THEOREM StartedIsUsable == Spec => []StartedHasInstance
<1>1. TypeOK /\ LifecycleInv => StartedHasInstance
  <2> SUFFICES ASSUME TypeOK, LifecycleInv, serviceStatus = "STARTED"
               PROVE  instance \in live /\ instance \notin cancelled /\ startedAt = instance
    BY Zenon DEF StartedHasInstance
  <2>1. lifecycleAccess = {}
    BY Zenon DEF TypeOK, LifecycleInv, LockInv, PointInv, Inside, StartPCs, ClosePCs
  <2> QED
    BY <2>1, Zenon DEF LifecycleInv, FreeInv, InterruptInv, Only
<1> QED
  BY <1>1, TypeCorrect, LifecycleInvariant, PTL

(* An interrupted start is always picked up by the call that interrupted   *)
(* it, and nothing stays alive that s.instance does not name.              *)
THEOREM InterruptedStartIsReplaced == Spec => []NoOrphanStart
<1>1. LifecycleInv => NoOrphanStart
  BY Zenon DEF LifecycleInv, FreeInv, Only, Queued, NoOrphanStart
<1> QED
  BY <1>1, LifecycleInvariant, PTL

-----------------------------------------------------------------------------
(* An emitted status is either in the subscriber's channel, or the channel *)
(* is full of others that will do as well, or the service was closed.      *)
LEMMA EmitLeavesEvent ==
    ASSUME NEW status, bus \in Seq(Status), closed \in BOOLEAN, Emit(status)
    PROVE  bus' # <<>> \/ closed
BY SizeAssumption DEF Emit

(* A lifecycle step that does not emit does not change which core the      *)
(* streams should follow: s.instance moves silently only while the status  *)
(* is not STARTED.                                                         *)
LEMMA SilentStepsKeepCurrent ==
    ASSUME TypeOK, LifecycleInv, NEW c \in Callers,
           CallStartOrReload(c) \/ CallCloseService(c) \/ Proceed(c)
    PROVE  /\ UNCHANGED <<fpc, fview, fq, closed>>
           /\ (bus' = bus /\ CurrentInstance' = CurrentInstance) \/ bus' # <<>> \/ closed
<1> USE DEF TypeOK, waiterVars, followerVars, svcVars
<1>1. CASE CallStartOrReload(c) \/ CallCloseService(c)
  BY <1>1, Zenon DEF CallStartOrReload, CallCloseService, Call, CurrentInstance
<1>2. CASE StartEnter(c)
  BY <1>2, EmitLeavesEvent, Zenon DEF StartEnter, updateStatus, CurrentInstance
<1>3. CASE CloseOld(c) \/ Build(c) \/ StartReturns(c) \/ CloseNew(c) \/ CloseRunning(c)
  BY <1>3, Zenon DEF CloseOld, Build, StartReturns, CloseNew, CloseRunning, CurrentInstance
<1>4. CASE BeginStart(c) \/ BuildFailed(c) \/ CloseFinish(c)
  BY <1>4, EmitLeavesEvent, Zenon DEF BeginStart, BuildFailed, CloseFinish, updateStatus
<1>5. CASE Publish(c)
  <2>1. serviceStatus # "STARTED"
    BY <1>5, Zenon DEF Publish, LifecycleInv, PointInv, StartPCs
  <2> QED
    BY <1>5, <2>1, Zenon DEF Publish, CurrentInstance
<1>6. CASE FinishStart(c)
  <2>1. serviceStatus # "STARTED"
    BY <1>6, Zenon DEF FinishStart, LifecycleInv, PointInv, StartPCs
  <2> QED
    BY <1>6, <2>1, EmitLeavesEvent, Zenon DEF FinishStart, updateStatus, CurrentInstance
<1>7. CASE CloseEnter(c)
  BY <1>7, EmitLeavesEvent, Zenon DEF CloseEnter, updateStatus, CurrentInstance
<1> QED
  BY <1>1, <1>2, <1>3, <1>4, <1>5, <1>6, <1>7, Zenon DEF Proceed

(* followInstance never keeps following a replaced core: whatever the two  *)
(* channels drop, an event is left that makes it look again.               *)
THEOREM FollowersCatchUp == Spec => []FollowerNotStale
<1>1. Init => FollowerNotStale
  BY Zenon DEF Init, FollowerNotStale
<1>2. TypeOK /\ LifecycleInv /\ FollowerNotStale /\ [Next]_vars => FollowerNotStale'
  <2> SUFFICES ASSUME TypeOK, LifecycleInv, FollowerNotStale, [Next]_vars
               PROVE  FollowerNotStale'
    BY Zenon
  <2>1. ASSUME NEW c \in Callers,
               CallStartOrReload(c) \/ CallCloseService(c) \/ Proceed(c)
        PROVE  FollowerNotStale'
    BY <2>1, SilentStepsKeepCurrent DEF FollowerNotStale
  <2>2. CASE SetError
    BY <2>2, EmitLeavesEvent, Zenon DEF SetError, updateStatus, FollowerNotStale, followerVars,
           TypeOK
  <2>3. CASE Close
    BY <2>3, Zenon DEF Close, FollowerNotStale
  <2>4. CASE Dispatch
    <3> SUFFICES ASSUME NEW f \in Followers, fpc'[f] = "run" PROVE fq'[f] > 0
      BY Zenon DEF FollowerNotStale
    <3>1. fpc[f] # "off" /\ fq[f] \in 0..ListenerSize
      BY <2>4, Zenon DEF Dispatch, TypeOK
    <3> QED
      BY <2>4, <3>1, SizeAssumption DEF Dispatch
  <2>5. ASSUME NEW w \in Waiters, WaiterNext(w) PROVE FollowerNotStale'
    BY <2>5 DEF WaiterNext, WaitRead, WaitSubscribe, WaitReceive, WaitDone, WaitCancelled,
                WaitAgain, svcVars, followerVars, FollowerNotStale, CurrentInstance
  <2>6. ASSUME NEW f \in Followers, FollowerNext(f) PROVE FollowerNotStale'
    <3> USE DEF TypeOK, svcVars, FollowerNotStale, CurrentInstance
    <3>1. CASE FollowSubscribe(f)
      BY <3>1, Zenon DEF FollowSubscribe
    <3>2. CASE FollowRead(f)
      BY <3>2, Zenon DEF FollowRead
    <3>3. CASE FollowEvent(f)
      BY <3>3, Zenon DEF FollowEvent
    <3>4. CASE FollowReturn(f)
      BY <3>4, Zenon DEF FollowReturn
    <3> QED
      BY <2>6, <3>1, <3>2, <3>3, <3>4, Zenon DEF FollowerNext
  <2>7. CASE UNCHANGED vars
    BY <2>7, Zenon DEF vars, svcVars, followerVars, FollowerNotStale, CurrentInstance
  <2> QED
    BY <2>1, <2>2, <2>3, <2>4, <2>5, <2>6, <2>7, Zenon DEF Next
<1> QED
  BY <1>1, <1>2, TypeCorrect, LifecycleInvariant, PTL DEF Spec
=============================================================================
