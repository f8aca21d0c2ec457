--------------------------- MODULE WgBudgetProofs ---------------------------
(***************************************************************************)
(* Theorems about WgBudget, for any endpoints, dials and configurations,   *)
(* from the invariant of WgBudgetInv.                                      *)
(***************************************************************************)
EXTENDS WgBudgetInv, FiniteSetTheorems

USE SMTT(30), ZenonT(20)

(* The invariant, for every behaviour. *)

(* Before the start every lock is free and no dial is under way. *)
LEMMA InitOK == Init => IInv
  <1> SUFFICES ASSUME Init PROVE IInv
    BY Zenon
  <1>1. TypeOK
    BY BudgetAssumption DEF Init, TypeOK, Fresh, Lazy, InFlight, Rebuilding, Requesting
  <1>2. ASSUME NEW d \in Dials PROVE OwnOK(d) /\ VictimOK(d)
    BY Zenon DEF Init, Fresh, OwnOK, VictimOK, InFlight, Rebuilding, Requesting, AtVictim,
           Evicting, Building
  <1>3. TickOK
    BY Zenon DEF Init, TickOK
  <1>4. ASSUME NEW e \in Endpoints PROVE EndpointOK(e)
    BY Zenon DEF Init, EndpointOK, Lazy
  <1> QED
    BY <1>1, <1>2, <1>3, <1>4, Zenon DEF IInv

(* A stuttering step changes nothing the invariant speaks of. *)
LEMMA StutterOK == IInv /\ UNCHANGED vars => IInv'
  <1> SUFFICES ASSUME IInv, UNCHANGED vars PROVE IInv'
    BY Zenon
  <1> USE DEF vars, flags, devices, budget
  <1>1. TypeOK'
    BY Zenon DEF IInv, TypeOK
  <1>2. ASSUME NEW d \in Dials PROVE OwnOK(d)' /\ VictimOK(d)'
    BY Zenon DEF IInv, OwnOK, VictimOK
  <1>3. TickOK'
    BY Zenon DEF IInv, TickOK
  <1>4. ASSUME NEW e \in Endpoints PROVE EndpointOK(e)'
    BY Zenon DEF IInv, EndpointOK, Settled, Lazy
  <1> QED
    BY <1>1, <1>2, <1>3, <1>4, Zenon DEF IInv

(* Every step of an endpoint, a dial or the tick keeps the invariant. *)
LEMMA NextOK == IInv /\ [Next]_vars => IInv'
  <1> SUFFICES ASSUME IInv, Next PROVE IInv'
    BY StutterOK, Zenon
  <1> UNCHANGED wg
    BY Zenon DEF Next
  <1>1. ASSUME NEW c \in Endpoints, Endpoint(c) \/ Close(c) \/ TickTakes(c) PROVE IInv'
    BY <1>1, StartKeeps, DisableKeeps, EnableKeeps, FlowEndsKeeps, CloseBeginsKeeps,
       CloseLocksKeeps, CloseEndsKeeps, TickTakesKeeps, Zenon DEF Endpoint, Close
  <1>2. ASSUME NEW d \in Dials, Wake(d) PROVE IInv'
    BY <1>2, ReadAsleepKeeps, ReadStartedKeeps, DialLocksKeeps, DialWakesKeeps, DialRebuildsKeeps,
       DialEndsKeeps, Zenon DEF Wake
  <1>3. ASSUME NEW d \in Dials, Acquire(d) PROVE IInv'
    BY <1>3, AcquireTopKeeps, TakeSlotKeeps, NoSlotKeeps, TryCandidateKeeps, BuildOverKeeps,
       WaitForSlotKeeps, LookAgainKeeps, Zenon DEF Acquire
  <1>4. ASSUME NEW d \in Dials, TeardownForBudget(d) PROVE IInv'
    BY <1>4, VictimLockedKeeps, MarkVictimKeeps, SpareVictimKeeps, TearVictimKeeps,
       ReleaseVictimKeeps, SettleKeeps, Zenon DEF TeardownForBudget
  <1>5. ASSUME NEW d \in Dials, Build(d) PROVE IInv'
    BY <1>5, RebuildKeeps, RebuiltKeeps, rebuildFailedKeeps, RollbackKeeps, Zenon DEF Build
  <1>6. ASSUME NEW d \in Dials, GiveUp(d) \/ \E c \in Endpoints : DialEnters(d, c) PROVE IInv'
    BY <1>6, GiveUpKeeps, DialEntersKeeps, Zenon
  <1>7. ASSUME Ticks PROVE IInv'
    BY <1>7, SuspendIfIdleKeeps, TeardownIfSleptKeeps, TickReleasesKeeps, Zenon DEF Ticks
  <1> QED
    BY <1>1, <1>2, <1>3, <1>4, <1>5, <1>6, <1>7, Zenon DEF Next, Step

(* The inductive invariant. *)
THEOREM Invariance == Spec => []IInv
  <1> QED
    BY InitOK, NextOK, PTL DEF Spec

(* The types hold in every state. *)
THEOREM TypesHold == Spec => []TypeOK
  <1>1. IInv => TypeOK
    BY Zenon DEF IInv
  <1> QED
    BY <1>1, Invariance, PTL

(* Flags, slot and device of an endpoint at rest agree, whatever interleaves   *)
(* with the wake, the teardown, the rebuild and its rollback, and Close.       *)
THEOREM EndpointsRestInAgreement == Spec => []AtRestAllAgree
  <1>1. ASSUME IInv, NEW e \in started, Free(e) PROVE e \in device \ suspended
    <2>1. e \in Endpoints
      BY <1>1, Zenon DEF IInv, TypeOK
    <2> QED
      BY <1>1, <2>1, Zenon DEF IInv, EndpointOK, Settled, Free
  <1>2. IInv => AtRestAllAgree
    BY <1>1, Zenon DEF IInv, TypeOK, EndpointOK, Settled, AtRestAllAgree, Free
  <1> QED
    BY <1>2, Invariance, PTL

-----------------------------------------------------------------------------
(* The waits for locks. *)

(* An endpoint that is built waits for nobody: its own requests are over. *)
LEMMA BuiltWaitsForNobody ==
    ASSUME IInv, NEW e \in built, NEW v
    PROVE  ~WaitsFor(e, v)
  BY Zenon DEF IInv, OwnOK, WaitsFor, Rebuilding, Requesting

WaitsKept ==
    \A x \in Dials : dial'[x].pc = "victim" =>
        dial[x].pc = "victim" /\ dial'[x].ep = dial[x].ep /\ dial'[x].victim = dial[x].victim

(* Only the choice of a candidate adds a wait. *)
LEMMA OnlyTryCandidateWaits ==
    ASSUME TypeOK, Next, ~\E d \in Dials, v \in Endpoints : TryCandidate(d, v)
    PROVE  WaitsKept
  <1>1. ASSUME NEW d \in Dials, NEW p \in Pcs, p # "victim", Go(d, p) PROVE WaitsKept
    BY <1>1, GoMoves, Zenon DEF Moved, Others, WaitsKept
  <1>2. ASSUME NEW d \in Dials, NEW e \in Endpoints \cup {Nobody}, NEW p \in Pcs, p # "victim", At(d, e, p)
        PROVE WaitsKept
    BY <1>2, AtResets, Zenon DEF Reset, Others, WaitsKept
  <1>3. ASSUME NEW d \in Dials, Done(d) PROVE WaitsKept
    BY <1>3, DoneResets, Zenon DEF Reset, Others, WaitsKept
  <1>4. CASE UNCHANGED dial
    BY <1>4, Zenon DEF WaitsKept
  <1> USE DEF Pcs, InFlight, Rebuilding, Requesting
  <1>5. ASSUME NEW c \in Endpoints, Endpoint(c) \/ Close(c) \/ TickTakes(c) PROVE UNCHANGED dial
    BY <1>5, Zenon DEF Endpoint, Close, Start, Disable, Enable, FlowEnds, CloseBegins, CloseLocks,
           CloseEnds, TickTakes
  <1>6. ASSUME NEW d \in Dials, Wake(d) PROVE WaitsKept
    BY <1>6, <1>1, <1>3, Zenon DEF Wake, ReadAsleep, ReadStarted, DialLocks, DialWakes,
           DialRebuilds, DialEnds
  <1>7. ASSUME NEW d \in Dials, Acquire(d) PROVE WaitsKept
    <2>0. dial[d].ep \in Endpoints \cup {Nobody}
      BY DialTyped, Zenon DEF DialType, DialRecord
    <2>1. CASE AcquireTop(d)
      BY <2>1, <1>1, <1>3, Zenon DEF AcquireTop, Refuse
    <2>2. CASE TakeSlot(d) \/ BuildOver(d)
      BY <2>2, <2>0, <1>1, <1>2, Zenon DEF TakeSlot, BuildOver
    <2>3. CASE NoSlot(d)
      BY <2>3, DialTyped DEF NoSlot, WaitsKept, DialType
    <2>4. CASE WaitForSlot(d) \/ LookAgain(d)
      BY <2>4, DialTyped DEF WaitForSlot, LookAgain, WaitsKept, DialType, DialRecord
    <2> QED
      BY <1>7, <2>1, <2>2, <2>3, <2>4, Zenon DEF Acquire
  <1>8. ASSUME NEW d \in Dials, TeardownForBudget(d) PROVE WaitsKept
    <2>1. CASE VictimLocked(d)
      BY <2>1, <1>1, DialTyped DEF VictimLocked, WaitsKept, DialType, DialRecord
    <2>2. CASE MarkVictim(d) \/ TearVictim(d)
      BY <2>2, <1>1, Zenon DEF MarkVictim, TearVictim
    <2>3. CASE SpareVictim(d) \/ ReleaseVictim(d)
      BY <2>3, DialTyped DEF SpareVictim, ReleaseVictim, WaitsKept, DialType, DialRecord
    <2>4. CASE Settle(d)
      BY <2>4, DialTyped DEF Settle, WaitsKept, DialType
    <2> QED
      BY <1>8, <2>1, <2>2, <2>3, <2>4, Zenon DEF TeardownForBudget
  <1>9. ASSUME NEW d \in Dials, Build(d) PROVE WaitsKept
    BY <1>9, <1>1, <1>3, Zenon DEF Build, Rebuild, Rebuilt, rebuildFailed, Rollback, Refuse
  <1>10. ASSUME NEW d \in Dials, GiveUp(d) \/ \E c \in Endpoints : DialEnters(d, c) PROVE WaitsKept
    BY <1>10, <1>2, <1>3, Zenon DEF GiveUp, DialEnters, Refuse
  <1>11. ASSUME Ticks PROVE UNCHANGED dial
    BY <1>11, Zenon DEF Ticks, SuspendIfIdle, TeardownIfSlept, TickReleases
  <1> QED
    BY <1>4, <1>5, <1>6, <1>7, <1>8, <1>9, <1>10, <1>11, Zenon DEF Next, Step

(* A wait that is added leads to a built endpoint, which waits for nobody: it  *)
(* closes no cycle.                                                            *)
LEMMA NoCycleCloses == IInv /\ NoWaitCycle /\ [Next]_vars => NoWaitCycle'
  <1> SUFFICES ASSUME IInv, NoWaitCycle, [Next]_vars, NEW S \in SUBSET Endpoints, S # {}
               PROVE  \E e \in S : \A v \in S : ~WaitsFor(e, v)'
    BY Zenon DEF NoWaitCycle
  <1> TypeOK
    BY Zenon DEF IInv
  <1>1. CASE WaitsKept \/ UNCHANGED vars
    <2>1. PICK e \in S : \A v \in S : ~WaitsFor(e, v)
      BY Zenon DEF NoWaitCycle
    <2>2. \A v \in S : WaitsFor(e, v)' => WaitsFor(e, v)
      BY <1>1, Zenon DEF WaitsKept, WaitsFor, vars
    <2> QED
      BY <2>1, <2>2, Zenon
  <1>2. ASSUME NEW d \in Dials, NEW c \in Endpoints, TryCandidate(d, c) PROVE  \E e \in S : \A v \in S : ~WaitsFor(e, v)'
    <2>1. CASE dial'[d].pc = "victim" /\ c \in S
      <3>1. c \in built /\ dial[d].pc = "pick" /\ dial'[d].ep = dial[d].ep /\ \A x \in Dials : x # d => dial'[x] = dial[x]
        BY <1>2, <2>1, DialTyped DEF TryCandidate, IsCandidate, DialType, DialRecord
      <3>2. dial[d].ep # c
        BY <3>1, Zenon DEF IInv, OwnOK, Rebuilding, Requesting
      <3>3. ASSUME NEW v PROVE ~WaitsFor(c, v)'
        BY <3>1, <3>2, BuiltWaitsForNobody, Zenon DEF WaitsFor
      <3> QED
        BY <2>1, <3>3, Zenon
    <2>2. CASE ~(dial'[d].pc = "victim" /\ c \in S)
      <3>1. PICK e \in S : \A v \in S : ~WaitsFor(e, v)
        BY Zenon DEF NoWaitCycle
      <3>2. /\ dial'[d].pc = "victim" => dial'[d].victim = c
            /\ \A x \in Dials : x # d => dial'[x] = dial[x]
        BY <1>2, DialTyped DEF TryCandidate, DialType, DialRecord
      <3>3. ASSUME NEW v \in S PROVE WaitsFor(e, v)' => WaitsFor(e, v)
        BY <2>2, <3>2, Zenon DEF WaitsFor
      <3> QED
        BY <3>1, <3>3, Zenon
    <2> QED
      BY <2>1, <2>2, Zenon
  <1> QED
    BY <1>1, <1>2, OnlyTryCandidateWaits, Zenon

(* The waits for the locks of endpoints never form a cycle, with any number of *)
(* endpoints and requesters.                                                   *)
THEOREM LocksNeverDeadlock == Spec => []NoWaitCycle
  <1>1. Init => NoWaitCycle
    BY DEF Init, NoWaitCycle, WaitsFor, Fresh
  <1> QED
    BY <1>1, NoCycleCloses, Invariance, PTL DEF Spec

-----------------------------------------------------------------------------
(* What no step does. *)

(* A dial goes from "recheck" to "release" only by tearing its victim down. *)
LEMMA OnlyTearVictimReleases ==
    ASSUME TypeOK, Next, NEW d \in Dials, dial[d].pc = "recheck", dial'[d].pc = "release"
    PROVE  TearVictim(d)
  <1>1. ASSUME NEW y \in Dials, y # d, Step(y) \/ GiveUp(y) \/ \E c \in Endpoints : DialEnters(y, c)
        PROVE  dial'[d] = dial[d]
    <2>1. CASE Wake(y)
      BY <2>1, DialTyped, Zenon DEF Wake, ReadAsleep, ReadStarted, DialLocks, DialWakes,
             DialRebuilds, DialEnds, Go, Done, At, DialType
    <2>2. CASE Acquire(y)
      BY <1>1, <2>2, DialTyped, Zenon DEF Acquire, AcquireTop, TakeSlot, NoSlot, TryCandidate, BuildOver, WaitForSlot,
           LookAgain, Refuse, Go, Done, At, DialType
    <2>3. CASE TeardownForBudget(y)
      BY <1>1, <2>3, DialTyped, Zenon DEF TeardownForBudget, VictimLocked, MarkVictim,
             SpareVictim, TearVictim, ReleaseVictim, Settle, Go, DialType
    <2>4. CASE Build(y)
      BY <2>4, DialTyped, Zenon DEF Build, Rebuild, Rebuilt, rebuildFailed, Rollback, Refuse, Go,
             Done, At, DialType
    <2>5. CASE GiveUp(y) \/ \E c \in Endpoints : DialEnters(y, c)
      BY <2>5, DialTyped, Zenon DEF GiveUp, DialEnters, Refuse, Done, At, DialType
    <2> QED
      BY <1>1, <2>1, <2>2, <2>3, <2>4, <2>5, Zenon DEF Step
  <1>2. ~\E c \in Endpoints : Endpoint(c) \/ Close(c) \/ TickTakes(c)
    BY Zenon DEF Endpoint, Close, Start, Disable, Enable, FlowEnds, CloseBegins, CloseLocks,
           CloseEnds, TickTakes
  <1>3. ~Ticks
    BY Zenon DEF Ticks, SuspendIfIdle, TeardownIfSlept, TickReleases
  <1>4. Step(d) \/ GiveUp(d) \/ \E c \in Endpoints : DialEnters(d, c)
    BY <1>1, <1>2, <1>3, Zenon DEF Next
  <1>5. ~Wake(d) /\ ~GiveUp(d) /\ ~\E c \in Endpoints : DialEnters(d, c)
    BY Zenon DEF Wake, ReadAsleep, ReadStarted, DialLocks, DialWakes, DialRebuilds, DialEnds,
           GiveUp, DialEnters
  <1>6. ~Acquire(d)
    BY Zenon DEF Acquire, AcquireTop, TakeSlot, NoSlot, TryCandidate, BuildOver, WaitForSlot,
           LookAgain
  <1>7. ~Build(d)
    BY Zenon DEF Build, Rebuild, Rebuilt, rebuildFailed, Rollback
  <1>8. ~SpareVictim(d)
    BY DialTyped, Zenon DEF SpareVictim, DialType, DialRecord
  <1> QED
    BY <1>4, <1>5, <1>6, <1>7, <1>8, Zenon DEF Step, TeardownForBudget, VictimLocked, MarkVictim,
           ReleaseVictim, Settle

(* An eviction takes no device from a dial that has passed the wake. *)
THEOREM EvictionsSpareDials == Spec => DialsKeepTheirDevice
  <1>1. ASSUME IInv, [Next]_vars, NEW d \in Dials, dial[d].pc = "recheck", dial'[d].pc = "release"
        PROVE  ~\E x \in Dials : dial[x].ep = dial[d].victim /\ dial[x].pc \in {"ready", "use"}
    <2>1. TearVictim(d)
      BY <1>1, OnlyTearVictimReleases, Zenon DEF IInv, vars
    <2>2. CASE dial[d].victim \in started
      BY <2>1, <2>2, Zenon DEF TearVictim, dialsInFlight, InFlight
    <2>3. CASE dial[d].victim \notin started
      BY <1>1, <2>3, Zenon DEF IInv, VictimOK
    <2> QED
      BY <2>2, <2>3, Zenon
  <1>2. IInv /\ [Next]_vars =>
          [\A d \in Dials : dial[d].pc = "recheck" /\ dial'[d].pc = "release" =>
             ~\E x \in Dials : dial[x].ep = dial[d].victim /\ dial[x].pc \in {"ready", "use"}]_vars
    BY <1>1, Zenon
  <1> QED
    BY <1>2, Invariance, PTL DEF Spec, DialsKeepTheirDevice

(* What a step leaves of the device of endpoint e: Close has the last word,    *)
(* and a disabled endpoint gets no device and no release from its suspension.  *)
LeftAlone(e) ==
    /\ e \in gone => e \in gone' /\ (e \in suspended' <=> e \in suspended)
    /\ e \in device' /\ e \notin device => e \notin gone /\ e \notin disabled
    /\ e \in suspended /\ e \notin suspended' => e \notin disabled \/ e \notin disabled'

(* Every step leaves the device of a disabled or closed endpoint alone. *)
LEMMA StepsLeaveAlone ==
    ASSUME IInv, [Next]_vars, NEW e \in Endpoints
    PROVE  LeftAlone(e)
  <1> USE DEF flags, devices, budget
  <1>0. EndpointOK(e) /\ TickOK /\ \A d \in Dials : OwnOK(d) /\ VictimOK(d)
    BY Zenon DEF IInv
  <1>1. CASE UNCHANGED vars
    BY <1>1, Zenon DEF vars, LeftAlone
  <1>2. ASSUME NEW c \in Endpoints, Endpoint(c) PROVE LeftAlone(e)
    <2>1. CASE Start(c) \/ FlowEnds(c) \/ CloseBegins(c)
      BY <2>1, Zenon DEF Start, startLazy, FlowEnds, CloseBegins, LeftAlone
    <2>2. CASE Disable(c)
      BY <2>2, <1>0, Zenon DEF Disable, Suspend, EndpointOK, LeftAlone
    <2>3. CASE Enable(c)
      BY <2>3, <1>0, Zenon DEF Enable, Resume, EndpointOK, LeftAlone
    <2> QED
      BY <1>2, <2>1, <2>2, <2>3, Zenon DEF Endpoint
  <1>3. ASSUME NEW c \in Endpoints, Close(c) \/ TickTakes(c) PROVE LeftAlone(e)
    BY <1>3, Zenon DEF Close, CloseLocks, CloseEnds, TickTakes, LeftAlone
  <1>4. CASE Ticks
    BY <1>4, <1>0, Zenon DEF Ticks, SuspendIfIdle, TeardownIfSlept, TickReleases, Suspend, Teardown,
           EndpointOK, LeftAlone
  <1>5. ASSUME NEW d \in Dials, Wake(d) PROVE LeftAlone(e)
    BY <1>5, <1>0, Zenon DEF Wake, ReadAsleep, ReadStarted, DialLocks, DialWakes, DialRebuilds,
           DialEnds, Resume, MayWake, EndpointOK, LeftAlone
  <1>6. ASSUME NEW d \in Dials, Acquire(d) \/ GiveUp(d) \/ \E c \in Endpoints : DialEnters(d, c)
        PROVE  gone' = gone /\ device' = device /\ suspended' = suspended
    BY <1>6, Zenon DEF Acquire, AcquireTop, TakeSlot, NoSlot, TryCandidate, BuildOver, WaitForSlot,
         LookAgain, GiveUp, DialEnters
  <1>7. ASSUME NEW d \in Dials, TeardownForBudget(d) PROVE LeftAlone(e)
    <2>1. CASE TearVictim(d)
      BY <2>1, <1>0, Zenon DEF TearVictim, Teardown, VictimOK, Evicting, LeftAlone
    <2>2. CASE ~TearVictim(d)
      BY <1>7, <2>2, Zenon DEF TeardownForBudget, VictimLocked, MarkVictim, SpareVictim,
             ReleaseVictim, Settle, LeftAlone
    <2> QED
      BY <2>1, <2>2
  <1>8. ASSUME NEW d \in Dials, Build(d) PROVE LeftAlone(e)
    <2>1. CASE Rebuild(d)
      BY <2>1, <1>0, Zenon DEF Rebuild, RebuildDevice, OwnOK, Rebuilding, LeftAlone
    <2>2. CASE rebuildFailed(d)
      BY <2>2, <1>0, Zenon DEF rebuildFailed, Teardown, OwnOK, Rebuilding, LeftAlone
    <2>3. CASE Rebuilt(d) \/ Rollback(d)
      BY <2>3, Zenon DEF Rebuilt, Rollback, LeftAlone
    <2> QED
      BY <1>8, <2>1, <2>2, <2>3, Zenon DEF Build
  <1> QED
    BY <1>1, <1>2, <1>3, <1>4, <1>5, <1>6, <1>7, <1>8, Zenon DEF Next, Step, LeftAlone

(* Nothing that was under way gives a disabled endpoint a device, or lets go   *)
(* of the one that is suspended.                                               *)
THEOREM DisabledEndpointsStayOff == Spec => DisabledStaysOff
  <1>1. IInv /\ [Next]_vars =>
          [\A e \in disabled \cap disabled' :
             (e \in device' => e \in device) /\ (e \in suspended => e \in suspended')]_vars
    <2> SUFFICES ASSUME IInv, [Next]_vars, NEW e \in disabled \cap disabled'
                 PROVE  (e \in device' => e \in device) /\ (e \in suspended => e \in suspended')
      BY Zenon
    <2> e \in Endpoints
      BY Zenon DEF IInv, TypeOK
    <2> QED
      BY StepsLeaveAlone, Zenon DEF LeftAlone
  <1> QED
    BY <1>1, Invariance, PTL DEF Spec, DisabledStaysOff

(* Nobody touches an endpoint after the critical section of its Close. *)
THEOREM CloseIsTheLastWord == Spec => ClosedIsFinal
  <1>1. IInv /\ IInv' /\ [Next]_vars =>
          [\A e \in gone :
             /\ e \in gone' /\ e \notin started' \cup idleAsleep' \cup torndown' \cup built' \cup slots'
             /\ resumeMu'[e] = Nobody
             /\ (e \in device' => e \in device) /\ (e \in suspended' <=> e \in suspended)]_vars
    <2> SUFFICES ASSUME IInv, IInv', [Next]_vars, NEW e \in gone
                 PROVE
             /\ e \in gone' /\ e \notin started' \cup idleAsleep' \cup torndown' \cup built' \cup slots'
             /\ resumeMu'[e] = Nobody
             /\ (e \in device' => e \in device) /\ (e \in suspended' <=> e \in suspended)
      BY Zenon
    <2> e \in Endpoints
      BY Zenon DEF IInv, TypeOK
    <2>1. e \in gone' /\ (e \in device' => e \in device) /\ (e \in suspended' <=> e \in suspended)
      BY StepsLeaveAlone, Zenon DEF LeftAlone
    <2>2. EndpointOK(e)'
      BY Zenon DEF IInv
    <2> QED
      BY <2>1, <2>2, Zenon DEF EndpointOK
  <1> QED
    BY <1>1, Invariance, PTL DEF Spec, ClosedIsFinal

-----------------------------------------------------------------------------
(* The cap. *)

(* The slots that count against build_max: of a device that stands or is being *)
(* built, and neither built over the cap nor there from the start.             *)
Held == ((built \cap device) \cup slots) \ (overBudget \cup born)

CapOK == wg.max > 0 => Cardinality(Held) <= wg.max

(* Only a dial that finds room adds to them. *)
LEMMA HeldGrows ==
    ASSUME IInv, [Next]_vars
    PROVE  \/ Held' \subseteq Held
           \/ HasRoom /\ \E d \in Dials : Held' \subseteq Held \cup {dial[d].ep}
  <1> USE DEF flags, devices, budget
  <1>0. /\ \A e \in Endpoints : EndpointOK(e)
        /\ \A d \in Dials : OwnOK(d) /\ VictimOK(d)
        /\ TickOK
    BY Zenon DEF IInv
  <1>1. CASE UNCHANGED vars
    BY <1>1, Zenon DEF vars, Held
  <1>2. ASSUME NEW c \in Endpoints, Endpoint(c) \/ TickTakes(c) PROVE Held' \subseteq Held
    BY <1>2, <1>0, Zenon DEF Endpoint, Start, startLazy, Disable, Enable, FlowEnds, CloseBegins,
           TickTakes, Suspend, Resume, Register, EndpointOK, Held
  <1>3. ASSUME NEW c \in Endpoints, Close(c) PROVE Held' \subseteq Held
    BY <1>3, <1>0, Zenon DEF Close, CloseLocks, CloseEnds, Release, EndpointOK, Held
  <1>4. CASE SuspendIfIdle \/ TickReleases
    BY <1>4, Zenon DEF SuspendIfIdle, TickReleases, Suspend, Release, Held
  <1>5. CASE TeardownIfSlept
    BY <1>5, <1>0 DEF TeardownIfSlept, Teardown, TickOK, EndpointOK, Settled, Free, Held
  <1>6. ASSUME NEW d \in Dials, Wake(d) \/ GiveUp(d) \/ \E c \in Endpoints : DialEnters(d, c)
        PROVE  Held' \subseteq Held
    BY <1>6, Zenon DEF Wake, ReadAsleep, ReadStarted, DialLocks, DialWakes, DialRebuilds,
           DialEnds, GiveUp, DialEnters, Resume, Held
  <1>7. ASSUME NEW d \in Dials, Acquire(d)
        PROVE  Held' \subseteq Held \/ (HasRoom /\ Held' \subseteq Held \cup {dial[d].ep})
    BY <1>7, Zenon DEF Acquire, AcquireTop, TakeSlot, NoSlot, TryCandidate, BuildOver, WaitForSlot,
         LookAgain, Held
  <1>8. ASSUME NEW d \in Dials, TeardownForBudget(d) PROVE Held' \subseteq Held
    <2>1. CASE VictimLocked(d) \/ MarkVictim(d) \/ SpareVictim(d) \/ Settle(d)
      BY <2>1, Zenon DEF VictimLocked, MarkVictim, SpareVictim, Settle, Held
    <2>2. CASE TearVictim(d)
      BY <2>2, <1>0 DEF TearVictim, Teardown, VictimOK, Evicting, Held
    <2>3. CASE ReleaseVictim(d)
      BY <2>3, Zenon DEF ReleaseVictim, Release, Evicting, Held
    <2> QED
      BY <1>8, <2>1, <2>2, <2>3, Zenon DEF TeardownForBudget
  <1>9. ASSUME NEW d \in Dials, Build(d) PROVE Held' \subseteq Held
    <2>1. OwnOK(d)
      BY <1>0, Zenon
    <2>2. CASE Rebuild(d) \/ rebuildFailed(d)
      BY <2>1, <2>2, Zenon DEF Rebuild, RebuildDevice, rebuildFailed, Teardown, OwnOK, Rebuilding, Held
    <2>3. CASE Rebuilt(d)
      BY <2>1, <2>3, Zenon DEF Rebuilt, Register, OwnOK, Building, Held
    <2>4. CASE Rollback(d)
      BY <2>4, Zenon DEF Rollback, Release, Building, Held
    <2> QED
      BY <1>9, <2>2, <2>3, <2>4, Zenon DEF Build
  <1> QED
    BY <1>1, <1>2, <1>3, <1>4, <1>5, <1>6, <1>7, <1>8, <1>9 DEF Next, Step, Ticks

(* Within the room there is, one more slot stays within the cap. *)
LEMMA CapKept == IInv /\ CapOK /\ [Next]_vars => CapOK'
  <1> SUFFICES ASSUME IInv, CapOK, [Next]_vars, wg'.max > 0 PROVE Cardinality(Held') <= wg'.max
    BY Zenon DEF CapOK
  <1> wg' = wg
    BY Zenon DEF Next, vars
  <1>1. /\ wg.max \in Nat
        /\ IsFiniteSet(built) /\ IsFiniteSet(slots) /\ IsFiniteSet(Held) /\ IsFiniteSet(Held')
    <2>1. wg.max \in Nat /\ built \subseteq Endpoints /\ slots \subseteq Endpoints
      BY BudgetAssumption, Zenon DEF IInv, TypeOK
    <2>2. built' \subseteq Endpoints /\ slots' \subseteq Endpoints
      BY NextOK, Zenon DEF IInv, TypeOK
    <2>3. Held \subseteq Endpoints /\ Held' \subseteq Endpoints
      BY <2>1, <2>2, Zenon DEF Held
    <2> QED
      BY <2>1, <2>3, FS_Subset, BudgetAssumption, Zenon
  <1>2. CASE Held' \subseteq Held
    <2>1. Cardinality(Held') <= Cardinality(Held)
      BY <1>1, <1>2, FS_Subset, Zenon
    <2> QED
      BY <1>1, <2>1, FS_CardinalityType DEF CapOK
  <1>3. ASSUME HasRoom, NEW d \in Dials, Held' \subseteq Held \cup {dial[d].ep}
        PROVE  Cardinality(Held') <= wg'.max
    <2>1. Cardinality(built) + Cardinality(slots) < wg.max
      BY <1>3 DEF HasRoom, count
    <2>2. IsFiniteSet(built \cup slots) /\ Cardinality(built \cup slots) <= Cardinality(built) + Cardinality(slots)
      <3>1. /\ IsFiniteSet(built \cup slots)
            /\ Cardinality(built \cup slots) =
                 Cardinality(built) + Cardinality(slots) - Cardinality(built \cap slots)
        BY <1>1, FS_Union, Zenon
      <3>2. Cardinality(built \cap slots) \in Nat
        BY <1>1, FS_Intersection, FS_CardinalityType, Zenon
      <3> QED
        BY <1>1, <3>1, <3>2, FS_CardinalityType
    <2>3. Cardinality(Held) <= Cardinality(built \cup slots)
      BY <2>2, FS_Subset, Zenon DEF Held
    <2>4. /\ IsFiniteSet(Held \cup {dial[d].ep})
          /\ Cardinality(Held \cup {dial[d].ep}) <= Cardinality(Held) + 1
      <3>1. /\ IsFiniteSet(Held \cup {dial[d].ep})
            /\ Cardinality(Held \cup {dial[d].ep}) =
                 IF dial[d].ep \in Held THEN Cardinality(Held) ELSE Cardinality(Held) + 1
        BY <1>1, FS_AddElement, Zenon
      <3>2. Cardinality(Held) \in Nat
        BY <1>1, FS_CardinalityType, Zenon
      <3> QED
        BY <3>1, <3>2
    <2>5. Cardinality(Held') <= Cardinality(Held \cup {dial[d].ep})
      BY <1>3, <2>4, FS_Subset, Zenon
    <2>6. /\ Cardinality(Held) \in Nat /\ Cardinality(Held') \in Nat /\ Cardinality(built) \in Nat
          /\ Cardinality(slots) \in Nat /\ Cardinality(built \cup slots) \in Nat
          /\ Cardinality(Held \cup {dial[d].ep}) \in Nat
      BY <1>1, <2>2, <2>4, FS_CardinalityType, Zenon
    <2> QED
      BY <1>1, <2>1, <2>2, <2>3, <2>4, <2>5, <2>6
  <1> QED
    BY <1>2, <1>3, HeldGrows, Zenon

(* The devices that stand within build_max are never more than build_max,      *)
(* however evictions, rebuilds, the tick and Close interleave.                 *)
THEOREM BudgetHolds == Spec => []AtMostMax
  <1>1. Init => CapOK
    <2> SUFFICES ASSUME Init, wg.max > 0 PROVE Cardinality(Held) <= wg.max
      BY Zenon DEF CapOK
    <2>1. Held = {}
      BY Zenon DEF Init, Held
    <2>2. wg.max \in Nat
      BY BudgetAssumption, Zenon DEF Init
    <2> QED
      BY <2>1, <2>2, FS_EmptySet
  <1>2. IInv /\ CapOK => AtMostMax
    <2> SUFFICES ASSUME IInv, CapOK, wg.max > 0
                 PROVE  Cardinality(device \ (overBudget \cup born \cup gone)) <= wg.max
      BY Zenon DEF AtMostMax
    <2>1. device \ (overBudget \cup born \cup gone) \subseteq Held
      BY Zenon DEF IInv, TypeOK, EndpointOK, Held
    <2>2. IsFiniteSet(Held) /\ wg.max \in Nat
      <3>1. Held \subseteq Endpoints /\ wg.max \in Nat
        BY BudgetAssumption, Zenon DEF IInv, TypeOK, Held
      <3> QED
        BY <3>1, FS_Subset, BudgetAssumption, Zenon
    <2>3. Cardinality(device \ (overBudget \cup born \cup gone)) <= Cardinality(Held)
      BY <2>1, <2>2, FS_Subset, Zenon
    <2>4. Cardinality(Held) \in Nat /\ Cardinality(device \ (overBudget \cup born \cup gone)) \in Nat
      BY <2>1, <2>2, FS_Subset, FS_CardinalityType, Zenon
    <2> QED
      BY <2>2, <2>3, <2>4 DEF CapOK
  <1> QED
    BY <1>1, <1>2, CapKept, Invariance, PTL DEF Spec
=============================================================================
