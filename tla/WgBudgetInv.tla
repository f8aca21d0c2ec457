---------------------------- MODULE WgBudgetInv -----------------------------
(***************************************************************************)
(* The inductive invariant of WgBudget, for any endpoints, dials and       *)
(* configurations, and the steps that keep it: the idle tick, the manual   *)
(* switch, Close and dials, with their search for a slot and evictions.    *)
(*                                                                         *)
(* The argument rests on who holds the lock of an endpoint: a dial that    *)
(* rebuilds holds its own, a dial that evicts also the one of its victim,  *)
(* the tick the one it tears down.  OwnOK, VictimOK and TickOK say what    *)
(* such a holder relies on, EndpointOK what holds of an endpoint whose     *)
(* lock is free.  LocalStep reduces a step to the one dial, the one        *)
(* endpoint or the tick it is about.                                       *)
(***************************************************************************)
EXTENDS WgBudget, TLAPS

USE SMTT(30), ZenonT(20)

AtVictim == {"victim", "mark", "recheck", "release", "settle"}
Evicting == {"mark", "recheck", "release"}
Building == {"rebuild", "register", "rollback"}

(* What a dial that rebuilds its endpoint relies on. *)
OwnOK(d) ==
    LET e == dial[d].ep
    IN  /\ dial[d].pc \in InFlight => e \in Endpoints
        /\ dial[d].pc \in Rebuilding =>
              /\ resumeMu[e] = d
              /\ e \in torndown /\ e \in idleAsleep
              /\ e \notin started /\ e \notin disabled /\ e \notin built /\ e \notin born
              /\ e \notin gone /\ e \notin unstarted
        /\ dial[d].pc \in Requesting => e \notin slots /\ e \notin device
        /\ dial[d].pc \in Building => e \in slots
        /\ dial[d].pc \in {"rebuild", "rollback"} => e \notin device
        /\ dial[d].pc = "register" => e \in device /\ e \notin suspended

(* What a dial that evicts a victim relies on. *)
VictimOK(d) ==
    LET v == dial[d].victim
    IN  /\ dial[d].ep \notin dial[d].cand
        /\ dial[d].pc \in AtVictim => v \in Endpoints /\ v # dial[d].ep
        /\ dial[d].pc \in Evicting =>
              /\ resumeMu[v] = d
              /\ v \in built /\ v \notin slots /\ v \notin gone /\ v \notin unstarted
        /\ dial[d].pc \in {"mark", "recheck"} =>
              /\ v \notin torndown /\ v \in device /\ (v \in started => v \notin suspended)
              /\ v \in started \/ v \in idleAsleep
              /\ v \notin started => \A x \in Dials : dial[x].ep = v => dial[x].pc \notin {"ready", "use"}
        /\ dial[d].pc = "recheck" => v \in idleAsleep
        /\ dial[d].pc = "release" =>
              v \in torndown /\ v \in idleAsleep /\ v \notin started /\ v \notin device

(* What the tick relies on between the teardown and the release of the slot. *)
TickOK ==
    LET e == tick.ep
    IN  /\ tick.pc # "idle" => e \in Endpoints
        /\ tick.pc = "release" =>
              /\ resumeMu[e] = Tick
              /\ e \in built /\ e \in torndown /\ e \in idleAsleep
              /\ e \notin started /\ e \notin device /\ e \notin slots
              /\ e \notin gone /\ e \notin unstarted

Settled(e) ==
    /\ e \notin slots
    /\ e \in built <=> e \in device
    /\ e \in torndown <=> e \notin device
    /\ e \in started <=> e \notin idleAsleep
    /\ e \in started => e \notin suspended
    /\ e \in torndown => e \in idleAsleep

EndpointOK(e) ==
    /\ e \in gone => /\ resumeMu[e] = Nobody /\ e \in closing
                     /\ e \notin started /\ e \notin idleAsleep /\ e \notin torndown
                     /\ e \notin built /\ e \notin slots
    /\ e \in unstarted => /\ resumeMu[e] = Nobody
                          /\ e \notin started /\ e \notin idleAsleep /\ e \notin torndown
                          /\ e \notin built /\ e \notin slots
    /\ e \in unstarted /\ e \notin gone =>
          /\ (e \in device <=> e \notin Lazy) /\ (e \in born <=> e \notin Lazy)
          /\ (e \in suspended <=> e \in Lazy)
    /\ resumeMu[e] = Nobody /\ e \notin gone /\ e \notin unstarted => Settled(e)
    /\ e \in born => e \in device
    /\ e \in overBudget => e \in built \/ e \in slots
    /\ e \in device /\ e \notin gone /\ e \notin unstarted => e \in built \/ e \in slots

IInv ==
    /\ TypeOK
    /\ \A d \in Dials : OwnOK(d) /\ VictimOK(d)
    /\ TickOK
    /\ \A e \in Endpoints : EndpointOK(e)

-----------------------------------------------------------------------------
(* How a step changes the record of a dial. *)

Pcs == InFlight \cup {"idle", "done"}
DialRecord == [pc : Pcs, ep : Endpoints \cup {Nobody},
               cand : SUBSET Endpoints, over : SUBSET Endpoints,
               victim : Endpoints \cup {Nobody},
               verdict : {"none", "done", "refused"},
               traffic : BOOLEAN, resampled : BOOLEAN, looks : 0..MaxLooks]
DialType == [Dials -> DialRecord]

Others(d) == dial' \in DialType /\ \A x \in Dials : x # d => dial'[x] = dial[x]

Moved(d, p) ==
    /\ Others(d)
    /\ dial'[d].pc = p /\ dial'[d].ep = dial[d].ep
    /\ dial'[d].cand = dial[d].cand /\ dial'[d].victim = dial[d].victim

Reset(d, e, p) ==
    /\ Others(d)
    /\ dial'[d].pc = p /\ dial'[d].ep = e /\ dial'[d].cand = {} /\ dial'[d].victim = Nobody

(* The type of dial as TypeOK states it. *)
LEMMA DialTyped == TypeOK => dial \in DialType
  BY Zenon DEF TypeOK, DialType, DialRecord, Pcs

(* A step that gives one dial another record leaves the others alone. *)
LEMMA RecordChanges ==
    ASSUME TypeOK, NEW d \in Dials, NEW r \in DialRecord, dial' = [dial EXCEPT ![d] = r]
    PROVE  Others(d) /\ dial'[d] = r
  BY DialTyped, Zenon DEF Others, DialType

(* Go changes where a dial is, and nothing else. *)
LEMMA GoMoves ==
    ASSUME TypeOK, NEW d \in Dials, NEW p \in Pcs, Go(d, p)
    PROVE  Moved(d, p)
  BY DialTyped DEF Go, Moved, Others, DialType, DialRecord

(* At leaves nothing of the search for a slot. *)
LEMMA AtResets ==
    ASSUME TypeOK, NEW d \in Dials, NEW p \in Pcs, NEW e \in Endpoints \cup {Nobody}, At(d, e, p)
    PROVE  Reset(d, e, p)
  <1> 0 \in 0..MaxLooks
    BY BudgetAssumption
  <1> QED
    BY DialTyped, Zenon DEF At, Fresh, Reset, Others, DialType, DialRecord

(* A dial that is done has no endpoint. *)
LEMMA DoneResets ==
    ASSUME TypeOK, NEW d \in Dials, Done(d)
    PROVE  Reset(d, Nobody, "done")
  <1> "done" \in Pcs
    BY Zenon DEF Pcs
  <1> QED
    BY AtResets, Zenon DEF Done

-----------------------------------------------------------------------------
(* What the invariant speaks of besides the dials. *)
state == <<wg, unstarted, started, idleAsleep, torndown, disabled, closing, gone, resumeMu,
           device, suspended, born, built, slots, overBudget, tick>>

(* The rest keeps its type. *)
Minor == neverBuilt' \subseteq Endpoints /\ flow' \subseteq Endpoints /\ evicting' \subseteq Endpoints

TickRecord == [pc : {"idle", "suspend", "teardown", "release"}, ep : Endpoints \cup {Nobody}]

(* A step touches no endpoint but t. *)
Local(t) ==
    /\ wg' = wg
    /\ \A e : e # t =>
          /\ e \in unstarted' <=> e \in unstarted
          /\ e \in started' <=> e \in started
          /\ e \in idleAsleep' <=> e \in idleAsleep
          /\ e \in torndown' <=> e \in torndown
          /\ e \in disabled' <=> e \in disabled
          /\ e \in closing' <=> e \in closing
          /\ e \in gone' <=> e \in gone
          /\ e \in device' <=> e \in device
          /\ e \in suspended' <=> e \in suspended
          /\ e \in born' <=> e \in born
          /\ e \in built' <=> e \in built
          /\ e \in slots' <=> e \in slots
          /\ e \in overBudget' <=> e \in overBudget
    /\ resumeMu' \in [Endpoints -> Dials \cup {Tick, Nobody}]
    /\ \A e \in Endpoints : e # t => resumeMu'[e] = resumeMu[e]

(* A step that touches one endpoint keeps the types. *)
LEMMA TypeKept ==
    ASSUME TypeOK, NEW t \in Endpoints, Local(t), Minor, dial' \in DialType, tick' \in TickRecord
    PROVE  TypeOK'
  <1>1. wg' \in Configs /\ resumeMu' \in [Endpoints -> Dials \cup {Tick, Nobody}]
    BY Zenon DEF TypeOK, Local
  <1>2. \A S \in {unstarted', started', idleAsleep', torndown', disabled', closing', gone'} : S \subseteq Endpoints
    BY DEF TypeOK, Local
  <1>3. \A S \in {device', suspended', born', built', slots', overBudget'} : S \subseteq Endpoints
    BY DEF TypeOK, Local
  <1> QED
    BY <1>1, <1>2, <1>3 DEF TypeOK, Minor, DialType, DialRecord, Pcs, TickRecord

(* A lock that is taken or given back keeps the type of the locks. *)
LEMMA LockMoves ==
    ASSUME TypeOK, NEW t \in Endpoints, NEW w \in Dials \cup {Tick, Nobody}, Lock(t, w)
    PROVE  /\ resumeMu' \in [Endpoints -> Dials \cup {Tick, Nobody}]
           /\ resumeMu'[t] = w /\ \A e \in Endpoints : e # t => resumeMu'[e] = resumeMu[e]
  BY Zenon DEF TypeOK, Lock

(* A step that touches one endpoint, whose lock is free or held by who takes   *)
(* the step, keeps what everybody else relies on.                              *)
LEMMA LocalStep ==
    ASSUME IInv, NEW t \in Endpoints, Local(t), Minor, dial' \in DialType, tick' \in TickRecord,
           \A x \in Dials : \/ OwnOK(x)' /\ VictimOK(x)'
                            \/ dial'[x] = dial[x] /\ resumeMu[t] # x,
           \A x \in Dials : dial'[x].pc \in {"ready", "use"} => dial'[x].ep = t \/ dial'[x] = dial[x],
           TickOK' \/ (tick' = tick /\ resumeMu[t] # Tick),
           EndpointOK(t)'
    PROVE  IInv'
  <1>1. TypeOK'
    BY TypeKept, Zenon DEF IInv
  <1>2. ASSUME NEW x \in Dials, dial'[x] = dial[x], resumeMu[t] # x PROVE OwnOK(x)'
    <2>1. OwnOK(x)
      BY Zenon DEF IInv
    <2> QED
      BY <2>1, Zenon DEF OwnOK, Local, InFlight, Rebuilding, Building
  <1>3. ASSUME NEW x \in Dials, dial'[x] = dial[x], resumeMu[t] # x PROVE VictimOK(x)'
    <2>1. VictimOK(x)
      BY Zenon DEF IInv
    <2>2. dial[x].pc \in AtVictim => dial[x].victim \in Endpoints
      BY <2>1, Zenon DEF VictimOK
    <2>3. dial[x].pc \in Evicting => dial[x].victim # t
      BY <1>3, <2>1, Zenon DEF VictimOK
    <2>4. ASSUME dial[x].pc \in {"mark", "recheck"}, dial[x].victim \notin started, NEW y \in Dials,
                 dial'[y].ep = dial[x].victim
          PROVE  dial'[y].pc \notin {"ready", "use"}
      BY <2>1, <2>3, <2>4, Zenon DEF VictimOK, Evicting
    <2> QED
      BY <2>1 DEF VictimOK, Local, AtVictim, Evicting
  <1>4. ASSUME tick' = tick, resumeMu[t] # Tick PROVE TickOK'
    BY <1>4, Zenon DEF IInv, TickOK, Local
  <1>5. ASSUME NEW e \in Endpoints PROVE EndpointOK(e)'
    <2>1. EndpointOK(e)
      BY Zenon DEF IInv
    <2>2. CASE e # t
      BY <2>1 DEF EndpointOK, Settled, Local, Lazy
    <2> QED
      BY <2>2, Zenon
  <1> QED
    BY <1>1, <1>2, <1>3, <1>4, <1>5, Zenon DEF IInv

(* A step of a dial that changes its record alone: the others need that it     *)
(* does not enter their victim behind their back.                              *)
LEMMA RecordStep ==
    ASSUME IInv, Minor, NEW d \in Dials, Others(d), UNCHANGED state, OwnOK(d)', VictimOK(d)',
           dial'[d].pc \in {"ready", "use"} =>
              /\ dial'[d].ep = dial[d].ep
              /\ \/ dial[d].pc \in {"ready", "use"}
                 \/ dial[d].ep \notin idleAsleep \/ dial[d].ep \in started
    PROVE  IInv'
  <1>1. TypeOK'
    BY DEF IInv, TypeOK, Minor, Others, DialType, DialRecord, Pcs, state
  <1>2. ASSUME NEW x \in Dials, x # d PROVE OwnOK(x)'
    <2>1. OwnOK(x) /\ dial'[x] = dial[x]
      BY <1>2, Zenon DEF IInv, Others
    <2> QED
      BY <2>1, Zenon DEF OwnOK, state
  <1>3. ASSUME NEW x \in Dials, x # d PROVE VictimOK(x)'
    <2>1. VictimOK(x) /\ dial'[x] = dial[x]
      BY <1>3, Zenon DEF IInv, Others
    <2>2. ASSUME dial[x].pc \in {"mark", "recheck"}, dial[x].victim \notin started,
                 NEW y \in Dials, dial'[y].ep = dial[x].victim
          PROVE  dial'[y].pc \notin {"ready", "use"}
      BY <2>1, <2>2, Zenon DEF VictimOK, Others
    <2> QED
      BY <2>1, <2>2, Zenon DEF VictimOK, state
  <1>4. TickOK'
    BY Zenon DEF IInv, TickOK, state
  <1>5. ASSUME NEW e \in Endpoints PROVE EndpointOK(e)'
    <2>1. EndpointOK(e)
      BY Zenon DEF IInv
    <2> QED
      BY <2>1, Zenon DEF EndpointOK, Settled, Lazy, state
  <1> QED
    BY <1>1, <1>2, <1>3, <1>4, <1>5, Zenon DEF IInv

(* A step that at most announces a Close or moves the tick. *)
LEMMA QuietStep ==
    ASSUME IInv, Minor, closing' \subseteq Endpoints, closing \subseteq closing', tick' \in TickRecord, TickOK',
           UNCHANGED <<wg, unstarted, started, idleAsleep, torndown, disabled, gone, resumeMu, device, suspended,
                       born, built, slots, overBudget, dial>>
    PROVE  IInv'
  <1>1. TypeOK'
    BY DEF IInv, TypeOK, Minor, TickRecord
  <1>2. ASSUME NEW x \in Dials PROVE OwnOK(x)' /\ VictimOK(x)'
    BY Zenon DEF IInv, OwnOK, VictimOK
  <1>3. ASSUME NEW e \in Endpoints PROVE EndpointOK(e)'
    <2>1. EndpointOK(e)
      BY Zenon DEF IInv
    <2> QED
      BY <2>1, Zenon DEF EndpointOK, Settled, Lazy
  <1> QED
    BY <1>1, <1>2, <1>3, Zenon DEF IInv

(* Start keeps the invariant. *)
LEMMA StartKeeps ==
    ASSUME IInv, NEW c \in Endpoints, Start(c), UNCHANGED wg
    PROVE  IInv'
  <1>1. TypeOK
    BY Zenon DEF IInv
  <1>2. EndpointOK(c) /\ resumeMu[c] = Nobody
    BY Zenon DEF Start, IInv, Free
  <1>4. dial' = dial
    BY Zenon DEF Start
  <1>6. Local(c) /\ Minor
    BY <1>1 DEF Start, startLazy, Resume, Register, TypeOK, Local, Minor, devices, budget
  <1>9. EndpointOK(c)'
    BY <1>2, Zenon DEF Start, startLazy, Resume, Register, EndpointOK, Settled, Lazy, devices,
           budget
  <1>7. UNCHANGED tick /\ tick \in TickRecord /\ dial \in DialType
    BY <1>1, DialTyped, Zenon DEF Start, TypeOK, TickRecord
  <1> QED
    BY <1>2, <1>4, <1>6, <1>7, <1>9, LocalStep, BudgetAssumption, Zenon

(* Disable keeps the invariant. *)
LEMMA DisableKeeps ==
    ASSUME IInv, NEW c \in Endpoints, Disable(c), UNCHANGED wg
    PROVE  IInv'
  <1>1. TypeOK
    BY Zenon DEF IInv
  <1>2. EndpointOK(c) /\ resumeMu[c] = Nobody
    BY Zenon DEF Disable, IInv, Free
  <1>4. dial' = dial
    BY Zenon DEF Disable
  <1>6. Local(c) /\ Minor
    BY <1>1, Zenon DEF Disable, Suspend, TypeOK, Local, Minor, devices, budget
  <1>9. EndpointOK(c)'
    BY <1>1, <1>2, Zenon DEF Disable, Suspend, Free, EndpointOK, Settled, Lazy, flags, devices,
           budget
  <1>7. UNCHANGED tick /\ tick \in TickRecord /\ dial \in DialType
    BY <1>1, DialTyped, Zenon DEF Disable, TypeOK, TickRecord
  <1> QED
    BY <1>2, <1>4, <1>6, <1>7, <1>9, LocalStep, BudgetAssumption, Zenon

(* Enable keeps the invariant. *)
LEMMA EnableKeeps ==
    ASSUME IInv, NEW c \in Endpoints, Enable(c), UNCHANGED wg
    PROVE  IInv'
  <1>1. TypeOK
    BY Zenon DEF IInv
  <1>2. EndpointOK(c) /\ resumeMu[c] = Nobody
    BY Zenon DEF Enable, IInv, Free
  <1>4. dial' = dial
    BY Zenon DEF Enable
  <1>6. Local(c) /\ Minor
    BY <1>1, Zenon DEF Enable, Resume, TypeOK, Local, Minor, devices, budget
  <1>9. EndpointOK(c)'
    BY <1>2, Zenon DEF Enable, Resume, EndpointOK, Settled, Lazy, devices, budget
  <1>7. UNCHANGED tick /\ tick \in TickRecord /\ dial \in DialType
    BY <1>1, DialTyped, Zenon DEF Enable, TypeOK, TickRecord
  <1> QED
    BY <1>2, <1>4, <1>6, <1>7, <1>9, LocalStep, BudgetAssumption, Zenon

(* FlowEnds keeps the invariant. *)
LEMMA FlowEndsKeeps ==
    ASSUME IInv, NEW c \in Endpoints, FlowEnds(c), UNCHANGED wg
    PROVE  IInv'
  <1>1. TypeOK /\ TickOK
    BY Zenon DEF IInv
  <1>2. UNCHANGED <<resumeMu, built, torndown, idleAsleep, started, device, slots, gone, unstarted, tick>>
    BY Zenon DEF FlowEnds, flags, devices, budget
  <1>3. TickOK' /\ tick' \in TickRecord
    BY <1>1, <1>2, Zenon DEF TickOK, TypeOK, TickRecord
  <1> QED
    BY <1>1, <1>3, QuietStep, Zenon DEF FlowEnds, TypeOK, Minor, flags, budget

(* CloseBegins keeps the invariant. *)
LEMMA CloseBeginsKeeps ==
    ASSUME IInv, NEW c \in Endpoints, CloseBegins(c), UNCHANGED wg
    PROVE  IInv'
  <1>1. TypeOK /\ TickOK
    BY Zenon DEF IInv
  <1>2. UNCHANGED <<resumeMu, built, torndown, idleAsleep, started, device, slots, gone, unstarted, tick>>
    BY Zenon DEF CloseBegins, flags, devices, budget
  <1>3. TickOK' /\ tick' \in TickRecord
    BY <1>1, <1>2, Zenon DEF TickOK, TypeOK, TickRecord
  <1> QED
    BY <1>1, <1>3, QuietStep, Zenon DEF CloseBegins, TypeOK, Minor, devices, budget

(* CloseLocks keeps the invariant. *)
LEMMA CloseLocksKeeps ==
    ASSUME IInv, NEW c \in Endpoints, CloseLocks(c), UNCHANGED wg
    PROVE  IInv'
  <1>1. TypeOK
    BY Zenon DEF IInv
  <1>2. EndpointOK(c) /\ resumeMu[c] = Nobody
    BY Zenon DEF CloseLocks, IInv, Free
  <1>4. dial' = dial
    BY Zenon DEF CloseLocks
  <1>6. Local(c) /\ Minor
    BY <1>1, <1>2, Zenon DEF CloseLocks, Release, TypeOK, Local, Minor, flags, devices, budget
  <1>9. EndpointOK(c)'
    BY <1>2, Zenon DEF CloseLocks, Release, EndpointOK, devices, budget
  <1>7. UNCHANGED tick /\ tick \in TickRecord /\ dial \in DialType
    BY <1>1, DialTyped, Zenon DEF CloseLocks, TypeOK, TickRecord
  <1> QED
    BY <1>2, <1>4, <1>6, <1>7, <1>9, LocalStep, BudgetAssumption, Zenon

(* CloseEnds keeps the invariant. *)
LEMMA CloseEndsKeeps ==
    ASSUME IInv, NEW c \in Endpoints, CloseEnds(c), UNCHANGED wg
    PROVE  IInv'
  <1>1. TypeOK
    BY Zenon DEF IInv
  <1>2. c \in gone /\ EndpointOK(c) /\ resumeMu[c] = Nobody
    BY Zenon DEF CloseEnds, IInv, EndpointOK
  <1>4. dial' = dial
    BY Zenon DEF CloseEnds
  <1>6. Local(c) /\ Minor
    BY <1>1, Zenon DEF CloseEnds, TypeOK, Local, Minor, flags, budget
  <1>9. EndpointOK(c)'
    BY <1>2, Zenon DEF CloseEnds, EndpointOK, flags, budget
  <1>7. UNCHANGED tick /\ tick \in TickRecord /\ dial \in DialType
    BY <1>1, DialTyped, Zenon DEF CloseEnds, TypeOK, TickRecord
  <1> QED
    BY <1>2, <1>4, <1>6, <1>7, <1>9, LocalStep, BudgetAssumption, Zenon

(* TickTakes keeps the invariant. *)
LEMMA TickTakesKeeps ==
    ASSUME IInv, NEW c \in Endpoints, TickTakes(c), UNCHANGED wg
    PROVE  IInv'
  <1>1. TypeOK /\ TickOK
    BY Zenon DEF IInv
  <1>2. tick'.ep = c /\ tick'.pc \in {"suspend", "teardown"} /\ tick' \in TickRecord
    BY DEF TickTakes, TickRecord
  <1>3. TickOK'
    BY <1>2, Zenon DEF TickOK
  <1> QED
    BY <1>1, <1>2, <1>3, QuietStep, Zenon DEF TickTakes, TypeOK, Minor, flags, devices, budget

(* SuspendIfIdle keeps the invariant. *)
LEMMA SuspendIfIdleKeeps ==
    ASSUME IInv, SuspendIfIdle, UNCHANGED wg
    PROVE  IInv'
  <1>1. TypeOK /\ TickOK /\ tick.pc = "suspend"
    BY Zenon DEF SuspendIfIdle, IInv
  <1>2. tick.ep \in Endpoints /\ resumeMu[tick.ep] = Nobody
    BY <1>1, Zenon DEF TickOK, SuspendIfIdle, Free
  <1>3. PICK t \in Endpoints : t = tick.ep /\ resumeMu[t] = Nobody /\ EndpointOK(t)
    BY <1>2, Zenon DEF IInv
  <1>4. dial' = dial /\ tick' \in TickRecord
    BY <1>1, Zenon DEF SuspendIfIdle, TypeOK, TickRecord, TickRests
  <1>6. Local(t) /\ Minor
    BY <1>1, <1>3, Zenon DEF SuspendIfIdle, Suspend, TypeOK, Local, Minor, devices, budget
  <1>7. TickOK'
    BY Zenon DEF SuspendIfIdle, TickRests, TickOK
  <1>9. EndpointOK(t)'
    BY <1>3, Zenon DEF SuspendIfIdle, Suspend, Free, TickRests, EndpointOK, Settled, Lazy, TickOK,
           flags, devices, budget
  <1>8. dial \in DialType
    BY <1>1, DialTyped, Zenon
  <1> QED
    BY <1>3, <1>4, <1>6, <1>7, <1>8, <1>9, LocalStep, BudgetAssumption, Zenon

(* TeardownIfSlept keeps the invariant. *)
LEMMA TeardownIfSleptKeeps ==
    ASSUME IInv, TeardownIfSlept, UNCHANGED wg
    PROVE  IInv'
  <1>1. TypeOK /\ TickOK /\ tick.pc = "teardown"
    BY Zenon DEF TeardownIfSlept, IInv
  <1>2. tick.ep \in Endpoints /\ resumeMu[tick.ep] = Nobody
    BY <1>1, Zenon DEF TickOK, TeardownIfSlept, Free
  <1>3. PICK t \in Endpoints : t = tick.ep /\ resumeMu[t] = Nobody /\ EndpointOK(t)
    BY <1>2, Zenon DEF IInv
  <1>4. dial' = dial /\ tick' \in TickRecord
    BY <1>1 DEF TeardownIfSlept, TypeOK, TickRecord, TickRests
  <1>5. /\ UNCHANGED <<unstarted, started, idleAsleep, neverBuilt, disabled, closing, gone, built, slots,
                     evicting, overBudget>>
        /\ \/ tick'.pc = "idle" /\ UNCHANGED <<torndown, resumeMu, device, suspended, flow, born>>
           \/ /\ t \in idleAsleep /\ t \notin torndown /\ tick'.pc = "release" /\ tick'.ep = t
              /\ torndown' = torndown \cup {t} /\ Teardown(t) /\ Lock(t, Tick)
    BY <1>1, <1>3 DEF TeardownIfSlept, TickRests, TypeOK, devices, budget
  <1>6. Local(t) /\ Minor
    <2>1. /\ resumeMu' \in [Endpoints -> Dials \cup {Tick, Nobody}]
          /\ \A e \in Endpoints : e # t => resumeMu'[e] = resumeMu[e]
      BY <1>1, <1>5, LockMoves, Zenon DEF TypeOK
    <2> QED
      BY <1>1, <1>5, <2>1, Zenon DEF Teardown, TypeOK, Local, Minor
  <1>7. TickOK'
    <2>1. CASE tick'.pc = "idle"
      BY <2>1, Zenon DEF TickOK
    <2>2. CASE Lock(t, Tick) /\ tick'.pc = "release"
      <3>1. resumeMu'[t] = Tick
        BY <1>1, <2>2, LockMoves, Zenon
      <3> QED
        BY <1>3, <1>5, <3>1, Zenon DEF Teardown, TickOK, EndpointOK, Settled
    <2> QED
      BY <1>5, <2>1, <2>2, Zenon
  <1>9. EndpointOK(t)'
    <2>1. CASE UNCHANGED <<torndown, resumeMu, device, suspended, flow, born>>
      BY <1>3, <1>5, <2>1, Zenon DEF EndpointOK, Settled, Lazy
    <2>2. CASE torndown' = torndown \cup {t} /\ Teardown(t) /\ Lock(t, Tick)
      <3>1. resumeMu'[t] = Tick
        BY <1>1, <2>2, LockMoves, Zenon
      <3> QED
        BY <1>3, <1>5, <3>1, BudgetAssumption, Zenon DEF Teardown, EndpointOK
    <2> QED
      BY <1>5, <2>1, <2>2, Zenon
  <1>8. dial \in DialType
    BY <1>1, DialTyped, Zenon
  <1> QED
    BY <1>3, <1>4, <1>6, <1>7, <1>8, <1>9, LocalStep, BudgetAssumption, Zenon

(* TickReleases keeps the invariant. *)
LEMMA TickReleasesKeeps ==
    ASSUME IInv, TickReleases, UNCHANGED wg
    PROVE  IInv'
  <1>1. TypeOK /\ TickOK /\ tick.pc = "release"
    BY Zenon DEF TickReleases, IInv
  <1>2. tick.ep \in Endpoints /\ resumeMu[tick.ep] = Tick
    BY <1>1, Zenon DEF TickOK
  <1>3. PICK t \in Endpoints : t = tick.ep /\ resumeMu[t] = Tick /\ EndpointOK(t)
    BY <1>2, Zenon DEF IInv
  <1>4. dial' = dial /\ tick' \in TickRecord
    BY Zenon DEF TickReleases, TickRecord, TickRests
  <1>5. /\ resumeMu' \in [Endpoints -> Dials \cup {Tick, Nobody}]
        /\ \A e \in Endpoints : e # t => resumeMu'[e] = resumeMu[e]
        /\ resumeMu'[t] = Nobody
    BY <1>1, <1>3, LockMoves, Zenon DEF TickReleases, Unlock
  <1>6. Local(t) /\ Minor
    BY <1>1, <1>3, <1>5, Zenon DEF TickReleases, Release, TypeOK, Local, Minor, flags, devices
  <1>7. TickOK'
    BY Zenon DEF TickReleases, TickRests, TickOK
  <1>9. EndpointOK(t)'
    BY <1>1, <1>3, Zenon DEF TickReleases, Release, EndpointOK, Settled, TickOK, flags, devices
  <1>8. dial \in DialType
    BY <1>1, DialTyped, Zenon
  <1> QED
    BY <1>3, <1>4, <1>6, <1>7, <1>8, <1>9, LocalStep, BudgetAssumption, Zenon

-----------------------------------------------------------------------------
(* Dials, from their entry to the use of the device, and the search of       *)
(* Acquire for a slot.                                                       *)

(* DialEnters keeps the invariant. *)
LEMMA DialEntersKeeps ==
    ASSUME IInv, NEW d \in Dials, NEW c \in Endpoints, DialEnters(d, c), UNCHANGED wg
    PROVE  IInv'
  <1>1. TypeOK /\ OwnOK(d) /\ VictimOK(d) /\ dial[d].pc = "idle"
    BY Zenon DEF DialEnters, IInv
  <1>2. Reset(d, Nobody, "done") \/ Reset(d, c, "asleep")
    BY <1>1, AtResets, DoneResets, Zenon DEF DialEnters, Pcs, InFlight
  <1>3. UNCHANGED state
    BY Zenon DEF DialEnters, state, flags, devices, budget
  <1>4. Minor
    BY <1>1, Zenon DEF DialEnters, TypeOK, Minor, flags, devices, budget
  <1>5. OwnOK(d)'
    BY <1>2, Zenon DEF OwnOK, Reset, InFlight, Rebuilding, Requesting, Building
  <1>6. VictimOK(d)'
    BY <1>2, Zenon DEF VictimOK, Reset, Others, AtVictim, Evicting
  <1> QED
    BY <1>2, <1>3, <1>4, <1>5, <1>6, RecordStep, Zenon DEF Reset

(* ReadAsleep keeps the invariant. *)
LEMMA ReadAsleepKeeps ==
    ASSUME IInv, NEW d \in Dials, ReadAsleep(d), UNCHANGED wg
    PROVE  IInv'
  <1>1. TypeOK /\ OwnOK(d) /\ VictimOK(d) /\ dial[d].pc = "asleep"
    BY Zenon DEF ReadAsleep, IInv
  <1>2. IF dial[d].ep \in idleAsleep THEN Moved(d, "lock") ELSE Moved(d, "ready")
    BY <1>1, GoMoves, Zenon DEF ReadAsleep, Pcs, InFlight
  <1>3. UNCHANGED state
    BY Zenon DEF ReadAsleep, state, flags, devices, budget
  <1>4. Minor
    BY <1>1, Zenon DEF ReadAsleep, TypeOK, Minor, flags, devices, budget
  <1>5. OwnOK(d)'
    BY <1>1, <1>2, Zenon DEF OwnOK, Moved, InFlight, Rebuilding, Requesting, Building
  <1>6. VictimOK(d)'
    BY <1>1, <1>2, Zenon DEF VictimOK, Moved, AtVictim, Evicting
  <1> QED
    BY <1>2, <1>3, <1>4, <1>5, <1>6, RecordStep, Zenon DEF Moved

(* ReadStarted keeps the invariant. *)
LEMMA ReadStartedKeeps ==
    ASSUME IInv, NEW d \in Dials, ReadStarted(d), UNCHANGED wg
    PROVE  IInv'
  <1>1. TypeOK /\ OwnOK(d) /\ VictimOK(d) /\ dial[d].pc = "ready"
    BY Zenon DEF ReadStarted, IInv
  <1>2. Moved(d, "use") \/ Reset(d, Nobody, "done")
    BY <1>1, GoMoves, DoneResets, Zenon DEF ReadStarted, Pcs, InFlight
  <1>3. UNCHANGED state
    BY Zenon DEF ReadStarted, state, flags, devices, budget
  <1>4. Minor
    BY <1>1, Zenon DEF ReadStarted, TypeOK, Minor, flags, devices, budget
  <1>5. OwnOK(d)'
    BY <1>1, <1>2, Zenon DEF OwnOK, Moved, Reset, Others, InFlight, Rebuilding, Requesting,
           Building
  <1>6. VictimOK(d)'
    BY <1>1, <1>2, Zenon DEF VictimOK, Moved, Reset, AtVictim, Evicting
  <1> QED
    BY <1>1, <1>2, <1>3, <1>4, <1>5, <1>6, RecordStep, Zenon DEF Moved, Reset

(* DialLocks keeps the invariant. *)
LEMMA DialLocksKeeps ==
    ASSUME IInv, NEW d \in Dials, DialLocks(d), UNCHANGED wg
    PROVE  IInv'
  <1>1. TypeOK /\ OwnOK(d) /\ VictimOK(d) /\ dial[d].pc = "lock"
    BY Zenon DEF DialLocks, IInv
  <1>2. (dial[d].ep \in started /\ Moved(d, "use")) \/ Reset(d, Nobody, "done")
    BY <1>1, GoMoves, DoneResets, Zenon DEF DialLocks, Pcs, InFlight
  <1>3. UNCHANGED state
    BY Zenon DEF DialLocks, state, flags, devices, budget
  <1>4. Minor
    BY <1>1, Zenon DEF DialLocks, TypeOK, Minor, flags, devices, budget
  <1>5. OwnOK(d)'
    BY <1>1, <1>2, Zenon DEF OwnOK, Moved, Reset, InFlight, Rebuilding, Requesting, Building
  <1>6. VictimOK(d)'
    BY <1>1, <1>2, Zenon DEF VictimOK, Moved, Reset, AtVictim, Evicting
  <1> QED
    BY <1>2, <1>3, <1>4, <1>5, <1>6, RecordStep, Zenon DEF Moved, Reset

(* DialWakes keeps the invariant. *)
LEMMA DialWakesKeeps ==
    ASSUME IInv, NEW d \in Dials, DialWakes(d), UNCHANGED wg
    PROVE  IInv'
  <1>1. TypeOK /\ OwnOK(d) /\ VictimOK(d) /\ dial[d].pc = "lock"
    BY Zenon DEF DialWakes, IInv
  <1>2. dial[d].ep \in Endpoints /\ resumeMu[dial[d].ep] = Nobody
    BY <1>1, Zenon DEF OwnOK, InFlight, DialWakes, Free
  <1>3. PICK t \in Endpoints : t = dial[d].ep /\ resumeMu[t] = Nobody /\ EndpointOK(t)
    BY <1>2, Zenon DEF IInv
  <1>4. Moved(d, "use") \/ Reset(d, Nobody, "done")
    BY <1>1, GoMoves, DoneResets, Zenon DEF DialWakes, Pcs, InFlight
  <1>6. Local(t) /\ Minor
    BY <1>1, <1>3, Zenon DEF DialWakes, Resume, TypeOK, Local, Minor, devices, budget
  <1>7. OwnOK(d)'
    BY <1>3, <1>4, Zenon DEF MayWake, Resume, OwnOK, Moved, Reset, devices, InFlight, Rebuilding,
           Requesting, Building
  <1>8. VictimOK(d)'
    BY <1>1, <1>4, Zenon DEF VictimOK, Moved, Reset, AtVictim, Evicting
  <1>9. EndpointOK(t)'
    BY <1>3, Zenon DEF DialWakes, Resume, EndpointOK, Settled, Rebuilding, flags, devices, budget
  <1>10. UNCHANGED tick /\ tick \in TickRecord
    BY <1>1, Zenon DEF DialWakes, TypeOK, TickRecord
  <1> QED
    BY <1>3, <1>4, <1>6, <1>7, <1>8, <1>9, <1>10, LocalStep, BudgetAssumption
       DEF Moved, Reset, Others

(* DialRebuilds keeps the invariant. *)
LEMMA DialRebuildsKeeps ==
    ASSUME IInv, NEW d \in Dials, DialRebuilds(d), UNCHANGED wg
    PROVE  IInv'
  <1>1. TypeOK /\ OwnOK(d) /\ VictimOK(d) /\ dial[d].pc = "lock"
    BY Zenon DEF DialRebuilds, IInv
  <1>2. dial[d].ep \in Endpoints /\ resumeMu[dial[d].ep] = Nobody
    BY <1>1, Zenon DEF OwnOK, InFlight, DialRebuilds, Free
  <1>3. PICK t \in Endpoints : t = dial[d].ep /\ resumeMu[t] = Nobody /\ EndpointOK(t)
    BY <1>2, Zenon DEF IInv
  <1>4. Moved(d, "top")
    BY <1>1, GoMoves, Zenon DEF DialRebuilds, Pcs, InFlight, Rebuilding, Requesting
  <1>5. /\ resumeMu' \in [Endpoints -> Dials \cup {Tick, Nobody}]
        /\ \A e \in Endpoints : e # t => resumeMu'[e] = resumeMu[e]
        /\ resumeMu'[t] = d
    BY <1>1, <1>3, LockMoves, Zenon DEF DialRebuilds
  <1>6. Local(t) /\ Minor
    BY <1>1, <1>5, Zenon DEF DialRebuilds, TypeOK, Local, Minor, flags, devices, budget
  <1>7. OwnOK(d)'
    BY <1>3, <1>4, <1>5, Zenon DEF DialRebuilds, MayWake, OwnOK, Moved, EndpointOK, Settled,
           flags, devices, budget, Building
  <1>8. VictimOK(d)'
    BY <1>1, <1>4, Zenon DEF VictimOK, Moved, AtVictim, Evicting
  <1>9. EndpointOK(t)'
    BY <1>3, Zenon DEF DialRebuilds, EndpointOK, Settled, Lazy, OwnOK, Rebuilding, Requesting,
           flags, devices, budget
  <1>10. UNCHANGED tick /\ tick \in TickRecord
    BY <1>1, Zenon DEF DialRebuilds, TypeOK, TickRecord
  <1> QED
    BY <1>3, <1>4, <1>6, <1>7, <1>8, <1>9, <1>10, LocalStep, BudgetAssumption, Zenon DEF Moved,
           Others

(* DialEnds keeps the invariant. *)
LEMMA DialEndsKeeps ==
    ASSUME IInv, NEW d \in Dials, DialEnds(d), UNCHANGED wg
    PROVE  IInv'
  <1>1. TypeOK /\ OwnOK(d) /\ VictimOK(d) /\ dial[d].pc = "use"
    BY Zenon DEF DialEnds, IInv
  <1>2. Reset(d, Nobody, "done")
    BY <1>1, DoneResets, Zenon DEF DialEnds
  <1>3. UNCHANGED state
    BY Zenon DEF DialEnds, state, flags, devices, budget
  <1>4. Minor
    BY <1>1 DEF DialEnds, TypeOK, Minor, flags, budget
  <1>5. OwnOK(d)'
    BY <1>2, Zenon DEF OwnOK, Reset, InFlight, Rebuilding, Requesting, Building
  <1>6. VictimOK(d)'
    BY <1>2, Zenon DEF VictimOK, Moved, Reset, AtVictim, Evicting
  <1> QED
    BY <1>2, <1>3, <1>4, <1>5, <1>6, RecordStep, Zenon DEF Reset

(* AcquireTop keeps the invariant. *)
LEMMA AcquireTopKeeps ==
    ASSUME IInv, NEW d \in Dials, AcquireTop(d), UNCHANGED wg
    PROVE  IInv'
  <1>1. TypeOK /\ OwnOK(d) /\ VictimOK(d) /\ dial[d].pc = "top"
    BY Zenon DEF AcquireTop, IInv
  <1>2. dial[d].ep \in Endpoints /\ resumeMu[dial[d].ep] = d
    BY <1>1, Zenon DEF OwnOK, InFlight, Rebuilding, Requesting
  <1>3. PICK t \in Endpoints : t = dial[d].ep /\ resumeMu[t] = d /\ EndpointOK(t)
    BY <1>2, Zenon DEF IInv
  <1>4. (Moved(d, "count") /\ resumeMu' = resumeMu) \/ (Reset(d, Nobody, "done") /\ Unlock(dial[d].ep))
    BY <1>1, GoMoves, DoneResets, Zenon DEF AcquireTop, Refuse, Pcs, InFlight, Rebuilding,
           Requesting
  <1>5. /\ resumeMu' \in [Endpoints -> Dials \cup {Tick, Nobody}]
        /\ \A e \in Endpoints : e # t => resumeMu'[e] = resumeMu[e]
        /\ resumeMu'[t] \in {Nobody, d}
    BY <1>1, <1>3, LockMoves, <1>4, Zenon DEF Unlock, TypeOK
  <1>6. Local(t) /\ Minor
    BY <1>1, <1>5, Zenon DEF AcquireTop, TypeOK, Local, Minor, flags, devices, budget
  <1>7. OwnOK(d)'
    BY <1>1, <1>3, <1>4, <1>5, Zenon DEF AcquireTop, OwnOK, Moved, Reset, Others, flags, devices,
           budget, InFlight, Rebuilding, Requesting, Building
  <1>8. VictimOK(d)'
    BY <1>1, <1>4, Zenon DEF VictimOK, Moved, Reset, AtVictim, Evicting
  <1>9. EndpointOK(t)'
    BY <1>1, <1>3, Zenon DEF AcquireTop, EndpointOK, Settled, OwnOK, Rebuilding, Requesting,
           flags, devices, budget
  <1>10. UNCHANGED tick /\ tick \in TickRecord
    BY <1>1, Zenon DEF AcquireTop, TypeOK, TickRecord
  <1> QED
    BY <1>3, <1>4, <1>6, <1>7, <1>8, <1>9, <1>10, LocalStep, BudgetAssumption
       DEF Moved, Reset, Others

(* TakeSlot keeps the invariant. *)
LEMMA TakeSlotKeeps ==
    ASSUME IInv, NEW d \in Dials, TakeSlot(d), UNCHANGED wg
    PROVE  IInv'
  <1>1. TypeOK /\ OwnOK(d) /\ VictimOK(d) /\ dial[d].pc = "count"
    BY Zenon DEF TakeSlot, IInv
  <1>2. dial[d].ep \in Endpoints /\ resumeMu[dial[d].ep] = d
    BY <1>1, Zenon DEF OwnOK, InFlight, Rebuilding, Requesting
  <1>3. PICK t \in Endpoints : t = dial[d].ep /\ resumeMu[t] = d /\ EndpointOK(t)
    BY <1>2, Zenon DEF IInv
  <1>4. Reset(d, dial[d].ep, "rebuild")
    BY <1>1, <1>2, AtResets, Zenon DEF TakeSlot, Pcs, InFlight, Rebuilding
  <1>6. Local(t) /\ Minor
    BY <1>1, <1>3, Zenon DEF TakeSlot, TypeOK, Local, Minor, flags, devices
  <1>7. OwnOK(d)'
    BY <1>1, <1>2, <1>3, <1>4, Zenon DEF TakeSlot, OwnOK, Reset, Others, EndpointOK, Settled,
           flags, devices, budget, InFlight, Rebuilding, Requesting, Building
  <1>8. VictimOK(d)'
    BY <1>4, Zenon DEF VictimOK, Reset, Others, AtVictim, Evicting
  <1>9. EndpointOK(t)'
    BY <1>3, BudgetAssumption, Zenon DEF TakeSlot, EndpointOK, Rebuilding, devices
  <1>10. UNCHANGED tick /\ tick \in TickRecord
    BY <1>1, Zenon DEF TakeSlot, TypeOK, TickRecord
  <1> QED
    BY <1>3, <1>4, <1>6, <1>7, <1>8, <1>9, <1>10, LocalStep, BudgetAssumption DEF Reset, Others

(* NoSlot keeps the invariant. *)
LEMMA NoSlotKeeps ==
    ASSUME IInv, NEW d \in Dials, NoSlot(d), UNCHANGED wg
    PROVE  IInv'
  <1>1. TypeOK /\ OwnOK(d) /\ VictimOK(d) /\ dial[d].pc = "count"
    BY Zenon DEF NoSlot, IInv
  <1>2. /\ Others(d) /\ dial'[d].pc = "pick" /\ dial'[d].ep = dial[d].ep
        /\ dial'[d].cand = candidates(dial[d].ep) /\ dial'[d].victim = dial[d].victim
    <2>1. PICK C \in SUBSET Endpoints, O \in SUBSET Endpoints :
            /\ C = candidates(dial[d].ep)
            /\ dial' = [dial EXCEPT ![d].pc = "pick", ![d].cand = C, ![d].over = O, ![d].traffic = FALSE]
      BY Zenon DEF NoSlot, candidates
    <2> DEFINE r == [dial[d] EXCEPT !.pc = "pick", !.cand = C, !.over = O, !.traffic = FALSE]
    <2>2. dial[d] \in DialRecord
      BY <1>1, DialTyped, Zenon DEF DialType
    <2>3. r \in DialRecord
      BY <2>1, <2>2, Zenon DEF DialRecord, Pcs, InFlight, Rebuilding, Requesting
    <2>4. dial' = [dial EXCEPT ![d] = r]
      BY <2>1, Zenon
    <2>5. r.pc = "pick" /\ r.ep = dial[d].ep /\ r.cand = C /\ r.victim = dial[d].victim
      BY <2>2, Zenon DEF DialRecord
    <2> HIDE DEF r
    <2> QED
      BY <1>1, <2>1, <2>3, <2>4, <2>5, RecordChanges, Zenon
  <1>3. UNCHANGED state
    BY Zenon DEF NoSlot, state, flags, devices, budget
  <1>4. Minor
    BY <1>1, Zenon DEF NoSlot, TypeOK, Minor, flags, devices, budget
  <1>5. OwnOK(d)'
    BY <1>1, <1>2, <1>3, Zenon DEF OwnOK, state, InFlight, Rebuilding, Requesting, Building
  <1>6. VictimOK(d)'
    BY <1>2, Zenon DEF VictimOK, AtVictim, Evicting, candidates, Rebuilding
  <1> QED
    BY <1>2, <1>3, <1>4, <1>5, <1>6, RecordStep, Zenon DEF Others

(* TryCandidate keeps the invariant. *)
LEMMA TryCandidateKeeps ==
    ASSUME IInv, NEW d \in Dials, NEW v \in Endpoints, TryCandidate(d, v), UNCHANGED wg
    PROVE  IInv'
  <1>1. TypeOK /\ OwnOK(d) /\ VictimOK(d) /\ dial[d].pc = "pick" /\ v \in dial[d].cand
    BY Zenon DEF TryCandidate, Ranked, IInv
  <1>2. /\ Others(d) /\ dial'[d].pc \in {"pick", "victim"} /\ dial'[d].ep = dial[d].ep
        /\ dial'[d].cand = dial[d].cand \ {v} /\ (dial'[d].pc = "victim" => dial'[d].victim = v)
    BY <1>1, DialTyped DEF Others, DialType, DialRecord, TryCandidate
  <1>3. UNCHANGED state
    BY Zenon DEF TryCandidate, state, flags, devices, budget
  <1>4. Minor
    BY <1>1, Zenon DEF TryCandidate, TypeOK, Minor, flags, devices, budget, IsCandidate
  <1>5. OwnOK(d)'
    BY <1>1, <1>2, <1>3, Zenon DEF OwnOK, state, InFlight, Rebuilding, Requesting, Building
  <1>6. VictimOK(d)'
    BY <1>1, <1>2, Zenon DEF VictimOK, AtVictim, Evicting
  <1> QED
    BY <1>2, <1>3, <1>4, <1>5, <1>6, RecordStep, Zenon

(* BuildOver keeps the invariant. *)
LEMMA BuildOverKeeps ==
    ASSUME IInv, NEW d \in Dials, BuildOver(d), UNCHANGED wg
    PROVE  IInv'
  <1>1. TypeOK /\ OwnOK(d) /\ VictimOK(d) /\ dial[d].pc = "pick"
    BY Zenon DEF BuildOver, IInv
  <1>2. dial[d].ep \in Endpoints /\ resumeMu[dial[d].ep] = d
    BY <1>1, Zenon DEF OwnOK, InFlight, Rebuilding, Requesting
  <1>3. PICK t \in Endpoints : t = dial[d].ep /\ resumeMu[t] = d /\ EndpointOK(t)
    BY <1>2, Zenon DEF IInv
  <1>4. /\ UNCHANGED <<unstarted, started, idleAsleep, torndown, neverBuilt, disabled, closing, gone,
                     resumeMu, device, suspended, flow, born, built, evicting>>
        /\ \/ Moved(d, "top") /\ slots' = slots /\ overBudget' = overBudget
           \/ /\ Reset(d, dial[d].ep, "rebuild")
              /\ slots' = slots \cup {t} /\ overBudget' = overBudget \cup {t}
    BY <1>1, <1>3, GoMoves, AtResets, Zenon DEF BuildOver, flags, devices, Pcs, InFlight,
           Rebuilding, Requesting
  <1>6. Local(t) /\ Minor
    BY <1>1, <1>4, Zenon DEF TypeOK, Local, Minor
  <1>7. OwnOK(d)'
    BY <1>1, <1>3, <1>4, Zenon DEF OwnOK, Moved, Reset, Rebuilding, Requesting, Building
  <1>8. VictimOK(d)'
    BY <1>1, <1>4, Zenon DEF VictimOK, Moved, Reset, AtVictim, Evicting
  <1>9. EndpointOK(t)'
    BY <1>3, <1>4, BudgetAssumption, Zenon DEF EndpointOK, Lazy
  <1>10. UNCHANGED tick /\ tick \in TickRecord
    BY <1>1, Zenon DEF BuildOver, TypeOK, TickRecord
  <1> QED
    BY <1>3, <1>4, <1>6, <1>7, <1>8, <1>9, <1>10, LocalStep, BudgetAssumption
       DEF Moved, Reset, Others

(* WaitForSlot keeps the invariant. *)
LEMMA WaitForSlotKeeps ==
    ASSUME IInv, NEW d \in Dials, WaitForSlot(d), UNCHANGED wg
    PROVE  IInv'
  <1>1. TypeOK /\ OwnOK(d) /\ VictimOK(d) /\ dial[d].pc = "pick"
    BY Zenon DEF WaitForSlot, IInv
  <1>2. Moved(d, "wait")
    <2>1. PICK b \in BOOLEAN : dial' = [dial EXCEPT ![d].pc = "wait", ![d].resampled = b]
      BY <1>1, DialTyped, Zenon DEF DialType, DialRecord, WaitForSlot
    <2> DEFINE r == [dial[d] EXCEPT !.pc = "wait", !.resampled = b]
    <2>2. dial[d] \in DialRecord
      BY <1>1, DialTyped, Zenon DEF DialType
    <2>3. r \in DialRecord
      BY <2>1, <2>2, Zenon DEF DialRecord, Pcs, InFlight, Rebuilding, Requesting
    <2>4. dial' = [dial EXCEPT ![d] = r]
      BY <2>1, Zenon
    <2>5. r.pc = "wait" /\ r.ep = dial[d].ep /\ r.cand = dial[d].cand /\ r.victim = dial[d].victim
      BY <2>2, Zenon DEF DialRecord
    <2> HIDE DEF r
    <2> QED
      BY <1>1, <2>1, <2>3, <2>4, <2>5, RecordChanges, Zenon DEF Moved
  <1>3. UNCHANGED state
    BY Zenon DEF WaitForSlot, state, flags, devices, budget
  <1>4. Minor
    BY <1>1, Zenon DEF WaitForSlot, TypeOK, Minor, flags, devices, budget
  <1>5. OwnOK(d)'
    BY <1>1, <1>2, <1>3, Zenon DEF OwnOK, Moved, state, InFlight, Rebuilding, Requesting, Building
  <1>6. VictimOK(d)'
    BY <1>1, <1>2, Zenon DEF VictimOK, Moved, AtVictim, Evicting
  <1> QED
    BY <1>2, <1>3, <1>4, <1>5, <1>6, RecordStep, Zenon DEF Moved

(* LookAgain keeps the invariant. *)
LEMMA LookAgainKeeps ==
    ASSUME IInv, NEW d \in Dials, LookAgain(d), UNCHANGED wg
    PROVE  IInv'
  <1>1. TypeOK /\ OwnOK(d) /\ VictimOK(d) /\ dial[d].pc = "wait"
    BY Zenon DEF LookAgain, IInv
  <1>2. Moved(d, "top")
    <2> "top" \in Pcs
      BY Zenon DEF Pcs, InFlight, Rebuilding, Requesting
    <2> QED
      BY <1>1, DialTyped, BudgetAssumption DEF LookAgain, DialType, DialRecord
  <1>3. UNCHANGED state
    BY Zenon DEF LookAgain, state, flags, devices, budget
  <1>4. Minor
    BY <1>1 DEF LookAgain, TypeOK
  <1>5. OwnOK(d)'
    BY <1>1, <1>2, <1>3, Zenon DEF OwnOK, Moved, Reset, state, InFlight, Rebuilding, Requesting,
           Building
  <1>6. VictimOK(d)'
    BY <1>1, <1>2, Zenon DEF VictimOK, Moved, AtVictim, Evicting
  <1> QED
    BY <1>2, <1>3, <1>4, <1>5, <1>6, RecordStep, Zenon DEF Moved, Others

(* GiveUp keeps the invariant. *)
LEMMA GiveUpKeeps ==
    ASSUME IInv, NEW d \in Dials, GiveUp(d), UNCHANGED wg
    PROVE  IInv'
  <1>1. TypeOK /\ OwnOK(d) /\ VictimOK(d) /\ dial[d].pc = "wait"
    BY Zenon DEF GiveUp, IInv
  <1>2. dial[d].ep \in Endpoints /\ resumeMu[dial[d].ep] = d
    BY <1>1, Zenon DEF OwnOK, InFlight, Rebuilding, Requesting
  <1>3. PICK t \in Endpoints : t = dial[d].ep /\ resumeMu[t] = d /\ EndpointOK(t)
    BY <1>2, Zenon DEF IInv
  <1>4. Reset(d, Nobody, "done")
    BY <1>1, DoneResets, Zenon DEF GiveUp, Refuse
  <1>5. /\ resumeMu' \in [Endpoints -> Dials \cup {Tick, Nobody}]
        /\ \A e \in Endpoints : e # t => resumeMu'[e] = resumeMu[e]
        /\ resumeMu'[t] = Nobody
    BY <1>1, <1>3, LockMoves, Zenon DEF GiveUp, Refuse, Unlock
  <1>6. Local(t) /\ Minor
    BY <1>1, <1>5, Zenon DEF GiveUp, TypeOK, Local, Minor, flags, devices, budget
  <1>7. OwnOK(d)'
    BY <1>4, Zenon DEF OwnOK, Reset, InFlight, Rebuilding, Requesting, Building
  <1>8. VictimOK(d)'
    BY <1>4, Zenon DEF VictimOK, Reset, AtVictim, Evicting
  <1>9. EndpointOK(t)'
    BY <1>1, <1>3, Zenon DEF GiveUp, EndpointOK, Settled, OwnOK, Rebuilding, Requesting, flags,
           devices, budget
  <1>10. UNCHANGED tick /\ tick \in TickRecord
    BY <1>1, Zenon DEF GiveUp, TypeOK, TickRecord
  <1> QED
    BY <1>3, <1>4, <1>6, <1>7, <1>8, <1>9, <1>10, LocalStep, BudgetAssumption DEF Reset, Others

-----------------------------------------------------------------------------
(* Dials at a victim of the budget, and the rebuild of the device once there *)
(* is a slot.                                                                *)

(* VictimLocked keeps the invariant. *)
LEMMA VictimLockedKeeps ==
    ASSUME IInv, NEW d \in Dials, VictimLocked(d), UNCHANGED wg
    PROVE  IInv'
  <1>1. TypeOK /\ OwnOK(d) /\ VictimOK(d) /\ dial[d].pc = "victim"
    BY Zenon DEF VictimLocked, IInv
  <1>2. dial[d].victim \in Endpoints /\ resumeMu[dial[d].victim] = Nobody /\ dial[d].victim # dial[d].ep
    BY <1>1, Zenon DEF VictimOK, AtVictim, Evicting, VictimLocked, Free
  <1>3. PICK t \in Endpoints : t = dial[d].victim /\ resumeMu[t] = Nobody /\ EndpointOK(t)
    BY <1>2, Zenon DEF IInv
  <1>4. Moved(d, "settle") \/ Moved(d, "mark")
    BY <1>1, DialTyped
       DEF VictimLocked, Go, Moved, Others, DialType, DialRecord, Pcs, InFlight, Rebuilding,
           Requesting
  <1>5. /\ resumeMu' \in [Endpoints -> Dials \cup {Tick, Nobody}]
        /\ \A e \in Endpoints : e # t => resumeMu'[e] = resumeMu[e]
        /\ resumeMu'[t] \in {d, Nobody}
    BY <1>1, <1>3, LockMoves DEF VictimLocked, TypeOK
  <1>6. Local(t) /\ Minor
    BY <1>1, <1>5, Zenon DEF VictimLocked, TypeOK, Local, Minor, flags, devices, budget
  <1>7. OwnOK(d)'
    BY <1>1, <1>2, <1>3, <1>4, <1>6, Zenon DEF OwnOK, Moved, Local, InFlight, Rebuilding,
           Requesting, Building
  <1>8. VictimOK(d)'
    <2>1. CASE dial'[d].pc = "settle"
      BY <1>1, <1>2, <1>4, <2>1, Zenon DEF VictimOK, Moved, Evicting
    <2>2. CASE dial'[d].pc = "mark"
      <3>1. Evictable(t) /\ Lock(t, d)
        BY <1>1, <1>3, <2>2, DialTyped DEF VictimLocked, DialType, DialRecord
      <3>2. resumeMu'[t] = d
        BY <1>1, <3>1, LockMoves, Zenon
      <3>3. \A x \in Dials : dial[x].ep = t => dial[x].pc \notin InFlight
        BY <3>1, Zenon DEF Evictable, liveFlows, dialsInFlight
      <3>4. /\ t \notin torndown /\ (t \in started \/ t \in idleAsleep)
            /\ UNCHANGED <<unstarted, started, idleAsleep, torndown, gone, device, suspended, built, slots>>
        BY <3>1, Zenon DEF Evictable, VictimLocked, flags, devices, budget
      <3>5. Settled(t) /\ t \notin gone /\ t \notin unstarted
        BY <1>3, <3>4, Zenon DEF EndpointOK
      <3>6. \A x \in Dials : dial'[x].ep = t => dial'[x].pc \notin {"ready", "use"}
        BY <1>4, <3>3, Zenon DEF Moved, Others, InFlight
      <3> QED
        BY <1>1, <1>2, <1>3, <1>4, <2>2, <3>2, <3>4, <3>5, <3>6, Zenon DEF VictimOK, Settled,
               Moved
    <2> QED
      BY <1>4, <2>1, <2>2, Zenon DEF Moved
  <1>9. EndpointOK(t)'
    BY <1>1, <1>3, <1>5, Zenon DEF VictimLocked, Free, Evictable, liveFlows, EndpointOK, Settled,
           Lazy, VictimOK, Evicting, flags, devices, budget
  <1>10. UNCHANGED tick /\ tick \in TickRecord
    BY <1>1, Zenon DEF VictimLocked, TypeOK, TickRecord
  <1> QED
    BY <1>3, <1>4, <1>6, <1>7, <1>8, <1>9, <1>10, LocalStep, BudgetAssumption DEF Moved, Others

(* MarkVictim keeps the invariant. *)
LEMMA MarkVictimKeeps ==
    ASSUME IInv, NEW d \in Dials, MarkVictim(d), UNCHANGED wg
    PROVE  IInv'
  <1>1. TypeOK /\ OwnOK(d) /\ VictimOK(d) /\ dial[d].pc = "mark"
    BY Zenon DEF MarkVictim, IInv
  <1>2. dial[d].victim \in Endpoints /\ resumeMu[dial[d].victim] = d /\ dial[d].victim # dial[d].ep
    BY <1>1, Zenon DEF VictimOK, AtVictim, Evicting
  <1>3. PICK t \in Endpoints : t = dial[d].victim /\ resumeMu[t] = d /\ EndpointOK(t)
    BY <1>2, Zenon DEF IInv
  <1>4. Moved(d, "recheck")
    BY <1>1, GoMoves, Zenon DEF MarkVictim, Pcs, InFlight, Rebuilding, Requesting
  <1>6. Local(t) /\ Minor
    BY <1>1, <1>3, Zenon DEF MarkVictim, TypeOK, Local, Minor, devices, budget
  <1>7. OwnOK(d)'
    BY <1>1, <1>2, <1>3, <1>4, <1>6, Zenon DEF OwnOK, Moved, Local, InFlight, Rebuilding,
           Requesting, Building
  <1>8. VictimOK(d)'
    BY <1>1, <1>2, <1>4, Zenon DEF MarkVictim, VictimOK, Settled, Moved, Others, devices, budget,
           Evicting
  <1>9. EndpointOK(t)'
    BY <1>3, BudgetAssumption, Zenon DEF MarkVictim, EndpointOK, flags, devices, budget
  <1>10. UNCHANGED tick /\ tick \in TickRecord
    BY <1>1, Zenon DEF MarkVictim, TypeOK, TickRecord
  <1> QED
    BY <1>3, <1>4, <1>6, <1>7, <1>8, <1>9, <1>10, LocalStep, BudgetAssumption DEF Moved, Others

(* SpareVictim keeps the invariant. *)
LEMMA SpareVictimKeeps ==
    ASSUME IInv, NEW d \in Dials, SpareVictim(d), UNCHANGED wg
    PROVE  IInv'
  <1>1. TypeOK /\ OwnOK(d) /\ VictimOK(d) /\ dial[d].pc = "recheck"
    BY Zenon DEF SpareVictim, IInv
  <1>2. dial[d].victim \in Endpoints /\ resumeMu[dial[d].victim] = d /\ dial[d].victim # dial[d].ep
    BY <1>1, Zenon DEF VictimOK, AtVictim, Evicting
  <1>3. PICK t \in Endpoints : t = dial[d].victim /\ resumeMu[t] = d /\ EndpointOK(t)
    BY <1>2, Zenon DEF IInv
  <1>4. Moved(d, "settle")
    <2>1. dial' = [dial EXCEPT ![d].pc = "settle", ![d].verdict = "refused"]
      BY Zenon DEF SpareVictim
    <2> DEFINE r == [dial[d] EXCEPT !.pc = "settle", !.verdict = "refused"]
    <2>2. dial[d] \in DialRecord
      BY <1>1, DialTyped, Zenon DEF DialType
    <2>3. r \in DialRecord
      BY <2>1, <2>2, Zenon DEF DialRecord, Pcs, InFlight, Rebuilding, Requesting
    <2>4. dial' = [dial EXCEPT ![d] = r]
      BY <2>1, Zenon
    <2>5. r.pc = "settle" /\ r.ep = dial[d].ep /\ r.cand = dial[d].cand /\ r.victim = dial[d].victim
      BY <2>2, Zenon DEF DialRecord
    <2> HIDE DEF r
    <2> QED
      BY <1>1, <2>1, <2>3, <2>4, <2>5, RecordChanges, Zenon DEF Moved
  <1>5. /\ resumeMu' \in [Endpoints -> Dials \cup {Tick, Nobody}]
        /\ \A e \in Endpoints : e # t => resumeMu'[e] = resumeMu[e]
        /\ resumeMu'[t] = Nobody
    BY <1>1, <1>3, LockMoves, Zenon DEF SpareVictim, Unlock
  <1>6. Local(t) /\ Minor
    BY <1>1, <1>3, <1>5, Zenon DEF SpareVictim, TypeOK, Local, Minor, devices, budget
  <1>7. OwnOK(d)'
    BY <1>1, <1>2, <1>3, <1>4, <1>6, Zenon DEF OwnOK, Moved, Local, InFlight, Rebuilding,
           Requesting, Building
  <1>8. VictimOK(d)'
    BY <1>1, <1>2, <1>3, <1>4, <1>5, Zenon DEF SpareVictim, VictimOK, EndpointOK, Settled, Moved,
           Others, flags, devices, budget, AtVictim, Evicting
  <1>9. EndpointOK(t)'
    BY <1>1, <1>3, Zenon DEF SpareVictim, EndpointOK, Settled, Lazy, VictimOK, Evicting, devices,
           budget
  <1>10. UNCHANGED tick /\ tick \in TickRecord
    BY <1>1, Zenon DEF SpareVictim, TypeOK, TickRecord
  <1> QED
    BY <1>3, <1>4, <1>6, <1>7, <1>8, <1>9, <1>10, LocalStep, BudgetAssumption DEF Moved, Others

(* TearVictim keeps the invariant. *)
LEMMA TearVictimKeeps ==
    ASSUME IInv, NEW d \in Dials, TearVictim(d), UNCHANGED wg
    PROVE  IInv'
  <1>1. TypeOK /\ OwnOK(d) /\ VictimOK(d) /\ dial[d].pc = "recheck"
    BY Zenon DEF TearVictim, IInv
  <1>2. dial[d].victim \in Endpoints /\ resumeMu[dial[d].victim] = d /\ dial[d].victim # dial[d].ep
    BY <1>1, Zenon DEF VictimOK, AtVictim, Evicting
  <1>3. PICK t \in Endpoints : t = dial[d].victim /\ resumeMu[t] = d /\ EndpointOK(t)
    BY <1>2, Zenon DEF IInv
  <1>4. Moved(d, "release")
    BY <1>1, GoMoves, Zenon DEF TearVictim, Pcs, InFlight, Rebuilding, Requesting
  <1>6. Local(t) /\ Minor
    BY <1>1, <1>3, Zenon DEF TearVictim, Teardown, TypeOK, Local, Minor, flags, budget
  <1>7. OwnOK(d)'
    BY <1>1, <1>2, <1>3, <1>4, <1>6, Zenon DEF OwnOK, Moved, Local, InFlight, Rebuilding,
           Requesting, Building
  <1>8. VictimOK(d)'
    BY <1>1, <1>2, <1>4, Zenon DEF TearVictim, Teardown, VictimOK, Moved, flags, budget, Evicting
  <1>9. EndpointOK(t)'
    BY <1>3, BudgetAssumption, Zenon DEF TearVictim, Teardown, EndpointOK, Evicting, budget
  <1>10. UNCHANGED tick /\ tick \in TickRecord
    BY <1>1, Zenon DEF TearVictim, TypeOK, TickRecord
  <1> QED
    BY <1>3, <1>4, <1>6, <1>7, <1>8, <1>9, <1>10, LocalStep, BudgetAssumption DEF Moved, Others

(* ReleaseVictim keeps the invariant. *)
LEMMA ReleaseVictimKeeps ==
    ASSUME IInv, NEW d \in Dials, ReleaseVictim(d), UNCHANGED wg
    PROVE  IInv'
  <1>1. TypeOK /\ OwnOK(d) /\ VictimOK(d) /\ dial[d].pc = "release"
    BY Zenon DEF ReleaseVictim, IInv
  <1>2. dial[d].victim \in Endpoints /\ resumeMu[dial[d].victim] = d /\ dial[d].victim # dial[d].ep
    BY <1>1, Zenon DEF VictimOK, AtVictim, Evicting
  <1>3. PICK t \in Endpoints : t = dial[d].victim /\ resumeMu[t] = d /\ EndpointOK(t)
    BY <1>2, Zenon DEF IInv
  <1>4. Moved(d, "settle")
    <2>1. dial' = [dial EXCEPT ![d].pc = "settle", ![d].verdict = "done"]
      BY Zenon DEF ReleaseVictim
    <2> DEFINE r == [dial[d] EXCEPT !.pc = "settle", !.verdict = "done"]
    <2>2. dial[d] \in DialRecord
      BY <1>1, DialTyped, Zenon DEF DialType
    <2>3. r \in DialRecord
      BY <2>1, <2>2, Zenon DEF DialRecord, Pcs, InFlight, Rebuilding, Requesting
    <2>4. dial' = [dial EXCEPT ![d] = r]
      BY <2>1, Zenon
    <2>5. r.pc = "settle" /\ r.ep = dial[d].ep /\ r.cand = dial[d].cand /\ r.victim = dial[d].victim
      BY <2>2, Zenon DEF DialRecord
    <2> HIDE DEF r
    <2> QED
      BY <1>1, <2>1, <2>3, <2>4, <2>5, RecordChanges, Zenon DEF Moved
  <1>5. /\ resumeMu' \in [Endpoints -> Dials \cup {Tick, Nobody}]
        /\ \A e \in Endpoints : e # t => resumeMu'[e] = resumeMu[e]
        /\ resumeMu'[t] = Nobody
    BY <1>1, <1>3, LockMoves, Zenon DEF ReleaseVictim, Unlock
  <1>6. Local(t) /\ Minor
    BY <1>1, <1>3, <1>5, Zenon DEF ReleaseVictim, Release, TypeOK, Local, Minor, flags, devices
  <1>7. OwnOK(d)'
    BY <1>1, <1>2, <1>3, <1>4, <1>6, Zenon DEF OwnOK, Moved, Local, InFlight, Rebuilding,
           Requesting, Building
  <1>8. VictimOK(d)'
    BY <1>1, <1>2, <1>4, Zenon DEF VictimOK, Settled, Moved, Evicting
  <1>9. EndpointOK(t)'
    BY <1>1, <1>3, Zenon DEF ReleaseVictim, Release, EndpointOK, Settled, Lazy, VictimOK, flags,
           devices
  <1>10. UNCHANGED tick /\ tick \in TickRecord
    BY <1>1, Zenon DEF ReleaseVictim, TypeOK, TickRecord
  <1> QED
    BY <1>3, <1>4, <1>6, <1>7, <1>8, <1>9, <1>10, LocalStep, BudgetAssumption DEF Moved, Others

(* Settle keeps the invariant. *)
LEMMA SettleKeeps ==
    ASSUME IInv, NEW d \in Dials, Settle(d), UNCHANGED wg
    PROVE  IInv'
  <1>1. TypeOK /\ OwnOK(d) /\ VictimOK(d) /\ dial[d].pc = "settle"
    BY Zenon DEF Settle, IInv
  <1>2. /\ Others(d) /\ dial'[d].pc \in {"top", "pick"}
        /\ dial'[d].ep = dial[d].ep /\ dial'[d].cand = dial[d].cand
    <2>1. PICK p \in {"top", "pick"} :
            dial' = [dial EXCEPT ![d].pc = p, ![d].victim = Nobody, ![d].verdict = "none"]
      BY Zenon DEF Settle
    <2> DEFINE r == [dial[d] EXCEPT !.pc = p, !.victim = Nobody, !.verdict = "none"]
    <2>2. dial[d] \in DialRecord
      BY <1>1, DialTyped, Zenon DEF DialType
    <2>3. r \in DialRecord
      BY <2>1, <2>2, Zenon DEF DialRecord, Pcs, InFlight, Rebuilding, Requesting
    <2>4. dial' = [dial EXCEPT ![d] = r]
      BY <2>1, Zenon
    <2>5. r.pc = p /\ r.ep = dial[d].ep /\ r.cand = dial[d].cand
      OBVIOUS
    <2> HIDE DEF r
    <2> QED
      BY <1>1, <2>1, <2>3, <2>4, <2>5, RecordChanges, Zenon
  <1>3. UNCHANGED state
    BY Zenon DEF Settle, state, flags, devices, budget
  <1>4. Minor
    BY <1>1, Zenon DEF Settle, TypeOK, Minor, flags, devices
  <1>5. OwnOK(d)'
    BY <1>1, <1>2, <1>3, Zenon DEF OwnOK, state, InFlight, Rebuilding, Requesting, Building
  <1>6. VictimOK(d)'
    BY <1>1, <1>2, Zenon DEF VictimOK, AtVictim, Evicting
  <1> QED
    BY <1>1, <1>2, <1>3, <1>4, <1>5, <1>6, RecordStep, Zenon DEF Others

(* Rebuild keeps the invariant. *)
LEMMA RebuildKeeps ==
    ASSUME IInv, NEW d \in Dials, Rebuild(d), UNCHANGED wg
    PROVE  IInv'
  <1>1. TypeOK /\ OwnOK(d) /\ VictimOK(d) /\ dial[d].pc = "rebuild"
    BY Zenon DEF Rebuild, IInv
  <1>2. dial[d].ep \in Endpoints /\ resumeMu[dial[d].ep] = d
    BY <1>1, Zenon DEF OwnOK, InFlight, Rebuilding, Requesting
  <1>3. PICK t \in Endpoints : t = dial[d].ep /\ resumeMu[t] = d /\ EndpointOK(t)
    BY <1>2, Zenon DEF IInv
  <1>4. Moved(d, "register")
    BY <1>1, GoMoves, Zenon DEF Rebuild, Pcs, InFlight, Rebuilding, Requesting
  <1>6. Local(t) /\ Minor
    BY <1>1, <1>3, Zenon DEF Rebuild, RebuildDevice, TypeOK, Local, Minor, flags, budget
  <1>7. OwnOK(d)'
    BY <1>1, <1>3, <1>4, Zenon DEF Rebuild, RebuildDevice, OwnOK, Moved, flags, budget, Rebuilding, Requesting,
           Building
  <1>8. VictimOK(d)'
    BY <1>1, <1>4, Zenon DEF VictimOK, Moved, AtVictim, Evicting
  <1>9. EndpointOK(t)'
    BY <1>1, <1>3, Zenon DEF Rebuild, RebuildDevice, EndpointOK, Settled, OwnOK, Building, budget
  <1>10. UNCHANGED tick /\ tick \in TickRecord
    BY <1>1, Zenon DEF Rebuild, TypeOK, TickRecord
  <1> QED
    BY <1>3, <1>4, <1>6, <1>7, <1>8, <1>9, <1>10, LocalStep, BudgetAssumption DEF Moved, Others

(* Rebuilt keeps the invariant. *)
LEMMA RebuiltKeeps ==
    ASSUME IInv, NEW d \in Dials, Rebuilt(d), UNCHANGED wg
    PROVE  IInv'
  <1>1. TypeOK /\ OwnOK(d) /\ VictimOK(d) /\ dial[d].pc = "register"
    BY Zenon DEF Rebuilt, IInv
  <1>2. dial[d].ep \in Endpoints /\ resumeMu[dial[d].ep] = d
    BY <1>1, Zenon DEF OwnOK, InFlight, Rebuilding, Requesting
  <1>3. PICK t \in Endpoints : t = dial[d].ep /\ resumeMu[t] = d /\ EndpointOK(t)
    BY <1>2, Zenon DEF IInv
  <1>4. Moved(d, "use")
    BY <1>1, GoMoves, Zenon DEF Rebuilt, Pcs, InFlight
  <1>5. /\ resumeMu' \in [Endpoints -> Dials \cup {Tick, Nobody}]
        /\ \A e \in Endpoints : e # t => resumeMu'[e] = resumeMu[e]
        /\ resumeMu'[t] = Nobody
    BY <1>1, <1>3, LockMoves, Zenon DEF Rebuilt, Unlock
  <1>6. Local(t) /\ Minor
    BY <1>1, <1>3, <1>5, Zenon DEF Rebuilt, Register, TypeOK, Local, Minor, flags, devices
  <1>7. OwnOK(d)'
    BY <1>3, <1>4, Zenon DEF OwnOK, Moved, Settled, flags, devices, Rebuilding, Requesting,
           Building
  <1>8. VictimOK(d)'
    BY <1>1, <1>4, Zenon DEF VictimOK, Moved, AtVictim, Evicting
  <1>9. EndpointOK(t)'
    BY <1>1, <1>3, Zenon DEF Rebuilt, Register, EndpointOK, Settled, OwnOK, Rebuilding, devices,
           budget
  <1>10. UNCHANGED tick /\ tick \in TickRecord
    BY <1>1, Zenon DEF Rebuilt, TypeOK, TickRecord
  <1> QED
    BY <1>3, <1>4, <1>6, <1>7, <1>8, <1>9, <1>10, LocalStep, BudgetAssumption DEF Moved, Others

(* rebuildFailed keeps the invariant. *)
LEMMA rebuildFailedKeeps ==
    ASSUME IInv, NEW d \in Dials, rebuildFailed(d), UNCHANGED wg
    PROVE  IInv'
  <1>1. TypeOK /\ OwnOK(d) /\ VictimOK(d) /\ dial[d].pc \in {"rebuild", "register"}
    BY Zenon DEF rebuildFailed, IInv
  <1>2. dial[d].ep \in Endpoints /\ resumeMu[dial[d].ep] = d
    BY <1>1, Zenon DEF OwnOK, InFlight, Rebuilding
  <1>3. PICK t \in Endpoints : t = dial[d].ep /\ resumeMu[t] = d /\ EndpointOK(t)
    BY <1>2, Zenon DEF IInv
  <1>4. Moved(d, "rollback")
    BY <1>1, GoMoves, Zenon DEF rebuildFailed, Pcs, InFlight, Rebuilding, Requesting
  <1>6. Local(t) /\ Minor
    BY <1>1, <1>3, Zenon DEF rebuildFailed, Teardown, TypeOK, Local, Minor, flags, budget
  <1>7. OwnOK(d)'
    BY <1>1, <1>3, <1>4, Zenon DEF rebuildFailed, Teardown, OwnOK, Moved, Others, Settled, flags,
           budget, Rebuilding, Requesting, Building
  <1>8. VictimOK(d)'
    BY <1>1, <1>4, Zenon DEF VictimOK, Moved, AtVictim, Evicting
  <1>9. EndpointOK(t)'
    BY <1>1, <1>3, Zenon DEF rebuildFailed, Teardown, EndpointOK, Settled, OwnOK, Rebuilding,
           Building, flags, budget
  <1>10. UNCHANGED tick /\ tick \in TickRecord
    BY <1>1, Zenon DEF rebuildFailed, TypeOK, TickRecord
  <1> QED
    BY <1>3, <1>4, <1>6, <1>7, <1>8, <1>9, <1>10, LocalStep, BudgetAssumption DEF Moved, Others

(* Rollback keeps the invariant. *)
LEMMA RollbackKeeps ==
    ASSUME IInv, NEW d \in Dials, Rollback(d), UNCHANGED wg
    PROVE  IInv'
  <1>1. TypeOK /\ OwnOK(d) /\ VictimOK(d) /\ dial[d].pc = "rollback"
    BY Zenon DEF Rollback, IInv
  <1>2. dial[d].ep \in Endpoints /\ resumeMu[dial[d].ep] = d
    BY <1>1, Zenon DEF OwnOK, InFlight, Rebuilding, Requesting
  <1>3. PICK t \in Endpoints : t = dial[d].ep /\ resumeMu[t] = d /\ EndpointOK(t)
    BY <1>2, Zenon DEF IInv
  <1>4. Reset(d, Nobody, "done")
    BY <1>1, DoneResets, Zenon DEF Rollback, Refuse
  <1>5. /\ resumeMu' \in [Endpoints -> Dials \cup {Tick, Nobody}]
        /\ \A e \in Endpoints : e # t => resumeMu'[e] = resumeMu[e]
        /\ resumeMu'[t] = Nobody
    BY <1>1, <1>3, LockMoves, Zenon DEF Rollback, Refuse, Unlock
  <1>6. Local(t) /\ Minor
    BY <1>1, <1>3, <1>5, Zenon DEF Rollback, Release, TypeOK, Local, Minor, flags, devices
  <1>7. OwnOK(d)'
    BY <1>4, Zenon DEF OwnOK, Reset, InFlight, Rebuilding, Requesting, Building
  <1>8. VictimOK(d)'
    BY <1>4, Zenon DEF VictimOK, Reset, AtVictim, Evicting
  <1>9. EndpointOK(t)'
    BY <1>1, <1>3, <1>5, Zenon DEF Rollback, Release, Refuse, EndpointOK, Settled, OwnOK,
           Rebuilding, flags, devices
  <1>10. UNCHANGED tick /\ tick \in TickRecord
    BY <1>1, Zenon DEF Rollback, TypeOK, TickRecord
  <1> QED
    BY <1>3, <1>4, <1>6, <1>7, <1>8, <1>9, <1>10, LocalStep, BudgetAssumption DEF Reset, Others
=============================================================================
