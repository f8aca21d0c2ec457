---------------------------- MODULE UrlTestPool ----------------------------
(***************************************************************************)
(* The round_robin pool of an urltest group (src/protocol/group/urltest.go *)
(* and urltest_balance_lx.go): one health check at a time probes nodes,    *)
(* plans who occupies which slot and republishes the pool.                 *)
(*                                                                         *)
(* The answer of each probe and each reading or writing of the slots is a  *)
(* step of its own.  The history is shared with the rest of the process    *)
(* (other groups, manual tests).  Connections only read the slots: see     *)
(* UrlTestPick.  Nodes are leaves: a nested group would be known by the    *)
(* leaf it has selected.                                                   *)
(***************************************************************************)
EXTENDS UrlTestPlan

CONSTANTS Setups    \* groups, and surroundings, the pool is considered in

ASSUME SetupAssumption ==
    \A s \in Setups :
        /\ s.outbounds \in Seq(Nat \ {Empty}) /\ Len(s.outbounds) > 0
        /\ \A i, j \in DOMAIN s.outbounds : s.outbounds[i] = s.outbounds[j] => i = j
        /\ s.pool \in Nat \ {0} /\ s.tolerance \in Nat /\ s.delays \subseteq Nat
        /\ s.early \in BOOLEAN

VARIABLES
    setup,     \* the group and its surroundings
    started,   \* PostStart has run
    closed,    \* Close has cancelled the group's context
    history,   \* URL test history of the members
    slots,     \* the published pool
    check      \* the health check that holds checking, if any

vars == <<setup, started, closed, history, slots, check>>

outbounds == setup.outbounds        \* the members, in the order of the configuration
poolTolerance == setup.tolerance    \* 0: the first live nodes; otherwise the fastest ones
Delays == setup.delays              \* what a probe can measure
EarlyCheck == setup.early           \* may the interface change before the Started stage

Nodes == Tags(outbounds)

poolSize == IF setup.pool > Len(outbounds) THEN Len(outbounds) ELSE setup.pool

NoResult == [n \in Nodes |-> Dead]

NoCheck == [pc |-> "none", force |-> FALSE, cancelled |-> FALSE, current |-> <<>>, next |-> <<>>,
            rest |-> {}, batch |-> {}, todo |-> {}, result |-> NoResult]

TypeOK ==
    /\ setup \in Setups
    /\ started \in BOOLEAN /\ closed \in BOOLEAN
    /\ history \in [Nodes -> Delays \cup {Dead}]
    /\ slots \in Seq(Nodes \cup {Empty}) /\ Len(slots) <= poolSize
    /\ check.pc \in {"none", "test", "plan", "set"} /\ check.force \in BOOLEAN
    /\ check.todo \subseteq Nodes /\ check.result \in [Nodes -> Delays \cup {Dead}]

Init ==
    /\ setup \in Setups
    /\ started = FALSE /\ closed = FALSE
    /\ history \in [Nodes -> Delays \cup {Dead}]
    /\ slots = <<>>
    /\ check = NoCheck

-----------------------------------------------------------------------------
SetHistory(node, delay) ==
    history' = [history EXCEPT ![node] = delay]

(* Another group, a manual test or a failed connection elsewhere writes the  *)
(* shared history.                                                           *)
OtherWriter(node, delay) ==
    /\ SetHistory(node, delay)
    /\ UNCHANGED <<started, closed, slots, check>>

-----------------------------------------------------------------------------
(* Stages of the group. *)

setSlots(tags) == slots' = tags

PostStart ==
    /\ ~started /\ ~closed
    /\ started' = TRUE
    /\ setSlots(seedPool(outbounds, history, poolSize))
    /\ UNCHANGED <<closed, history, check>>

Close ==
    /\ started /\ ~closed
    /\ closed' = TRUE
    /\ UNCHANGED <<started, history, slots, check>>

-----------------------------------------------------------------------------
(* The health check.  checking admits one at a time. *)

Test(c, nodes) == [c EXCEPT !.pc = "test", !.batch = nodes, !.todo = nodes]

(* A tick: with tolerance every node is tested, without it the occupants of  *)
(* the slots.                                                                *)
Tick ==
    /\ started /\ check.pc = "none"
    /\ check' = Test([NoCheck EXCEPT !.current = slots],
                     IF poolTolerance > 0 THEN Nodes ELSE Occupants(slots))
    /\ UNCHANGED <<started, closed, history, slots>>

(* A manual test, or an interface update, tests every node.                  *)
URLTest ==
    /\ started \/ EarlyCheck
    /\ check.pc = "none"
    /\ check' = Test([NoCheck EXCEPT !.force = TRUE], Nodes)
    /\ UNCHANGED <<started, closed, history, slots>>

ProbeAnswers(node, delay) ==
    /\ check.pc = "test" /\ node \in check.todo
    /\ SetHistory(node, delay)
    /\ check' = [check EXCEPT !.todo = @ \ {node}, !.result[node] = delay]
    /\ UNCHANGED <<started, closed, slots>>

(* The caller of a manual test goes away, or the interface changes again.    *)
Cancel ==
    /\ check.pc = "test" /\ check.force /\ ~check.cancelled
    /\ check' = [check EXCEPT !.cancelled = TRUE]
    /\ UNCHANGED <<started, closed, history, slots>>

(* A tick runs on the group's context, which Close cancels.                  *)
Cancelled == IF check.force THEN check.cancelled ELSE closed

(* A failure deletes the history, unless the whole run was cancelled.        *)
ProbeFails(node) ==
    /\ check.pc = "test" /\ node \in check.todo
    /\ IF Cancelled THEN UNCHANGED history ELSE SetHistory(node, Dead)
    /\ check' = [check EXCEPT !.todo = @ \ {node}]
    /\ UNCHANGED <<started, closed, slots>>

LazyTick == ~check.force /\ poolTolerance = 0

(* The occupants of the slots have been tested: the dead leave holes, and if *)
(* there are any the nodes outside the pool are tested a pool at a time.     *)
MembersTested ==
    [check EXCEPT !.next = KeepLive(check.current, Alive(check.result), poolSize),
                  !.rest = Nodes \ Tags(check.current)]

(* A mutant: a batch fills one hole only. *)
BatchTested_firstOnly ==
    LET live == check.batch \cap Alive(check.result)
    IN  [check EXCEPT !.next = FillHoles(PlanFrom(@), FirstFew(live, 1, outbounds), Position(outbounds)).next]

(* The live nodes of a batch take holes in the order of the configuration.   *)
BatchTested ==
    LET live == check.batch \cap Alive(check.result)
    IN  [check EXCEPT !.next = FillHoles(PlanFrom(@), live, Position(outbounds)).next]

NextBatch(c) ==
    IF Empty \in Tags(c.next) /\ c.rest # {}
      THEN LET batch == FirstFew(c.rest, poolSize, outbounds)
           IN  Test([c EXCEPT !.rest = @ \ batch], batch)
      ELSE [c EXCEPT !.pc = "set",
                     !.next = KeepDead(PlanFrom(@), c.current, Alive(c.result)).next]

BatchEnds ==
    /\ check.pc = "test" /\ check.todo = {}
    /\ check' = IF ~LazyTick THEN [check EXCEPT !.pc = "plan"]
                ELSE NextBatch(IF check.next = <<>> THEN MembersTested ELSE BatchTested)
    /\ UNCHANGED <<started, closed, history, slots>>

rebuildPool(current) ==
    IF poolTolerance > 0 THEN planTolerantPool(current, history, poolSize, poolTolerance)
    ELSE planFirstLivePool(current, history, Alive(history) \ Tags(current), poolSize)

balancePoolTolerant(current) ==
    planTolerantPool(current, check.result, poolSize, poolTolerance)

(* The slots are read, the next ones computed, and published later.          *)
Plan ==
    /\ check.pc = "plan"
    /\ check' = [check EXCEPT !.pc = "set", !.current = slots,
                              !.result = IF check.force THEN history ELSE @,
                              !.next = IF check.force THEN rebuildPool(slots)
                                       ELSE balancePoolTolerant(slots)]
    /\ UNCHANGED <<started, closed, history, slots>>

Publish ==
    /\ check.pc = "set"
    /\ setSlots(check.next)
    /\ check' = NoCheck
    /\ UNCHANGED <<started, closed, history>>

-----------------------------------------------------------------------------
Next ==
    /\ UNCHANGED setup
    /\ \/ PostStart \/ Close
       \/ \E n \in Nodes, d \in Delays \cup {Dead} : OtherWriter(n, d)
       \/ Tick \/ URLTest
       \/ \E n \in Nodes, d \in Delays : ProbeAnswers(n, d)
       \/ \E n \in Nodes : ProbeFails(n)
       \/ Cancel \/ BatchEnds \/ Plan \/ Publish

Spec == Init /\ [][Next]_vars

-----------------------------------------------------------------------------
(* No node occupies two slots: every plan places a tag once, though occupants, *)
(* fresh nodes and dead members are placed in separate passes.                 *)
DistinctSlots ==
    \A i, j \in DOMAIN slots : slots[i] = slots[j] /\ slots[i] # Empty => i = j

(* From PostStart on every slot is occupied and there are min(pool, members)   *)
(* of them, whatever dies: setSlots never publishes a hole or a shorter pool.  *)
(* A check that began before PostStart is the exception: it has planned from   *)
(* no pool at all.                                                             *)
SlotsStayFull ==
    started /\ ~EarlyCheck => Len(slots) = poolSize /\ Empty \notin Tags(slots)

Publishing == check.pc = "set" /\ check'.pc = "none"

(* A node the check found alive loses its slot only to a node that is faster   *)
(* by more than the tolerance, and never without a tolerance.                  *)
LiveKeepsSlot ==
    [][ started /\ ~EarlyCheck /\ Publishing => \A i \in DOMAIN slots :
          slots[i] # slots'[i] /\ slots[i] \in Alive(check.result) =>
             /\ poolTolerance > 0
             /\ check.result[slots'[i]] + poolTolerance < check.result[slots[i]] ]_vars

(* A node never moves to another slot, dead or alive: every sticky key bound   *)
(* to its slot would move with it.                                             *)
NoRelocation ==
    [][ started /\ ~EarlyCheck => \A i \in DOMAIN slots, j \in DOMAIN slots' :
          slots[i] = slots'[j] /\ slots[i] # Empty => i = j ]_vars

(* Without a tolerance a check leaves a dead node in a slot only when every    *)
(* node it found alive has a slot too.                                         *)
FullOfLive ==
    [][ poolTolerance = 0 /\ Publishing /\ Tags(slots') \ Alive(check.result) # {} =>
          Alive(check.result) \subseteq Tags(slots') ]_vars
=============================================================================
