---------------------------- MODULE UrlTestPlan ----------------------------
(***************************************************************************)
(* The pure planning of the round_robin pool of an urltest group           *)
(* (src/protocol/group/urltest_balance_lx.go and the planning half of      *)
(* urltest.go): which tag occupies which slot after a round of tests.      *)
(*                                                                         *)
(* A tag is a positive number, so that tags compare, and a pool is the     *)
(* sequence of its slots' tags.  The results of a test, and the history of *)
(* the group's nodes, map a tag to its delay or to Dead.                   *)
(*                                                                         *)
(* Every placement is a pass over the slots that hands each of them the    *)
(* best tag on offer for it that no slot has yet.                          *)
(***************************************************************************)
EXTENDS Integers, Sequences, FiniteSets

Empty == 0      \* the tag "" of a slot nobody occupies
Dead == -1      \* no delay: not tested, or the test failed

Alive(results) == {tag \in DOMAIN results : results[tag] # Dead}

Tags(slots) == {slots[i] : i \in DOMAIN slots}

Occupants(slots) == Tags(slots) \ {Empty}

(* The rank of a tag in an order, in which it occurs once. *)
Position(order) == [tag \in Occupants(order) |-> CHOOSE i \in DOMAIN order : order[i] = tag]

(* The first n tags of S in that order. *)
FirstFew(S, n, order) ==
    {tag \in S : Cardinality({t \in S : Position(order)[t] < Position(order)[tag]}) < n}

(* The tag of S with the least rank (its delay, or its position), the tag    *)
(* itself breaking ties.                                                     *)
Best(S, rank) ==
    CHOOSE a \in S : \A b \in S : rank[a] < rank[b] \/ (rank[a] = rank[b] /\ a <= b)

(* A mutant: the tag is placed and not marked as used. *)
Put_unmarked(plan, i, tags, rank) ==
    LET free == tags \ plan.used
    IN  IF free = {} THEN plan ELSE [plan EXCEPT !.next = [@ EXCEPT ![i] = Best(free, rank)]]

(* Slot i of the plan goes to the best of the tags that is not used yet. *)
Put(plan, i, tags, rank) ==
    LET free == tags \ plan.used
    IN  IF free = {} THEN plan
        ELSE [next |-> [plan.next EXCEPT ![i] = Best(free, rank)],
              used |-> plan.used \cup {Best(free, rank)}]

(* One pass over the slots: the plan after each of them.  offer[i] are the   *)
(* tags that slot i may take.                                                *)
Pass(plan, offer, rank) ==
    LET after[i \in 0..Len(plan.next)] ==
            IF i = 0 THEN plan ELSE Put(after[i - 1], i, offer[i], rank)
    IN  after

Passed(plan, offer, rank) == Pass(plan, offer, rank)[Len(plan.next)]

(* The empty slots take the tags, the best one first. *)
FillHoles(plan, tags, rank) ==
    Passed(plan, [i \in DOMAIN plan.next |-> IF plan.next[i] = Empty THEN tags ELSE {}], rank)

PlanFrom(next) == [next |-> next, used |-> Occupants(next)]

Larger(a, b) == IF a > b THEN a ELSE b

(* The slots after a test: a live member keeps its slot, the others are holes. *)
KeepLive(current, live, size) ==
    [i \in 1..Larger(size, Len(current)) |->
        IF i <= Len(current) /\ current[i] \in live THEN current[i] ELSE Empty]

(* A mutant: holes are left open. *)
KeepDead_shrinks(plan, current, live) == plan

(* A mutant: the dead take any hole, not their own slot first. *)
KeepDead_anyHole(plan, current, live) ==
    FillHoles(plan, Occupants(current) \ live, Position(current))

(* Holes left over: a dead member goes back to its own slot if that is open,   *)
(* the others to any hole, so that the pool never shrinks.                     *)
KeepDead(plan, current, live) ==
    LET dead == Occupants(current) \ live
        home == [i \in DOMAIN plan.next |->
                    IF plan.next[i] = Empty /\ i <= Len(current) THEN {current[i]} \cap dead ELSE {}]
    IN  FillHoles(Passed(plan, home, Position(current)), dead, Position(current))

(* Live members stay, the live nodes of fill take the holes from the fastest.  *)
planFirstLivePool(current, results, fill, size) ==
    LET kept == PlanFrom(KeepLive(current, Alive(results), size))
    IN  KeepDead(FillHoles(kept, fill, results), current, Alive(results)).next

slotDelay(tag, results) == IF tag = Empty THEN Dead ELSE results[tag]

(* A mutant: a node faster by the tolerance itself evicts. *)
Rivals_atTolerance(tag, results, tolerance) ==
    LET occupant == slotDelay(tag, results)
    IN  {c \in Alive(results) : occupant = Dead \/ results[c] + tolerance <= occupant}

(* Who may take a slot from its occupant: anyone if it is dead, otherwise the  *)
(* nodes that are faster by more than the tolerance.                           *)
Rivals(tag, results, tolerance) ==
    LET occupant == slotDelay(tag, results)
    IN  {c \in Alive(results) : occupant = Dead \/ results[c] + tolerance < occupant}

(* Empty slots are filled, then each slot goes to its fastest rival.  The      *)
(* occupant that loses it stays used: it does not come back in another slot.   *)
planTolerantPool(current, results, size, tolerance) ==
    LET grown == [i \in 1..Larger(size, Len(current)) |->
                     IF i <= Len(current) THEN current[i] ELSE Empty]
        full == FillHoles(PlanFrom(grown), Alive(results), results)
    IN  Passed(full, [i \in DOMAIN grown |-> Rivals(full.next[i], results, tolerance)], results).next

(* The pool before the first test: members with history from the fastest, then *)
(* the others in the order of the configuration.                               *)
seedPool(outbounds, history, size) ==
    LET none == PlanFrom([i \in 1..size |-> Empty])
        warm == FillHoles(none, Alive(history), history)
    IN  FillHoles(warm, Occupants(outbounds), Position(outbounds)).next
=============================================================================
