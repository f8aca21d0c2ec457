---------------------------- MODULE UrlTestPick ----------------------------
(***************************************************************************)
(* How a connection picks its slot of the round_robin pool                 *)
(* (src/protocol/group/urltest_balance_lx.go, pick and liveSlot).  A pick  *)
(* takes a snapshot of the slots under the balancer's lock, and only then  *)
(* takes its turn and asks for the health of one slot at a time, while     *)
(* probes change the health of the nodes and a health check republishes    *)
(* the slots (UrlTestPool).                                                *)
(*                                                                         *)
(* The snapshot, the turn and every reading of a slot's health are steps   *)
(* of their own.  The health check is any change of the slots and of the   *)
(* set of nodes with history.  The sticky key is reduced to its hash.  A   *)
(* node that does not support the network of the connection is replaced by *)
(* Select's choice after the pick, which changes no state of the balancer  *)
(* and is left out.                                                        *)
(***************************************************************************)
EXTENDS Integers, Sequences, FiniteSets

CONSTANTS
    Nodes,           \* tags of the members; one without history counts as dead
    Size,            \* number of slots
    Hashes,          \* hash values of connections' keys
    CounterModulus,  \* width of the rotation counter (2^64 in the code)
    Picks            \* identities of concurrent connections

ASSUME SizeAssumption == Size \in Nat \ {0} /\ CounterModulus \in Nat \ {0}
ASSUME HashAssumption == Hashes \subseteq Nat

Pools == {s \in [1..Size -> Nodes] : \A i, j \in 1..Size : s[i] = s[j] => i = j}

VARIABLES
    sticky,         \* is a sticky hash configured
    published,      \* has a health check filled the pool
    slots,          \* the published pool, of no meaning before
    history,        \* nodes that have URL test history: their last probe answered
    counter,        \* rotation counter
    pc, snap,       \* each pick: its point, its snapshot of the slots
    home, k,        \*   its first slot, and the rest of the hash or the rotation step
    i, live,        \*   the slot liveSlot has come to, and the live ones it has counted
    up,             \* history: slots of the snapshot up since the turn
    stable,         \*   whether none of them has gone up or down
    counts, load    \*   will the pick count for the load of the slots, and that load

pickVars == <<pc, snap, home, k, i, live>>
watchVars == <<up, stable, counts, load>>
vars == <<sticky, published, slots, history, counter, pickVars, watchVars>>

TypeOK ==
    /\ sticky \in BOOLEAN /\ published \in BOOLEAN
    /\ slots \in [1..Size -> Nodes] /\ history \in SUBSET Nodes
    /\ counter \in 0..(CounterModulus - 1)
    /\ pc \in [Picks -> {"idle", "fallback", "turn", "home", "count", "choose", "done"}]
    /\ snap \in [Picks -> [1..Size -> Nodes] \cup {<<>>}]
    /\ home \in [Picks -> 1..Size]
    /\ k \in [Picks -> Nat]
    /\ i \in [Picks -> 1..(Size + 1)] /\ \A p \in Picks : pc[p] = "done" => i[p] <= Size
    /\ live \in [Picks -> 0..Size]
    /\ up \in [Picks -> SUBSET (1..Size)]
    /\ stable \in [Picks -> BOOLEAN] /\ counts \in [Picks -> BOOLEAN]
    /\ load \in [1..Size -> Nat]

Init ==
    /\ sticky \in BOOLEAN /\ published = FALSE
    /\ slots \in Pools /\ history \in SUBSET Nodes
    /\ counter = 0
    /\ pc = [p \in Picks |-> "idle"]
    /\ snap = [p \in Picks |-> <<>>]
    /\ home = [p \in Picks |-> 1] /\ k = [p \in Picks |-> 0]
    /\ i = [p \in Picks |-> 1] /\ live = [p \in Picks |-> 0]
    /\ up = [p \in Picks |-> {}]
    /\ stable = [p \in Picks |-> FALSE] /\ counts = [p \in Picks |-> FALSE]
    /\ load = [j \in 1..Size |-> 0]

-----------------------------------------------------------------------------
Up(tags, h) == {j \in 1..Size : tags[j] \in h}

(* A pick reads the health of slots, from its turn to its end.               *)
Running(p) == pc[p] \in {"home", "count", "choose"}

(* The pool or the history changes: what the running picks remember of it.   *)
(* Without a sticky hash a pick that saw a slot go up or down has no use for *)
(* the others.                                                               *)
Watch ==
    LET calm == slots' = slots /\ Up(slots, history') = Up(slots, history)
    IN  /\ load' = IF calm THEN load ELSE [j \in 1..Size |-> 0]
        /\ counts' = [p \in Picks |-> counts[p] /\ calm]
        /\ stable' = [p \in Picks |-> /\ stable[p]
                                      /\ Running(p) => Up(snap[p], history') = Up(snap[p], history)]
        /\ up' = [p \in Picks |->
                     IF Running(p) THEN {j \in up[p] \cap Up(snap[p], history') : sticky \/ stable'[p]}
                     ELSE up[p]]

(* A probe, a manual test or another group writes or deletes the history.    *)
HistoryChanges(n) ==
    /\ history' = IF n \in history THEN history \ {n} ELSE history \cup {n}
    /\ UNCHANGED <<published, slots, counter, pickVars>>
    /\ Watch

(* A health check publishes a pool.                                          *)
setSlots(s) ==
    /\ slots' = s /\ published' = TRUE
    /\ UNCHANGED <<history, counter, pickVars>>
    /\ Watch

-----------------------------------------------------------------------------
(* A mutant: a probe connection takes a turn. *)
rotate_probesToo(probe) == counter' = (counter + 1) % CounterModulus

(* A probe connection reads the rotation counter and does not advance it.    *)
rotate(probe) == counter' = IF probe THEN counter ELSE (counter + 1) % CounterModulus

(* Before the first health check the pool is empty, and the connection goes  *)
(* to the fallback.                                                          *)
FallsBack(p) ==
    /\ pc[p] = "idle" /\ ~published
    /\ pc' = [pc EXCEPT ![p] = "fallback"]
    /\ UNCHANGED <<published, slots, history, counter, snap, home, k, i, live, watchVars>>

(* The snapshot, under the balancer's lock.                                  *)
PickBegins(p) ==
    /\ pc[p] = "idle" /\ published
    /\ pc' = [pc EXCEPT ![p] = "turn"]
    /\ snap' = [snap EXCEPT ![p] = slots]
    /\ UNCHANGED <<published, slots, history, counter, home, k, i, live, watchVars>>

(* The turns go on in order unless the counter goes back to zero or a pick   *)
(* that began on an older pool takes one of them.                            *)
InOrder(p) == snap[p] = slots /\ counter < CounterModulus - 1

(* A mutant: every key is spread over the live slots. *)
TakeTurn_anyLive(p, hash, probe) ==
    LET step == IF sticky THEN hash ELSE counter
        turn == ~sticky /\ ~probe
    IN  /\ pc[p] = "turn"
        /\ IF sticky THEN UNCHANGED counter ELSE rotate(probe)
        /\ pc' = [pc EXCEPT ![p] = "count"]
        /\ home' = [home EXCEPT ![p] = 1 + (step % Size)]
        /\ k' = [k EXCEPT ![p] = IF sticky THEN hash \div Size ELSE counter]
        /\ i' = [i EXCEPT ![p] = 1]
        /\ live' = [live EXCEPT ![p] = 0]
        /\ up' = [up EXCEPT ![p] = Up(snap[p], history)]
        /\ stable' = [stable EXCEPT ![p] = TRUE]
        /\ counts' = [q \in Picks |-> IF q = p THEN turn /\ InOrder(p)
                                     ELSE counts[q] /\ (turn => InOrder(p))]
        /\ load' = IF turn => InOrder(p) THEN load ELSE [j \in 1..Size |-> 0]
        /\ UNCHANGED <<published, slots, history, snap>>

(* The slot of the key, or the next turn of the rotation.  A turn out of     *)
(* order begins the count of the load again.                                 *)
TakeTurn(p, hash, probe) ==
    LET step == IF sticky THEN hash ELSE counter
        turn == ~sticky /\ ~probe
    IN  /\ pc[p] = "turn"
        /\ IF sticky THEN UNCHANGED counter ELSE rotate(probe)
        /\ pc' = [pc EXCEPT ![p] = IF sticky THEN "home" ELSE "count"]
        /\ home' = [home EXCEPT ![p] = 1 + (step % Size)]
        /\ k' = [k EXCEPT ![p] = IF sticky THEN hash \div Size ELSE counter]
        /\ i' = [i EXCEPT ![p] = 1]
        /\ live' = [live EXCEPT ![p] = 0]
        /\ up' = [up EXCEPT ![p] = Up(snap[p], history)]
        /\ stable' = [stable EXCEPT ![p] = TRUE]
        /\ counts' = [q \in Picks |-> IF q = p THEN turn /\ InOrder(p)
                                     ELSE counts[q] /\ (turn => InOrder(p))]
        /\ load' = IF turn => InOrder(p) THEN load ELSE [j \in 1..Size |-> 0]
        /\ UNCHANGED <<published, slots, history, snap>>

(* slotAlive of slot j of the pick's snapshot.                               *)
slotAlive(p, j) == snap[p][j] \in history

Least(S) == CHOOSE m \in S : \A n \in S : m <= n

(* The pick ends with slot j and forgets its locals.  Of the load only the   *)
(* differences are kept.                                                     *)
Choose(p, j) ==
    LET more == [load EXCEPT ![j] = @ + 1]
        least == Least({more[n] : n \in Up(slots, history)})
    IN  /\ pc' = [pc EXCEPT ![p] = "done"]
        /\ i' = [i EXCEPT ![p] = j]
        /\ snap' = [snap EXCEPT ![p] = <<>>]
        /\ k' = [k EXCEPT ![p] = 0] /\ live' = [live EXCEPT ![p] = 0]
        /\ counts' = [counts EXCEPT ![p] = FALSE]
        /\ load' = IF counts[p] /\ j \in Up(slots, history)
                     THEN [n \in 1..Size |-> IF more[n] > least THEN more[n] - least ELSE 0]
                     ELSE load
        /\ UNCHANGED <<published, slots, history, counter, home, up, stable>>

(* The slot of the key, if its node is alive.                                *)
PickHome(p) ==
    /\ pc[p] = "home" /\ slotAlive(p, home[p])
    /\ Choose(p, home[p])

HomeIsDead(p) ==
    /\ pc[p] = "home" /\ ~slotAlive(p, home[p])
    /\ pc' = [pc EXCEPT ![p] = "count"]
    /\ UNCHANGED <<published, slots, history, counter, snap, home, k, i, live, watchVars>>

(* liveSlot, first pass: how many slots are live.                            *)
CountSlot(p) ==
    /\ pc[p] = "count" /\ i[p] <= Size
    /\ live' = [live EXCEPT ![p] = IF slotAlive(p, i[p]) THEN @ + 1 ELSE @]
    /\ i' = [i EXCEPT ![p] = @ + 1]
    /\ UNCHANGED <<published, slots, history, counter, pc, snap, home, k, watchVars>>

(* With no slot live the pick keeps its first one.                           *)
NoneLive(p) ==
    /\ pc[p] = "count" /\ i[p] > Size /\ live[p] = 0
    /\ Choose(p, home[p])

(* A mutant: the step is taken modulo all the slots. *)
SomeLive_ofAllSlots(p) ==
    /\ pc[p] = "count" /\ i[p] > Size /\ live[p] > 0
    /\ pc' = [pc EXCEPT ![p] = "choose"]
    /\ i' = [i EXCEPT ![p] = 1]
    /\ k' = [k EXCEPT ![p] = @ % Size] /\ live' = [live EXCEPT ![p] = 0]
    /\ UNCHANGED <<published, slots, history, counter, snap, home, watchVars>>

SomeLive(p) ==
    /\ pc[p] = "count" /\ i[p] > Size /\ live[p] > 0
    /\ pc' = [pc EXCEPT ![p] = "choose"]
    /\ i' = [i EXCEPT ![p] = 1]
    /\ k' = [k EXCEPT ![p] = @ % live[p]] /\ live' = [live EXCEPT ![p] = 0]
    /\ UNCHANGED <<published, slots, history, counter, snap, home, watchVars>>

(* liveSlot, second pass: the k-th live slot.                                *)
TakeSlot(p) ==
    /\ pc[p] = "choose" /\ i[p] <= Size /\ slotAlive(p, i[p]) /\ k[p] = 0
    /\ Choose(p, i[p])

SkipLive(p) ==
    /\ pc[p] = "choose" /\ i[p] <= Size /\ slotAlive(p, i[p]) /\ k[p] > 0
    /\ k' = [k EXCEPT ![p] = @ - 1]
    /\ i' = [i EXCEPT ![p] = @ + 1]
    /\ UNCHANGED <<published, slots, history, counter, pc, snap, home, live, watchVars>>

SkipDead(p) ==
    /\ pc[p] = "choose" /\ i[p] <= Size /\ ~slotAlive(p, i[p])
    /\ i' = [i EXCEPT ![p] = @ + 1]
    /\ UNCHANGED <<published, slots, history, counter, pc, snap, home, k, live, watchVars>>

(* The live set changed between the passes: the pick keeps its first slot.   *)
SlotsChanged(p) ==
    /\ pc[p] = "choose" /\ i[p] > Size
    /\ Choose(p, home[p])

(* The connection is dialled and its pick forgotten.                         *)
PickEnds(p) ==
    /\ pc[p] \in {"fallback", "done"}
    /\ pc' = [pc EXCEPT ![p] = "idle"]
    /\ home' = [home EXCEPT ![p] = 1] /\ i' = [i EXCEPT ![p] = 1]
    /\ up' = [up EXCEPT ![p] = {}]
    /\ stable' = [stable EXCEPT ![p] = FALSE]
    /\ UNCHANGED <<published, slots, history, counter, snap, k, live, counts, load>>

-----------------------------------------------------------------------------
Pick(p) ==
    \/ FallsBack(p) \/ PickBegins(p)
    \/ \E h \in Hashes, probe \in BOOLEAN : TakeTurn(p, h, probe)
    \/ PickHome(p) \/ HomeIsDead(p)
    \/ CountSlot(p) \/ NoneLive(p) \/ SomeLive(p)
    \/ TakeSlot(p) \/ SkipLive(p) \/ SkipDead(p) \/ SlotsChanged(p)
    \/ PickEnds(p)

Next ==
    /\ UNCHANGED sticky
    /\ \/ \E p \in Picks : Pick(p)
       \/ \E n \in Nodes : HistoryChanges(n)
       \/ \E s \in Pools : setSlots(s)

Spec == Init /\ [][Next]_vars

-----------------------------------------------------------------------------
(* A sticky connection goes to the slot of its key if that slot's node was up  *)
(* all the while, whatever happened to the other slots and to the pool.        *)
BoundKeysStay ==
    \A p \in Picks : sticky /\ pc[p] = "done" /\ home[p] \in up[p] => i[p] = home[p]

(* If no slot of its snapshot went up or down during a pick, the connection is *)
(* not sent to a dead slot while there is a live one: the two passes of        *)
(* liveSlot agree.                                                             *)
StablePickIsLive ==
    \A p \in Picks : pc[p] = "done" /\ stable[p] /\ up[p] # {} => i[p] \in up[p]

(* Without a sticky hash the rotation is even: of the connections since the    *)
(* pool or its health last changed no live slot got two more than another,     *)
(* however many run at once, and test connections take nobody's turn.  The     *)
(* count begins again when the counter wraps, and when a connection that still *)
(* holds an older pool takes a turn: the slot it skips in the new pool stays   *)
(* one short.                                                                  *)
EvenRotation ==
    ~sticky /\ (\A p \in Picks : ~counts[p]) =>
        \A m, n \in Up(slots, history) : load[m] <= load[n] + 1
=============================================================================
