------------------------- MODULE UrlTestPickProofs -------------------------
(***************************************************************************)
(* Proofs about UrlTestPick, for any number of nodes, slots, keys and      *)
(* concurrent connections: a live slot keeps its keys, the two passes of   *)
(* liveSlot agree as long as nothing changes under them, and the rotation  *)
(* serves the live slots evenly.                                           *)
(***************************************************************************)
EXTENDS UrlTestPick, FiniteSetTheorems, WellFoundedInduction, TLAPS

USE SMTT(30), ZenonT(20)

(* The types of the variables the theorems are about. *)
Types ==
    /\ slots \in [1..Size -> Nodes] /\ counter \in Nat
    /\ pc \in [Picks -> {"idle", "fallback", "turn", "home", "count", "choose", "done"}]
    /\ snap \in [Picks -> [1..Size -> Nodes] \cup {<<>>}]
    /\ home \in [Picks -> 1..Size]
    /\ k \in [Picks -> Nat]
    /\ i \in [Picks -> 1..(Size + 1)]
    /\ live \in [Picks -> Nat]
    /\ up \in [Picks -> SUBSET (1..Size)]
    /\ stable \in [Picks -> BOOLEAN]

(* What is known of a pick between its steps.  The first pass has counted    *)
(* the live slots behind it, and the second has more live slots ahead than   *)
(* it has still to skip.                                                     *)
Passes(p) ==
    /\ Running(p) => up[p] \subseteq Up(snap[p], history)
    /\ Running(p) /\ stable[p] => up[p] = Up(snap[p], history)
    /\ pc[p] = "home" => i[p] = 1 /\ live[p] = 0
    /\ sticky /\ pc[p] \in {"count", "choose"} => home[p] \notin up[p]
    /\ pc[p] = "count" /\ stable[p] => live[p] = Cardinality(up[p] \cap (1..(i[p] - 1)))
    /\ pc[p] = "choose" /\ stable[p] => k[p] < Cardinality(up[p] \cap (i[p]..Size))
    /\ sticky /\ pc[p] = "done" /\ home[p] \in up[p] => i[p] = home[p]
    /\ pc[p] = "done" /\ stable[p] /\ up[p] # {} => i[p] \in up[p]

IInv == Types /\ \A p \in Picks : Passes(p)

-----------------------------------------------------------------------------
(* Remainder and quotient, as pick uses them for the slot and the rest.      *)
LEMMA Remainder ==
    ASSUME NEW a \in Nat, NEW b \in Nat \ {0}
    PROVE  a % b \in 0..(b - 1) /\ a \div b \in Nat
BY Z3

(* Sets of slots are finite, so they can be counted.                         *)
LEMMA SlotSets ==
    ASSUME NEW S \in SUBSET (1..Size), NEW a \in Int, NEW b \in Int
    PROVE  /\ IsFiniteSet(S \cap (a..b))
           /\ Cardinality(S \cap (a..b)) \in Nat
           /\ Cardinality(S \cap (a..b)) = 0 <=> S \cap (a..b) = {}
<1>1. IsFiniteSet(a..b)
  BY FS_Interval, Zenon
<1>2. IsFiniteSet(S \cap (a..b))
  BY <1>1, FS_Subset, Zenon
<1> QED
  BY <1>2, FS_CardinalityType, FS_EmptySet, Zenon

(* The first pass counts slot j if it is live.                               *)
LEMMA OneMoreBehind ==
    ASSUME NEW S \in SUBSET (1..Size), NEW j \in 1..Size
    PROVE  Cardinality(S \cap (1..j)) =
             IF j \in S THEN Cardinality(S \cap (1..(j - 1))) + 1 ELSE Cardinality(S \cap (1..(j - 1)))
<1>1. IsFiniteSet(S \cap (1..(j - 1)))
  BY SlotSets, SizeAssumption
<1>2. CASE j \in S
  <2>1. S \cap (1..j) = (S \cap (1..(j - 1))) \cup {j}
    BY <1>2, SizeAssumption
  <2>2. j \notin S \cap (1..(j - 1))
    BY SizeAssumption
  <2> QED
    BY <1>1, <1>2, <2>1, <2>2, FS_AddElement, Zenon
<1>3. CASE j \notin S
  <2>1. S \cap (1..j) = S \cap (1..(j - 1))
    BY <1>3, SizeAssumption
  <2> QED
    BY <1>3, <2>1, Zenon
<1> QED
  BY <1>2, <1>3, Zenon

(* The second pass leaves slot j behind.                                     *)
LEMMA OneLessAhead ==
    ASSUME NEW S \in SUBSET (1..Size), NEW j \in 1..Size
    PROVE  Cardinality(S \cap (j..Size)) =
             IF j \in S THEN Cardinality(S \cap ((j + 1)..Size)) + 1 ELSE Cardinality(S \cap ((j + 1)..Size))
<1>1. IsFiniteSet(S \cap ((j + 1)..Size))
  BY SlotSets, SizeAssumption
<1>2. CASE j \in S
  <2>1. S \cap (j..Size) = (S \cap ((j + 1)..Size)) \cup {j}
    BY <1>2, SizeAssumption
  <2>2. j \notin S \cap ((j + 1)..Size)
    BY SizeAssumption
  <2> QED
    BY <1>1, <1>2, <2>1, <2>2, FS_AddElement, Zenon
<1>3. CASE j \notin S
  <2>1. S \cap (j..Size) = S \cap ((j + 1)..Size)
    BY <1>3, SizeAssumption
  <2> QED
    BY <1>3, <2>1, Zenon
<1> QED
  BY <1>2, <1>3, Zenon

(* A pick that is not touched, under a history that is not, stays as it was. *)
LEMMA Frame ==
    ASSUME NEW q \in Picks, Passes(q), sticky' = sticky, history' = history,
           pc'[q] = pc[q], snap'[q] = snap[q], home'[q] = home[q], k'[q] = k[q], i'[q] = i[q],
           live'[q] = live[q], up'[q] = up[q], stable'[q] = stable[q]
    PROVE  Passes(q)'
BY Zenon DEF Passes, Running, Up

-----------------------------------------------------------------------------
(* A new pick satisfies the invariant in the initial states, idle as it is.  *)
LEMMA InitIInv == Init => IInv
<1> SUFFICES ASSUME Init PROVE IInv
  BY Zenon
<1>1. Types
  BY SizeAssumption DEF Init, Types, Pools
<1>2. ASSUME NEW p \in Picks PROVE Passes(p)
  BY Zenon DEF Init, Passes, Running
<1> QED
  BY <1>1, <1>2, Zenon DEF IInv

(* A change of the history or of the pool leaves the running picks with the  *)
(* slots that have been up throughout.                                       *)
LEMMA WatchIInv ==
    ASSUME IInv, sticky' = sticky, Watch, slots' \in [1..Size -> Nodes], UNCHANGED <<counter, pickVars>>
    PROVE  IInv'
<1>1. Types'
  <2>1. up' \in [Picks -> SUBSET (1..Size)]
    BY Zenon DEF IInv, Types, Watch, Up
  <2>2. stable' \in [Picks -> BOOLEAN]
    BY Zenon DEF IInv, Types, Watch
  <2> QED
    BY <2>1, <2>2, Zenon DEF IInv, Types, pickVars
<1>2. ASSUME NEW p \in Picks PROVE Passes(p)'
  <2>0. Passes(p)
    BY Zenon DEF IInv
  <2>1. /\ pc' = pc /\ snap' = snap /\ home' = home /\ k' = k /\ i' = i /\ live' = live
    BY Zenon DEF pickVars
  <2>2. CASE Running(p)
    <3>1. up'[p] = {j \in up[p] \cap Up(snap[p], history') : sticky \/ stable'[p]}
      BY <2>2, Zenon DEF Watch
    <3>2. stable'[p] => stable[p] /\ Up(snap[p], history') = Up(snap[p], history)
      BY <2>2, Zenon DEF Watch
    <3>3. stable'[p] => up'[p] = up[p]
      BY <2>0, <2>2, <3>1, <3>2, Zenon DEF Passes
    <3>4. stable'[p] => up'[p] = Up(snap[p], history')
      BY <2>0, <2>2, <3>1, <3>2, Zenon DEF Passes
    <3> QED
      BY <2>0, <2>1, <2>2, <3>1, <3>2, <3>3, <3>4, Zenon DEF Passes, Running
  <2>3. CASE ~Running(p)
    <3>1. up'[p] = up[p]
      BY <2>3, Zenon DEF Watch
    <3>2. stable'[p] => stable[p]
      BY Zenon DEF Watch
    <3> QED
      BY <2>0, <2>1, <2>3, <3>1, <3>2, Zenon DEF Passes, Running
  <2> QED
    BY <2>2, <2>3, Zenon
<1> QED
  BY <1>1, <1>2, Zenon DEF IInv

(* The last step of a pick: what slot j must satisfy.                        *)
LEMMA ChooseIInv ==
    ASSUME IInv, sticky' = sticky, NEW p \in Picks, NEW j \in 1..Size, Choose(p, j),
           sticky /\ home[p] \in up[p] => j = home[p],
           stable[p] /\ up[p] # {} => j \in up[p]
    PROVE  IInv'
<1>1. Types'
  BY SizeAssumption DEF IInv, Types, Choose
<1>2. ASSUME NEW q \in Picks, q # p PROVE Passes(q)'
  BY <1>2, Frame, Zenon DEF IInv, Types, Choose
<1>3. Passes(p)'
  BY Zenon DEF IInv, Types, Choose, Passes, Running
<1> QED
  BY <1>1, <1>2, <1>3, Zenon DEF IInv

(* With no pool there is nothing to pick.                                    *)
LEMMA FallIInv ==
    ASSUME IInv, sticky' = sticky, NEW p \in Picks, FallsBack(p)
    PROVE  IInv'
<1>1. Types'
  BY Zenon DEF IInv, Types, FallsBack, watchVars
<1>2. ASSUME NEW q \in Picks, q # p PROVE Passes(q)'
  BY <1>2, Frame, Zenon DEF IInv, Types, FallsBack, watchVars
<1>3. Passes(p)'
  <2>1. pc'[p] = "fallback"
    BY Zenon DEF IInv, Types, FallsBack
  <2> QED
    BY <2>1, Zenon DEF Passes, Running
<1> QED
  BY <1>1, <1>2, <1>3, Zenon DEF IInv

(* The snapshot is taken.                                                    *)
LEMMA BeginIInv ==
    ASSUME IInv, sticky' = sticky, NEW p \in Picks, PickBegins(p)
    PROVE  IInv'
<1>1. Types'
  <2>1. snap' \in [Picks -> [1..Size -> Nodes] \cup {<<>>}]
    BY Zenon DEF IInv, Types, PickBegins
  <2> QED
    BY <2>1, Zenon DEF IInv, Types, PickBegins, watchVars
<1>2. ASSUME NEW q \in Picks, q # p PROVE Passes(q)'
  BY <1>2, Frame, Zenon DEF IInv, Types, PickBegins, watchVars
<1>3. Passes(p)'
  <2>1. pc'[p] = "turn"
    BY Zenon DEF IInv, Types, PickBegins
  <2> QED
    BY <2>1, Zenon DEF Passes, Running
<1> QED
  BY <1>1, <1>2, <1>3, Zenon DEF IInv

(* The slot of the key, or the turn.                                         *)
LEMMA TurnIInv ==
    ASSUME IInv, sticky' = sticky, NEW p \in Picks, NEW h \in Hashes, NEW probe \in BOOLEAN, TakeTurn(p, h, probe)
    PROVE  IInv'
<1>1. Types'
  <2>1. h \in Nat /\ counter \in Nat /\ Size \in Nat \ {0}
    BY HashAssumption, SizeAssumption, Zenon DEF IInv, Types
  <2>2. h % Size \in 0..(Size - 1) /\ counter % Size \in 0..(Size - 1) /\ h \div Size \in Nat
    BY <2>1, Remainder, Zenon
  <2>3. (counter + 1) % CounterModulus \in Nat
    BY <2>1, SizeAssumption, Remainder
  <2>4. counter' \in Nat
    BY <2>1, <2>3, Zenon DEF TakeTurn, rotate
  <2>5. home' \in [Picks -> 1..Size]
    <3>1. CASE sticky
      BY <2>1, <2>2, <3>1 DEF IInv, Types, TakeTurn
    <3>2. CASE ~sticky
      BY <2>1, <2>2, <3>2 DEF IInv, Types, TakeTurn
    <3> QED
      BY <3>1, <3>2, Zenon
  <2>6. k' \in [Picks -> Nat]
    BY <2>1, <2>2, Zenon DEF IInv, Types, TakeTurn
  <2>7. i' \in [Picks -> 1..(Size + 1)] /\ live' \in [Picks -> Nat]
    BY <2>1 DEF IInv, Types, TakeTurn
  <2>8. pc' \in [Picks -> {"idle", "fallback", "turn", "home", "count", "choose", "done"}]
    BY Zenon DEF IInv, Types, TakeTurn
  <2>9. up' \in [Picks -> SUBSET (1..Size)]
    BY Zenon DEF IInv, Types, TakeTurn, Up
  <2>10. stable' \in [Picks -> BOOLEAN]
    BY Zenon DEF IInv, Types, TakeTurn
  <2> QED
    BY <2>4, <2>5, <2>6, <2>7, <2>8, <2>9, <2>10, Zenon DEF IInv, Types, TakeTurn
<1>2. ASSUME NEW q \in Picks, q # p PROVE Passes(q)'
  BY <1>2, Frame, Zenon DEF IInv, Types, TakeTurn
<1>3. Passes(p)'
  <2>1. /\ pc'[p] \in {"home", "count"} /\ (sticky => pc'[p] = "home")
        /\ i'[p] = 1 /\ live'[p] = 0
        /\ snap' = snap /\ up'[p] = Up(snap[p], history) /\ history' = history
    BY Zenon DEF IInv, Types, TakeTurn
  <2>2. Cardinality(up'[p] \cap (1..(i'[p] - 1))) = 0
    <3>1. up'[p] \cap (1..(i'[p] - 1)) = {}
      BY <2>1
    <3> QED
      BY <3>1, FS_EmptySet, Zenon
  <2> QED
    BY <2>1, <2>2, Zenon DEF Passes, Running
<1> QED
  BY <1>1, <1>2, <1>3, Zenon DEF IInv

(* The slot of the key is dead: the passes begin.                            *)
LEMMA HomeIInv ==
    ASSUME IInv, sticky' = sticky, NEW p \in Picks, HomeIsDead(p)
    PROVE  IInv'
<1>1. Types'
  BY Zenon DEF IInv, Types, HomeIsDead, watchVars
<1>2. ASSUME NEW q \in Picks, q # p PROVE Passes(q)'
  BY <1>2, Frame, Zenon DEF IInv, Types, HomeIsDead, watchVars
<1>3. Passes(p)'
  <2>0. Passes(p)
    BY Zenon DEF IInv
  <2>1. /\ pc[p] = "home" /\ pc'[p] = "count" /\ snap' = snap /\ history' = history /\ home' = home
        /\ i' = i /\ live' = live /\ up' = up /\ stable' = stable
    BY Zenon DEF IInv, Types, HomeIsDead, watchVars
  <2>2. home[p] \notin up[p]
    BY <2>0, <2>1, Zenon DEF Passes, Running, Up, HomeIsDead, slotAlive
  <2>3. Cardinality(up[p] \cap (1..(i[p] - 1))) = 0
    <3>1. up[p] \cap (1..(i[p] - 1)) = {}
      BY <2>0, <2>1 DEF Passes
    <3> QED
      BY <3>1, FS_EmptySet, Zenon
  <2> QED
    BY <2>0, <2>1, <2>2, <2>3, Zenon DEF Passes, Running
<1> QED
  BY <1>1, <1>2, <1>3, Zenon DEF IInv

(* A step of the first pass.                                                 *)
LEMMA CountIInv ==
    ASSUME IInv, sticky' = sticky, NEW p \in Picks, CountSlot(p)
    PROVE  IInv'
<1>0. Size \in Nat /\ i[p] \in 1..Size /\ live[p] \in Nat /\ up[p] \in SUBSET (1..Size)
  BY SizeAssumption DEF IInv, Types, CountSlot
<1>1. Types'
  <2>1. i' \in [Picks -> 1..(Size + 1)] /\ live' \in [Picks -> Nat]
    BY <1>0 DEF IInv, Types, CountSlot
  <2> QED
    BY <2>1, Zenon DEF IInv, Types, CountSlot, watchVars
<1>2. ASSUME NEW q \in Picks, q # p PROVE Passes(q)'
  BY <1>2, Frame, Zenon DEF IInv, Types, CountSlot, watchVars
<1>3. Passes(p)'
  <2>0. Passes(p)
    BY Zenon DEF IInv
  <2>1. /\ pc[p] = "count" /\ pc' = pc /\ snap' = snap /\ history' = history /\ home' = home
        /\ up' = up /\ stable' = stable /\ i'[p] = i[p] + 1
        /\ live'[p] = IF snap[p][i[p]] \in history THEN live[p] + 1 ELSE live[p]
    BY Zenon DEF IInv, Types, CountSlot, slotAlive, watchVars
  <2>2. ASSUME stable[p]
        PROVE  live'[p] = Cardinality(up[p] \cap (1..(i'[p] - 1)))
    <3>1. up[p] = Up(snap[p], history) /\ live[p] = Cardinality(up[p] \cap (1..(i[p] - 1)))
      BY <2>0, <2>1, <2>2, Zenon DEF Passes, Running
    <3>2. i[p] \in up[p] <=> snap[p][i[p]] \in history
      BY <1>0, <3>1, Zenon DEF Up
    <3>3. i'[p] - 1 = i[p]
      BY <1>0, <2>1
    <3>4. Cardinality(up[p] \cap (1..i[p])) =
            IF i[p] \in up[p] THEN Cardinality(up[p] \cap (1..(i[p] - 1))) + 1
            ELSE Cardinality(up[p] \cap (1..(i[p] - 1)))
      BY <1>0, OneMoreBehind, Zenon
    <3> QED
      BY <2>1, <3>1, <3>2, <3>3, <3>4, Zenon
  <2> QED
    BY <2>0, <2>1, <2>2, Zenon DEF Passes, Running
<1> QED
  BY <1>1, <1>2, <1>3, Zenon DEF IInv

(* The first pass ends with live slots: the second begins.                   *)
LEMMA SomeIInv ==
    ASSUME IInv, sticky' = sticky, NEW p \in Picks, SomeLive(p)
    PROVE  IInv'
<1>0. Size \in Nat /\ i[p] = Size + 1 /\ live[p] \in Nat \ {0} /\ k[p] \in Nat /\ up[p] \in SUBSET (1..Size)
  BY SizeAssumption DEF IInv, Types, SomeLive
<1>r. k[p] % live[p] \in 0..(live[p] - 1)
  BY <1>0, Remainder, Zenon
<1>1. Types'
  <2>1. i' \in [Picks -> 1..(Size + 1)]
    BY <1>0 DEF IInv, Types, SomeLive
  <2>2. k' \in [Picks -> Nat] /\ live' \in [Picks -> Nat]
    BY <1>0, <1>r DEF IInv, Types, SomeLive
  <2> QED
    BY <2>1, <2>2, Zenon DEF IInv, Types, SomeLive, watchVars
<1>2. ASSUME NEW q \in Picks, q # p PROVE Passes(q)'
  BY <1>2, Frame, Zenon DEF IInv, Types, SomeLive, watchVars
<1>3. Passes(p)'
  <2>0. Passes(p)
    BY Zenon DEF IInv
  <2>1. /\ pc[p] = "count" /\ pc'[p] = "choose" /\ snap' = snap /\ history' = history /\ home' = home
        /\ up' = up /\ stable' = stable /\ i'[p] = 1 /\ k'[p] = k[p] % live[p]
    BY Zenon DEF IInv, Types, SomeLive, watchVars
  <2>2. ASSUME stable[p]
        PROVE  k'[p] < Cardinality(up[p] \cap (i'[p]..Size))
    <3>1. live[p] = Cardinality(up[p] \cap (1..(i[p] - 1)))
      BY <2>0, <2>1, <2>2, Zenon DEF Passes
    <3>2. i[p] - 1 = Size
      BY <1>0
    <3> QED
      BY <1>0, <1>r, <2>1, <3>1, <3>2
  <2> QED
    BY <2>0, <2>1, <2>2, Zenon DEF Passes, Running
<1> QED
  BY <1>1, <1>2, <1>3, Zenon DEF IInv

(* The second pass passes over a slot, counting down if it is live.          *)
LEMMA SkipIInv ==
    ASSUME IInv, sticky' = sticky, NEW p \in Picks, SkipLive(p) \/ SkipDead(p)
    PROVE  IInv'
<1>0. Size \in Nat /\ i[p] \in 1..Size /\ k[p] \in Nat /\ up[p] \in SUBSET (1..Size)
  BY SizeAssumption DEF IInv, Types, SkipLive, SkipDead
<1>k. k'[p] = IF snap[p][i[p]] \in history THEN k[p] - 1 ELSE k[p]
  BY Zenon DEF IInv, Types, SkipLive, SkipDead, slotAlive
<1>1. Types'
  <2>1. i' \in [Picks -> 1..(Size + 1)]
    <3>1. i[p] + 1 \in 1..(Size + 1) /\ i' = [i EXCEPT ![p] = i[p] + 1]
      BY <1>0 DEF SkipLive, SkipDead
    <3> QED
      BY <3>1, Zenon DEF IInv, Types
  <2>2. k' \in [Picks -> Nat]
    <3>1. CASE SkipLive(p)
      <4>1. k[p] - 1 \in Nat /\ k' = [k EXCEPT ![p] = k[p] - 1]
        BY <1>0, <3>1 DEF SkipLive
      <4> QED
        BY <4>1, Zenon DEF IInv, Types
    <3>2. CASE SkipDead(p)
      BY <3>2, Zenon DEF IInv, Types, SkipDead
    <3> QED
      BY <3>1, <3>2, Zenon
  <2> QED
    BY <2>1, <2>2, Zenon DEF IInv, Types, SkipLive, SkipDead, watchVars
<1>2. ASSUME NEW q \in Picks, q # p PROVE Passes(q)'
  BY <1>2, Frame, Zenon DEF IInv, Types, SkipLive, SkipDead, watchVars
<1>3. Passes(p)'
  <2>0. Passes(p)
    BY Zenon DEF IInv
  <2>1. /\ pc[p] = "choose" /\ pc' = pc /\ snap' = snap /\ history' = history /\ home' = home
        /\ up' = up /\ stable' = stable /\ i'[p] = i[p] + 1
    BY Zenon DEF IInv, Types, SkipLive, SkipDead, watchVars
  <2>2. ASSUME stable[p]
        PROVE  k'[p] < Cardinality(up[p] \cap (i'[p]..Size))
    <3>1. up[p] = Up(snap[p], history) /\ k[p] < Cardinality(up[p] \cap (i[p]..Size))
      BY <2>0, <2>1, <2>2, Zenon DEF Passes, Running
    <3>2. i[p] \in up[p] <=> snap[p][i[p]] \in history
      BY <1>0, <3>1, Zenon DEF Up
    <3>3. Cardinality(up[p] \cap (i[p]..Size)) =
            IF i[p] \in up[p] THEN Cardinality(up[p] \cap ((i[p] + 1)..Size)) + 1
            ELSE Cardinality(up[p] \cap ((i[p] + 1)..Size))
      BY <1>0, OneLessAhead, Zenon
    <3>4. Cardinality(up[p] \cap ((i[p] + 1)..Size)) \in Nat
      <4>1. i[p] + 1 \in Int /\ Size \in Int
        BY <1>0
      <4> QED
        BY <1>0, <4>1, SlotSets, Zenon
    <3> QED
      BY <1>0, <1>k, <2>1, <3>1, <3>2, <3>3, <3>4
  <2> QED
    BY <2>0, <2>1, <2>2, Zenon DEF Passes, Running
<1> QED
  BY <1>1, <1>2, <1>3, Zenon DEF IInv

(* A finished pick is forgotten.                                             *)
LEMMA EndIInv ==
    ASSUME IInv, sticky' = sticky, NEW p \in Picks, PickEnds(p)
    PROVE  IInv'
<1>1. Types'
  <2>1. stable' \in [Picks -> BOOLEAN]
    BY Zenon DEF IInv, Types, PickEnds
  <2>2. up' \in [Picks -> SUBSET (1..Size)]
    BY Zenon DEF IInv, Types, PickEnds
  <2>3. home' \in [Picks -> 1..Size] /\ i' \in [Picks -> 1..(Size + 1)]
    BY SizeAssumption DEF IInv, Types, PickEnds
  <2> QED
    BY <2>1, <2>2, <2>3, Zenon DEF IInv, Types, PickEnds
<1>2. ASSUME NEW q \in Picks, q # p PROVE Passes(q)'
  BY <1>2, Frame, Zenon DEF IInv, Types, PickEnds
<1>3. Passes(p)'
  <2>1. pc'[p] = "idle"
    BY Zenon DEF IInv, Types, PickEnds
  <2> QED
    BY <2>1, Zenon DEF Passes, Running
<1> QED
  BY <1>1, <1>2, <1>3, Zenon DEF IInv

(* Every step of a connection keeps the invariant.                           *)
LEMMA PickIInv ==
    ASSUME IInv, sticky' = sticky, NEW p \in Picks, Pick(p)
    PROVE  IInv'
<1>0. Passes(p) /\ Size \in Nat /\ home[p] \in 1..Size /\ i[p] \in 1..(Size + 1)
      /\ up[p] \in SUBSET (1..Size) /\ live[p] \in Nat /\ k[p] \in Nat
  BY SizeAssumption, Zenon DEF IInv, Types
<1>1. CASE FallsBack(p) \/ PickBegins(p) \/ \E h \in Hashes, probe \in BOOLEAN : TakeTurn(p, h, probe)
  BY <1>1, FallIInv, BeginIInv, TurnIInv, Zenon
<1>2. CASE PickHome(p)
  <2>1. stable[p] /\ up[p] # {} => home[p] \in up[p]
    BY <1>0, <1>2, Zenon DEF PickHome, Passes, Running, Up, slotAlive
  <2> QED
    BY <1>0, <1>2, <2>1, ChooseIInv, Zenon DEF PickHome
<1>3. CASE HomeIsDead(p)
  BY <1>3, HomeIInv, Zenon
<1>4. CASE CountSlot(p)
  BY <1>4, CountIInv, Zenon
<1>5. CASE NoneLive(p)
  <2>1. pc[p] = "count" /\ i[p] - 1 = Size /\ live[p] = 0 /\ Choose(p, home[p])
    BY <1>0, <1>5 DEF NoneLive
  <2>2. stable[p] => up[p] = {}
    <3>1. stable[p] => Cardinality(up[p] \cap (1..Size)) = 0
      BY <1>0, <2>1, Zenon DEF Passes
    <3>2. Cardinality(up[p] \cap (1..Size)) = 0 <=> up[p] \cap (1..Size) = {}
      <4>1. 1 \in Int /\ Size \in Int
        BY <1>0
      <4> QED
        BY <1>0, <4>1, SlotSets, Zenon
    <3> QED
      BY <1>0, <3>1, <3>2, Zenon
  <2>3. sticky => home[p] \notin up[p]
    BY <1>0, <2>1, Zenon DEF Passes
  <2> QED
    BY <1>0, <2>1, <2>2, <2>3, ChooseIInv, Zenon
<1>6. CASE SomeLive(p)
  BY <1>6, SomeIInv, Zenon
<1>7. CASE TakeSlot(p)
  <2>1. pc[p] = "choose" /\ i[p] \in 1..Size /\ snap[p][i[p]] \in history /\ Choose(p, i[p])
    BY <1>0, <1>7 DEF TakeSlot, slotAlive
  <2>2. stable[p] => i[p] \in up[p]
    BY <1>0, <2>1, Zenon DEF Passes, Running, Up
  <2>3. sticky => home[p] \notin up[p]
    BY <1>0, <2>1, Zenon DEF Passes
  <2> QED
    BY <1>0, <2>1, <2>2, <2>3, ChooseIInv, Zenon
<1>8. CASE SkipLive(p) \/ SkipDead(p)
  BY <1>8, SkipIInv, Zenon
<1>9. CASE SlotsChanged(p)
  <2>1. pc[p] = "choose" /\ i[p] = Size + 1 /\ Choose(p, home[p])
    BY <1>0, <1>9 DEF SlotsChanged
  <2>2. ~stable[p]
    <3>1. up[p] \cap (i[p]..Size) = {}
      BY <1>0, <2>1
    <3>2. Cardinality(up[p] \cap (i[p]..Size)) = 0
      BY <3>1, FS_EmptySet, Zenon
    <3>3. stable[p] => k[p] < 0
      BY <1>0, <2>1, <3>2, Zenon DEF Passes
    <3>4. k[p] \in Nat
      BY <1>0, Zenon DEF IInv, Types
    <3> QED
      BY <3>3, <3>4
  <2>3. sticky => home[p] \notin up[p]
    BY <1>0, <2>1, Zenon DEF Passes
  <2> QED
    BY <1>0, <2>1, <2>2, <2>3, ChooseIInv, Zenon
<1>10. CASE PickEnds(p)
  BY <1>10, EndIInv, Zenon
<1> QED
  BY <1>1, <1>2, <1>3, <1>4, <1>5, <1>6, <1>7, <1>8, <1>9, <1>10, Zenon DEF Pick

(* The invariant is inductive.                                               *)
LEMMA NextIInv == IInv /\ [Next]_vars => IInv'
<1> SUFFICES ASSUME IInv, [Next]_vars PROVE IInv'
  BY Zenon
<1>0. sticky' = sticky
  BY Zenon DEF Next, vars
<1>1. CASE \E p \in Picks : Pick(p)
  BY <1>0, <1>1, PickIInv, Zenon
<1>2. CASE \E n \in Nodes : HistoryChanges(n)
  <2>1. Watch /\ slots' = slots /\ UNCHANGED <<counter, pickVars>>
    BY <1>2, Zenon DEF HistoryChanges
  <2> QED
    BY <1>0, <2>1, WatchIInv, Zenon DEF IInv, Types
<1>3. CASE \E s \in Pools : setSlots(s)
  <2>1. Watch /\ slots' \in [1..Size -> Nodes] /\ UNCHANGED <<counter, pickVars>>
    BY <1>3, Zenon DEF setSlots, Pools
  <2> QED
    BY <1>0, <2>1, WatchIInv, Zenon
<1>4. CASE UNCHANGED vars
  <2>1. Types'
    BY <1>4, Zenon DEF IInv, Types, vars, pickVars, watchVars
  <2>2. ASSUME NEW q \in Picks PROVE Passes(q)'
    BY <1>4, Frame, Zenon DEF IInv, vars, pickVars, watchVars
  <2> QED
    BY <2>1, <2>2, Zenon DEF IInv
<1> QED
  BY <1>1, <1>2, <1>3, <1>4, Zenon DEF Next

(* A sticky connection always goes to the slot of its key when that slot was *)
(* up throughout its pick, whatever else changes in the pool meanwhile.      *)
THEOREM StickyKeysKeepTheirSlot == Spec => []BoundKeysStay
<1>1. IInv => BoundKeysStay
  BY Zenon DEF IInv, Passes, BoundKeysStay
<1> QED
  BY InitIInv, NextIInv, <1>1, PTL DEF Spec

(* A connection whose snapshot did not go up or down during its pick is      *)
(* never sent to a dead slot while a slot is live.                           *)
THEOREM LiveSlotsFirst == Spec => []StablePickIsLive
<1>1. IInv => StablePickIsLive
  BY Zenon DEF IInv, Passes, StablePickIsLive
<1> QED
  BY InitIInv, NextIInv, <1>1, PTL DEF Spec
-----------------------------------------------------------------------------
(* Every set of numbers that is not empty has a least one: induction. *)
LEMMA LeastNumber ==
    ASSUME NEW T \in SUBSET Nat, T # {}
    PROVE  Least(T) \in T /\ \A n \in T : Least(T) <= n
<1>1. PICK m \in T : \A n \in T : ~ (<<n, m>> \in OpToRel(<, Nat))
  BY NatLessThanWellFounded, WFMin, Zenon
<1>2. \A n \in T : ~(n < m)
  BY <1>1, Zenon DEF OpToRel
<1>3. \A n \in T : m <= n
  BY <1>2
<1> QED
  BY <1>3, Zenon DEF Least

(* The types that Types leaves out: the counter stays within its width, a    *)
(* pick ends with a slot there is, and the load of a slot is a number.       *)
Counted(p) ==
    /\ live[p] <= Size
    /\ pc[p] = "count" => live[p] <= i[p] - 1
    /\ pc[p] = "done" => i[p] <= Size

MoreTypes ==
    /\ sticky \in BOOLEAN /\ published \in BOOLEAN /\ history \in SUBSET Nodes
    /\ counter <= CounterModulus - 1
    /\ \A p \in Picks : Counted(p)
    /\ counts \in [Picks -> BOOLEAN]
    /\ load \in [1..Size -> Nat]

(* Choose ends with a slot and a load of numbers.                            *)
LEMMA ChooseTypes ==
    ASSUME IInv, MoreTypes, sticky' = sticky, NEW p \in Picks, NEW j \in 1..Size, Choose(p, j)
    PROVE  MoreTypes'
<1>1. /\ pc' = [pc EXCEPT ![p] = "done"] /\ i' = [i EXCEPT ![p] = j]
      /\ live' = [live EXCEPT ![p] = 0] /\ counts' = [counts EXCEPT ![p] = FALSE]
      /\ UNCHANGED <<published, history, counter>>
  BY Zenon DEF Choose
<1>2. ASSUME NEW q \in Picks PROVE Counted(q)'
  <2>1. /\ pc'[q] = (IF q = p THEN "done" ELSE pc[q]) /\ i'[q] = (IF q = p THEN j ELSE i[q])
        /\ live'[q] = (IF q = p THEN 0 ELSE live[q])
    BY <1>1, Zenon DEF IInv, Types
  <2> QED
    BY <1>1, <2>1, SizeAssumption DEF MoreTypes, Counted
<1>3. load' \in [1..Size -> Nat]
  <2> DEFINE more == [load EXCEPT ![j] = @ + 1]
             all == {more[n] : n \in Up(slots, history)}
             least == Least(all)
  <2>1. more \in [1..Size -> Nat]
    BY DEF MoreTypes
  <2>2. CASE j \in Up(slots, history)
    <3>1. all \in SUBSET Nat /\ all # {}
      BY <2>1, <2>2, Zenon DEF Up
    <3>2. least \in Nat
      BY <3>1, LeastNumber, Zenon
    <3>3. load' \in {load, [n \in 1..Size |-> IF more[n] > least THEN more[n] - least ELSE 0]}
      BY Zenon DEF Choose
    <3> HIDE DEF more, least, all
    <3>4. [n \in 1..Size |-> IF more[n] > least THEN more[n] - least ELSE 0] \in [1..Size -> Nat]
      BY <2>1, <3>2
    <3> QED
      BY <3>3, <3>4, Zenon DEF MoreTypes
  <2>3. CASE j \notin Up(slots, history)
    BY <2>3, Zenon DEF Choose, MoreTypes
  <2> QED
    BY <2>2, <2>3, Zenon
<1>4. counts' \in [Picks -> BOOLEAN]
  BY <1>1, Zenon DEF MoreTypes
<1> QED
  BY <1>1, <1>2, <1>3, <1>4, Zenon DEF MoreTypes

(* What Watch forgets is a Boolean, and it may reset the load.               *)
LEMMA WatchTypes ==
    ASSUME IInv, MoreTypes, sticky' = sticky, Watch, history' \in SUBSET Nodes, published' \in BOOLEAN,
           UNCHANGED <<counter, pickVars>>
    PROVE  MoreTypes'
<1>1. load' \in [1..Size -> Nat]
  <2>1. [j \in 1..Size |-> 0] \in [1..Size -> Nat]
    OBVIOUS
  <2> QED
    BY <2>1, Zenon DEF Watch, MoreTypes
<1>2. counts' \in [Picks -> BOOLEAN]
  BY Zenon DEF Watch, MoreTypes
<1>3. \A q \in Picks : Counted(q)'
  BY Zenon DEF MoreTypes, Counted, pickVars
<1> QED
  BY <1>1, <1>2, <1>3, Zenon DEF MoreTypes

(* A step of a pick keeps them.                                              *)
LEMMA PickTypes ==
    ASSUME IInv, MoreTypes, sticky' = sticky, NEW p \in Picks, Pick(p)
    PROVE  MoreTypes'
<1>0. home[p] \in 1..Size /\ i[p] \in 1..(Size + 1) /\ live[p] \in Nat
  BY Zenon DEF IInv, Types
<1>a. CASE FallsBack(p) \/ PickBegins(p)
  <2>1. UNCHANGED <<published, history, counter, i, live, counts, load>> /\ pc'[p] \notin {"count", "done"}
        /\ \A q \in Picks \ {p} : pc'[q] = pc[q]
    BY <1>a, Zenon DEF FallsBack, PickBegins, watchVars, IInv, Types
  <2>2. ASSUME NEW q \in Picks PROVE Counted(q)'
    BY <2>1, Zenon DEF MoreTypes, Counted
  <2> QED
    BY <2>1, <2>2, Zenon DEF MoreTypes
<1>1. ASSUME NEW h \in Hashes, NEW probe \in BOOLEAN, TakeTurn(p, h, probe) PROVE MoreTypes'
  <2>1. counter' <= CounterModulus - 1
    <3>1. counter \in Nat /\ counter <= CounterModulus - 1
      BY Zenon DEF IInv, Types, MoreTypes
    <3>2. (counter + 1) % CounterModulus \in 0..(CounterModulus - 1)
      BY <3>1, Remainder, SizeAssumption
    <3>3. counter' \in {counter, (counter + 1) % CounterModulus}
      BY <1>1, Zenon DEF TakeTurn, rotate
    <3> QED
      BY <3>1, <3>2, <3>3, SizeAssumption
  <2>2. ASSUME NEW q \in Picks PROVE Counted(q)'
    <3>1. CASE q = p
      <4>1. pc'[q] \in {"home", "count"} /\ i'[q] = 1 /\ live'[q] = 0
        BY <1>1, <3>1, Zenon DEF TakeTurn, IInv, Types
      <4> QED
        BY <4>1, SizeAssumption DEF Counted
    <3>2. CASE q # p
      BY <1>1, <3>2, Zenon DEF TakeTurn, IInv, Types, MoreTypes, Counted
    <3> QED
      BY <3>1, <3>2, Zenon
  <2>3. counts' \in [Picks -> BOOLEAN] /\ UNCHANGED <<published, history>>
    BY <1>1, Zenon DEF TakeTurn, MoreTypes
  <2>4. load' \in [1..Size -> Nat]
    <3>1. load' \in {load, [j \in 1..Size |-> 0]}
      BY <1>1, Zenon DEF TakeTurn
    <3>2. [j \in 1..Size |-> 0] \in [1..Size -> Nat]
      OBVIOUS
    <3> QED
      BY <3>1, <3>2, Zenon DEF MoreTypes
  <2> QED
    BY <2>1, <2>2, <2>3, <2>4, Zenon DEF MoreTypes
<1>2. CASE PickHome(p) \/ NoneLive(p) \/ SlotsChanged(p)
  BY <1>0, <1>2, ChooseTypes, Zenon DEF PickHome, NoneLive, SlotsChanged
<1>3. CASE TakeSlot(p)
  <2>1. i[p] \in 1..Size
    BY <1>0, <1>3, SizeAssumption DEF TakeSlot
  <2> QED
    BY <2>1, <1>3, ChooseTypes, Zenon DEF TakeSlot
<1>4. CASE HomeIsDead(p)
  <2>1. pc' = [pc EXCEPT ![p] = "count"] /\ UNCHANGED <<published, history, counter, i, live, watchVars>>
    BY <1>4, Zenon DEF HomeIsDead
  <2>2. i[p] = 1 /\ live[p] = 0
    BY <1>4, Zenon DEF HomeIsDead, IInv, Passes
  <2>3. ASSUME NEW q \in Picks PROVE Counted(q)'
    <3>1. CASE q = p
      <4>1. pc'[q] = "count" /\ i'[q] = 1 /\ live'[q] = 0
        BY <2>1, <2>2, <3>1, Zenon DEF IInv, Types
      <4> QED
        BY <4>1, SizeAssumption DEF Counted
    <3>2. CASE q # p
      BY <2>1, <3>2, Zenon DEF IInv, Types, MoreTypes, Counted
    <3> QED
      BY <3>1, <3>2, Zenon
  <2> QED
    BY <2>1, <2>3, Zenon DEF MoreTypes, watchVars
<1>5. CASE CountSlot(p)
  <2>1. UNCHANGED <<published, history, counter, pc, watchVars>>
    BY <1>5, Zenon DEF CountSlot
  <2>2. ASSUME NEW q \in Picks PROVE Counted(q)'
    <3>1. CASE q = p
      <4>1. /\ pc[p] = "count" /\ i[p] <= Size /\ pc'[q] = "count" /\ i'[q] = i[p] + 1
            /\ live'[q] \in {live[p], live[p] + 1}
        BY <1>5, <3>1, Zenon DEF CountSlot, IInv, Types
      <4>2. live[p] <= i[p] - 1
        BY <4>1, Zenon DEF MoreTypes, Counted
      <4> QED
        BY <4>1, <4>2, <1>0, SizeAssumption DEF Counted
    <3>2. CASE q # p
      BY <1>5, <3>2, Zenon DEF CountSlot, IInv, Types, MoreTypes, Counted
    <3> QED
      BY <3>1, <3>2, Zenon
  <2> QED
    BY <2>1, <2>2, Zenon DEF MoreTypes, watchVars
<1>6. CASE SomeLive(p) \/ SkipLive(p) \/ SkipDead(p)
  <2>1. UNCHANGED <<published, history, counter, watchVars>> /\ pc'[p] = "choose" /\ live'[p] \in {live[p], 0}
        /\ \A q \in Picks \ {p} : pc'[q] = pc[q] /\ i'[q] = i[q] /\ live'[q] = live[q]
    BY <1>6, Zenon DEF SomeLive, SkipLive, SkipDead, IInv, Types
  <2>2. ASSUME NEW q \in Picks PROVE Counted(q)'
    <3>1. CASE q = p
      BY <3>1, <2>1, SizeAssumption DEF MoreTypes, Counted
    <3>2. CASE q # p
      BY <2>1, <3>2, Zenon DEF MoreTypes, Counted
    <3> QED
      BY <3>1, <3>2, Zenon
  <2> QED
    BY <2>1, <2>2, Zenon DEF MoreTypes, watchVars
<1>7. CASE PickEnds(p)
  <2>1. /\ UNCHANGED <<published, history, counter, live, counts, load>> /\ pc'[p] = "idle"
        /\ \A q \in Picks \ {p} : pc'[q] = pc[q] /\ i'[q] = i[q]
    BY <1>7, Zenon DEF PickEnds, IInv, Types
  <2>2. ASSUME NEW q \in Picks PROVE Counted(q)'
    BY <2>1, Zenon DEF MoreTypes, Counted
  <2> QED
    BY <2>1, <2>2, Zenon DEF MoreTypes
<1> QED
  BY <1>a, <1>1, <1>2, <1>3, <1>4, <1>5, <1>6, <1>7, Zenon DEF Pick

(* For any pool, key, counter and interleaving a pick ends with one of the   *)
(* slots of its snapshot, having counted no more live slots than there are,  *)
(* and the counter never leaves its width.                                   *)
THEOREM PicksAreSlots == Spec => []TypeOK
<1>1. Init => MoreTypes
  <2> SUFFICES ASSUME Init PROVE MoreTypes
    BY Zenon
  <2>1. \A p \in Picks : Counted(p)
    <3>1. \A p \in Picks : pc[p] = "idle" /\ live[p] = 0
      BY Zenon DEF Init
    <3> QED
      BY <3>1, SizeAssumption DEF Counted
  <2>2. counter <= CounterModulus - 1
    BY SizeAssumption DEF Init
  <2>3. load \in [1..Size -> Nat]
    BY DEF Init
  <2> QED
    BY <2>1, <2>2, <2>3, Zenon DEF Init, MoreTypes
<1>2. IInv /\ MoreTypes /\ [Next]_vars => MoreTypes'
  <2> SUFFICES ASSUME IInv, MoreTypes, [Next]_vars PROVE MoreTypes'
    BY Zenon
  <2>0. sticky' = sticky
    BY Zenon DEF Next, vars
  <2>1. CASE \E p \in Picks : Pick(p)
    BY <2>0, <2>1, PickTypes, Zenon
  <2>2. CASE \E n \in Nodes : HistoryChanges(n)
    <3>1. Watch /\ history' \in SUBSET Nodes /\ published' \in BOOLEAN /\ UNCHANGED <<counter, pickVars>>
      BY <2>2, Zenon DEF HistoryChanges, MoreTypes
    <3> QED
      BY <2>0, <3>1, WatchTypes, Zenon
  <2>3. CASE \E s \in Pools : setSlots(s)
    <3>1. Watch /\ history' \in SUBSET Nodes /\ published' \in BOOLEAN /\ UNCHANGED <<counter, pickVars>>
      BY <2>3, Zenon DEF setSlots, MoreTypes
    <3> QED
      BY <2>0, <3>1, WatchTypes, Zenon
  <2>4. CASE UNCHANGED vars
    BY <2>4, Zenon DEF MoreTypes, Counted, vars, pickVars, watchVars
  <2> QED
    BY <2>1, <2>2, <2>3, <2>4, Zenon DEF Next
<1>3. IInv /\ MoreTypes => TypeOK
  <2> SUFFICES ASSUME IInv, MoreTypes PROVE TypeOK
    BY Zenon
  <2>1. counter \in 0..(CounterModulus - 1)
    BY SizeAssumption DEF IInv, Types, MoreTypes
  <2>2. \A p \in Picks : live[p] \in 0..Size
    <3>1. \A p \in Picks : live[p] \in Nat /\ live[p] <= Size
      BY Zenon DEF IInv, Types, MoreTypes, Counted
    <3> QED
      BY <3>1, SizeAssumption
  <2>3. live \in [Picks -> 0..Size]
    BY <2>2, Zenon DEF IInv, Types
  <2> QED
    BY <2>1, <2>3, Zenon DEF IInv, Types, MoreTypes, Counted, TypeOK
<1> QED
  BY InitIInv, NextIInv, <1>1, <1>2, <1>3, PTL DEF Spec
-----------------------------------------------------------------------------
(* The turns: how many slots of S stand before slot n. *)
Rank(S, n) == Cardinality(S \cap (1..(n - 1)))

(* Is turn t one of those from s on, up to but without r, round the clock? *)
InTurn(s, t, r) == IF s <= r THEN s <= t /\ t < r ELSE s <= t \/ t < r

(* Everybody has been served e times, and those whose turn was since s once  *)
(* more; turn r is next.                                                     *)
ServedFrom(S, due, r, s, e) ==
    \A n \in S : due[n] = e + (IF InTurn(s, Rank(S, n), r) THEN 1 ELSE 0)

Even(S, due, r) ==
    S # {} => \E s \in 0..(Cardinality(S) - 1), e \in Int : ServedFrom(S, due, r, s, e)

(* Counting on takes the remainder to the next one.                          *)
LEMMA NextRemainder ==
    ASSUME NEW a \in Nat, NEW b \in Nat \ {0}
    PROVE  (a + 1) % b = IF (a % b) + 1 = b THEN 0 ELSE (a % b) + 1
<1> DEFINE q == a \div b
           r == a % b
<1>1. q \in Nat /\ r \in 0..(b - 1)
  BY Remainder, Zenon
<1>2. a = b * q + r
  BY SMTT(30)
<1> HIDE DEF q, r
<1>3. \A x \in Nat, y \in 0..(b - 1) : (b * x + y) % b = y
  BY Z3
<1>4. CASE r + 1 = b
  <2>1. a + 1 = b * (q + 1) + 0
    BY <1>1, <1>2, <1>4, Z3
  <2>2. q + 1 \in Nat /\ 0 \in 0..(b - 1)
    BY <1>1
  <2>3. (a + 1) % b = 0
    BY <2>1, <2>2, <1>3, Zenon
  <2> QED
    BY <1>4, <2>3, Zenon DEF r
<1>5. CASE r + 1 # b
  <2>1. a + 1 = b * q + (r + 1)
    BY <1>1, <1>2, Z3
  <2>2. r + 1 \in 0..(b - 1)
    BY <1>1, <1>5
  <2>3. (a + 1) % b = r + 1
    BY <1>1, <2>1, <2>2, <1>3, Zenon
  <2> QED
    BY <1>5, <2>3, Zenon DEF r
<1> QED
  BY <1>4, <1>5, Zenon

(* So does the counter before its last value.                                *)
LEMMA NextTurn ==
    ASSUME NEW b \in Nat \ {0}, NEW c \in 0..(CounterModulus - 1), c < CounterModulus - 1
    PROVE  ((c + 1) % CounterModulus) % b = IF (c % b) + 1 = b THEN 0 ELSE (c % b) + 1
<1>1. (c + 1) % CounterModulus = c + 1
  BY SizeAssumption, Z3
<1>2. c \in Nat
  BY SizeAssumption
<1> QED
  BY <1>1, <1>2, NextRemainder, Zenon

(* The slots of a set can be counted.                                        *)
LEMMA LiveCount ==
    ASSUME NEW S \in SUBSET (1..Size)
    PROVE  /\ IsFiniteSet(S) /\ Cardinality(S) \in 0..Size
           /\ Cardinality(S) = 0 <=> S = {}
<1>1. IsFiniteSet(1..Size) /\ Cardinality(1..Size) = Size
  BY SizeAssumption, FS_Interval
<1>2. IsFiniteSet(S) /\ Cardinality(S) <= Size
  BY <1>1, FS_Subset, Zenon
<1>3. Cardinality(S) \in Nat /\ (Cardinality(S) = 0 <=> S = {})
  BY <1>2, FS_CardinalityType, FS_EmptySet, Zenon
<1> QED
  BY <1>2, <1>3, SizeAssumption

(* The slots before a slot can be counted.                                   *)
LEMMA RankNumber ==
    ASSUME NEW S \in SUBSET (1..Size), NEW n \in 1..Size
    PROVE  Rank(S, n) \in Nat
<1>1. n - 1 \in Int /\ 1 \in Int
  BY SizeAssumption
<1> QED
  BY <1>1, SlotSets, Zenon DEF Rank

(* A slot's turn is less than the number of slots.                           *)
LEMMA RankBelow ==
    ASSUME NEW S \in SUBSET (1..Size), NEW n \in S
    PROVE  Rank(S, n) \in 0..(Cardinality(S) - 1)
<1>1. n \in 1..Size /\ n - 1 \in Int /\ 1 \in Int
  BY SizeAssumption
<1>2. Cardinality(S \cap (1..n)) = Rank(S, n) + 1
  BY <1>1, OneMoreBehind, Zenon DEF Rank
<1>3. Rank(S, n) \in Nat
  BY <1>1, SlotSets, Zenon DEF Rank
<1>4. IsFiniteSet(S) /\ Cardinality(S) \in 0..Size
  BY LiveCount, Zenon
<1>5. S \cap (1..n) \subseteq S
  BY Zenon
<1>6. Cardinality(S \cap (1..n)) <= Cardinality(S)
  BY <1>4, <1>5, FS_Subset, Zenon
<1> QED
  BY <1>2, <1>3, <1>4, <1>6, SizeAssumption

(* A later slot has a later turn.                                            *)
LEMMA RankGrows ==
    ASSUME NEW S \in SUBSET (1..Size), NEW m \in S, NEW n \in S, m < n
    PROVE  Rank(S, m) < Rank(S, n)
<1>1. /\ m \in 1..Size /\ n \in 1..Size /\ m - 1 \in Int /\ n - 1 \in Int /\ 1 \in Int
  BY SizeAssumption
<1>2. Cardinality(S \cap (1..m)) = Rank(S, m) + 1
  BY <1>1, OneMoreBehind, Zenon DEF Rank
<1>3. Rank(S, m) \in Nat /\ Rank(S, n) \in Nat /\ IsFiniteSet(S \cap (1..(n - 1)))
  BY <1>1, SlotSets, Zenon DEF Rank
<1>4. S \cap (1..m) \subseteq S \cap (1..(n - 1))
  BY <1>1
<1>5. Cardinality(S \cap (1..m)) <= Rank(S, n)
  BY <1>3, <1>4, FS_Subset, Zenon DEF Rank
<1> QED
  BY <1>2, <1>3, <1>5

(* So the turn tells the slot.                                               *)
LEMMA RankTells ==
    ASSUME NEW S \in SUBSET (1..Size), NEW m \in S, NEW n \in S, Rank(S, m) = Rank(S, n)
    PROVE  m = n
<1>1. m \in Nat /\ n \in Nat
  BY SizeAssumption
<1>2. Rank(S, m) \in Int /\ Rank(S, n) \in Int
  BY RankBelow
<1>3. ~(m < n) /\ ~(n < m)
  <2>1. CASE m < n
    BY <2>1, <1>2, RankGrows
  <2>2. CASE n < m
    BY <2>2, <1>2, RankGrows
  <2> QED
    BY <2>1, <2>2, Zenon
<1> QED
  BY <1>1, <1>3

(* Nobody has been served yet.                                               *)
LEMMA EvenStarts ==
    ASSUME NEW S \in SUBSET (1..Size), NEW due, \A n \in S : due[n] = 0,
           NEW r, S # {} => r \in 0..(Cardinality(S) - 1)
    PROVE  Even(S, due, r)
<1>1. SUFFICES ASSUME S # {} PROVE \E s \in 0..(Cardinality(S) - 1), e \in Int : ServedFrom(S, due, r, s, e)
  BY Zenon DEF Even
<1>2. r \in 0..(Cardinality(S) - 1)
  BY <1>1, Zenon
<1>3. Cardinality(S) \in Int
  BY LiveCount, SizeAssumption
<1>4. ServedFrom(S, due, r, r, 0)
  <2> SUFFICES ASSUME NEW n \in S PROVE due[n] = 0 + (IF InTurn(r, Rank(S, n), r) THEN 1 ELSE 0)
    BY Zenon DEF ServedFrom
  <2>1. Rank(S, n) \in 0..(Cardinality(S) - 1)
    BY RankBelow, Zenon
  <2>2. ~InTurn(r, Rank(S, n), r)
    BY <1>2, <1>3, <2>1 DEF InTurn
  <2> QED
    BY <2>2
<1> QED
  BY <1>2, <1>4

(* Who is served next has turn r, and then it is the next one's turn.        *)
LEMMA EvenServes ==
    ASSUME NEW S \in SUBSET (1..Size), NEW due, NEW more, NEW r, Even(S, due, r),
           S # {} => r \in 0..(Cardinality(S) - 1),
           \A n \in S : due[n] \in Int /\ more[n] = due[n] + (IF Rank(S, n) = r THEN 1 ELSE 0)
    PROVE  Even(S, more, IF r + 1 = Cardinality(S) THEN 0 ELSE r + 1)
<1>1. SUFFICES ASSUME S # {}
               PROVE  \E s \in 0..(Cardinality(S) - 1), e \in Int :
                        ServedFrom(S, more, IF r + 1 = Cardinality(S) THEN 0 ELSE r + 1, s, e)
  BY Zenon DEF Even
<1>2. PICK s \in 0..(Cardinality(S) - 1), e \in Int : ServedFrom(S, due, r, s, e)
  BY <1>1, Zenon DEF Even
<1> DEFINE c == Cardinality(S)
           t == IF r + 1 = c THEN 0 ELSE r + 1
<1>3. c \in Nat \ {0}
  BY <1>1, LiveCount, SizeAssumption
<1>4. r \in 0..(c - 1)
  BY <1>1, Zenon
<1>5. \A n \in S : /\ Rank(S, n) \in 0..(c - 1)
                   /\ more[n] = e + (IF InTurn(s, Rank(S, n), r) THEN 1 ELSE 0)
                                  + (IF Rank(S, n) = r THEN 1 ELSE 0)
  <2>1. \A n \in S : Rank(S, n) \in 0..(c - 1)
    BY RankBelow, Zenon
  <2> QED
    BY <2>1, <1>2, Zenon DEF ServedFrom
<1>6. s \in 0..(c - 1)
  BY Zenon
<1> HIDE DEF c
<1>7. CASE t = s
  <2>1. \A x \in 0..(c - 1) : (InTurn(s, x, r) \/ x = r) /\ ~(InTurn(s, x, r) /\ x = r) /\ ~InTurn(s, x, t)
    BY <1>3, <1>4, <1>6, <1>7 DEF InTurn
  <2>2. ServedFrom(S, more, t, s, e + 1)
    BY <2>1, <1>5 DEF ServedFrom
  <2>3. e + 1 \in Int
    OBVIOUS
  <2> QED
    BY <2>2, <2>3, <1>6, Zenon DEF c
<1>8. CASE t # s
  <2>1. \A x \in 0..(c - 1) : (InTurn(s, x, t) <=> InTurn(s, x, r) \/ x = r) /\ ~(InTurn(s, x, r) /\ x = r)
    BY <1>3, <1>4, <1>6, <1>8 DEF InTurn
  <2>2. ServedFrom(S, more, t, s, e)
    BY <2>1, <1>5 DEF ServedFrom
  <2> QED
    BY <2>2, <1>6, Zenon DEF c
<1> QED
  BY <1>7, <1>8, Zenon

(* The same taken from everybody changes nothing.                            *)
LEMMA EvenShifts ==
    ASSUME NEW S, NEW due, NEW less, NEW d \in Int, NEW r, Even(S, due, r),
           \A n \in S : due[n] \in Int /\ less[n] = due[n] - d
    PROVE  Even(S, less, r)
<1>1. SUFFICES ASSUME S # {}
               PROVE  \E s \in 0..(Cardinality(S) - 1), e \in Int : ServedFrom(S, less, r, s, e)
  BY Zenon DEF Even
<1>2. PICK s \in 0..(Cardinality(S) - 1), e \in Int : ServedFrom(S, due, r, s, e)
  BY <1>1, Zenon DEF Even
<1>3. ServedFrom(S, less, r, s, e - d)
  BY <1>2 DEF ServedFrom
<1>4. e - d \in Int
  OBVIOUS
<1> QED
  BY <1>3, <1>4, Zenon

(* Then nobody has been served twice more than another.                      *)
LEMMA EvenMeans ==
    ASSUME NEW S, NEW due, NEW r, Even(S, due, r), NEW m \in S, NEW n \in S
    PROVE  due[m] <= due[n] + 1
<1>1. PICK s \in 0..(Cardinality(S) - 1), e \in Int : ServedFrom(S, due, r, s, e)
  BY Zenon DEF Even
<1>2. due[m] \in {e, e + 1} /\ due[n] \in {e, e + 1}
  BY <1>1 DEF ServedFrom
<1> QED
  BY <1>2

-----------------------------------------------------------------------------
(* The slots that are live now. *)
Now == Up(slots, history)

(* A connection that counts for the load and has not come to its slot.       *)
InFlight(p) == counts[p]

(* The turn it has taken: its step in the first pass, and in the second what *)
(* is left of it, with the live slots it has passed over.                    *)
Turn(p) == IF pc[p] = "count" THEN k[p] % Cardinality(Now) ELSE k[p] + Rank(Now, i[p])

(* The connections that are on their way to slot n.                          *)
Owed(n) == {p \in Picks : InFlight(p) /\ Turn(p) = Rank(Now, n)}

(* The load of each slot when those have come.                               *)
Due == [n \in 1..Size |-> load[n] + Cardinality(Owed(n))]

Undisturbed(p) ==
    InFlight(p) => ~sticky /\ pc[p] \in {"count", "choose"} /\ snap[p] = slots /\ stable[p]

(* With those on their way the load is that of a rotation that stands at the *)
(* counter's turn.                                                           *)
RotationInv ==
    /\ \A p \in Picks : Undisturbed(p)
    /\ ~sticky => Even(Now, Due, counter % Cardinality(Now))

(* What the proof knows of the types.                                        *)
LEMMA RotationTypes ==
    ASSUME TypeOK
    PROVE  /\ Size \in Nat \ {0} /\ Now \in SUBSET (1..Size)
           /\ Cardinality(Now) \in 0..Size /\ (Cardinality(Now) = 0 <=> Now = {})
           /\ counter \in Nat /\ (Now # {} => counter % Cardinality(Now) \in 0..(Cardinality(Now) - 1))
<1>1. Now \in SUBSET (1..Size) /\ Size \in Nat \ {0}
  BY SizeAssumption, Zenon DEF Now, Up
<1>2. Cardinality(Now) \in 0..Size /\ (Cardinality(Now) = 0 <=> Now = {})
  BY <1>1, LiveCount, Zenon
<1>3. counter \in Nat
  BY SizeAssumption DEF TypeOK
<1>4. Now # {} => Cardinality(Now) \in Nat \ {0}
  <2>1. Cardinality(Now) \in Nat
    BY <1>1, <1>2
  <2> QED
    BY <1>2, <2>1, Zenon
<1> QED
  BY <1>1, <1>2, <1>3, <1>4, Remainder, Zenon

(* Of finitely many connections finitely many are on their way.              *)
LEMMA OwedCount ==
    ASSUME IsFiniteSet(Picks), NEW n
    PROVE  IsFiniteSet(Owed(n)) /\ Cardinality(Owed(n)) \in Nat
<1>1. Owed(n) \subseteq Picks
  BY Zenon DEF Owed
<1>2. IsFiniteSet(Owed(n))
  BY <1>1, FS_Subset, Zenon
<1> QED
  BY <1>2, FS_CardinalityType, Zenon

(* The load that is due is a number.                                         *)
LEMMA DueNumbers ==
    ASSUME IsFiniteSet(Picks), TypeOK, NEW n \in 1..Size
    PROVE  Due[n] = load[n] + Cardinality(Owed(n)) /\ Due[n] \in Int /\ load[n] \in Nat
<1>1. Cardinality(Owed(n)) \in Nat
  BY OwedCount, Zenon
<1>2. load[n] \in Nat
  BY Zenon DEF TypeOK
<1>3. Due[n] = load[n] + Cardinality(Owed(n))
  BY Zenon DEF Due
<1> QED
  BY <1>1, <1>2, <1>3

(* With nobody on the way the load is what counts.                           *)
LEMMA NobodyOwed ==
    ASSUME TypeOK, NEW n \in 1..Size, \A p \in Picks : ~InFlight(p)
    PROVE  Due[n] = load[n]
<1>1. Owed(n) = {}
  BY Zenon DEF Owed
<1>2. Cardinality(Owed(n)) = 0
  BY <1>1, FS_EmptySet, Zenon
<1>3. load[n] \in Nat /\ Due[n] = load[n] + Cardinality(Owed(n))
  BY Zenon DEF TypeOK, Due
<1> QED
  BY <1>2, <1>3

(* A step that moves no connection to another turn.                          *)
LEMMA SameTurns ==
    ASSUME RotationInv, sticky' = sticky, slots' = slots, Now' = Now, counter' = counter, load' = load,
           \A q \in Picks : /\ Undisturbed(q)'
                            /\ InFlight(q)' <=> InFlight(q)
                            /\ InFlight(q) => Turn(q)' = Turn(q)
    PROVE  RotationInv'
<1>1. ASSUME NEW n \in 1..Size PROVE Owed(n)' = Owed(n)
  BY Zenon DEF Owed
<1>2. Due' = Due
  BY <1>1, Zenon DEF Due
<1> QED
  BY <1>2, Zenon DEF RotationInv

(* The connections a step does not touch keep their turn and their peace.    *)
LEMMA OtherPick ==
    ASSUME sticky' = sticky, slots' = slots, Now' = Now, NEW q \in Picks, Undisturbed(q),
           pc'[q] = pc[q], snap'[q] = snap[q], k'[q] = k[q], i'[q] = i[q],
           stable'[q] = stable[q], counts'[q] = counts[q]
    PROVE  /\ Undisturbed(q)'
           /\ InFlight(q)' <=> InFlight(q)
           /\ Turn(q)' = Turn(q)
<1>1. InFlight(q)' <=> InFlight(q)
  BY Zenon DEF InFlight
<1>2. Turn(q)' = Turn(q)
  BY Zenon DEF Turn
<1> QED
  BY <1>1, <1>2, Zenon DEF Undisturbed

(* In flight, a pick sees the slots that are live now.                       *)
LEMMA FlightSees ==
    ASSUME IInv, NEW p \in Picks, Undisturbed(p), InFlight(p)
    PROVE  up[p] = Now /\ stable[p] /\ snap[p] = slots
BY Zenon DEF IInv, Passes, Undisturbed, Running, Now

(* The count begins again with nobody on the way.                            *)
LEMMA Restarts ==
    ASSUME TypeOK', load' = [n \in 1..Size |-> 0], \A q \in Picks : ~InFlight(q)'
    PROVE  RotationInv'
<1>1. \A q \in Picks : Undisturbed(q)'
  BY Zenon DEF Undisturbed
<1>2. /\ Now' \in SUBSET (1..Size)
      /\ Now' # {} => counter' % Cardinality(Now') \in 0..(Cardinality(Now') - 1)
  <2>1. Now' \in SUBSET (1..Size)
    BY Zenon DEF Now, Up
  <2>2. Cardinality(Now') \in 0..Size /\ (Cardinality(Now') = 0 <=> Now' = {})
    BY <2>1, LiveCount, Zenon
  <2>3. Cardinality(Now') \in Nat /\ counter' \in Nat
    BY <2>2, SizeAssumption DEF TypeOK
  <2>4. Now' # {} => Cardinality(Now') \in Nat \ {0}
    BY <2>2, <2>3, Zenon
  <2> QED
    BY <2>1, <2>3, <2>4, Remainder, Zenon
<1>3. ASSUME NEW n \in Now' PROVE Due'[n] = 0
  <2>1. n \in 1..Size
    BY <1>2, Zenon
  <2>2. Owed(n)' = {}
    BY Zenon DEF Owed
  <2>3. Cardinality(Owed(n)') = 0
    BY <2>2, FS_EmptySet, Zenon
  <2>4. Due'[n] = 0 + Cardinality(Owed(n)')
    BY <2>1, Zenon DEF Due
  <2> QED
    BY <2>3, <2>4
<1>4. Even(Now', Due', counter' % Cardinality(Now'))
  BY <1>2, <1>3, EvenStarts, Zenon
<1> QED
  BY <1>1, <1>4, Zenon DEF RotationInv

(* A connection takes the counter's turn and the counter goes on; a probe    *)
(* and a sticky connection leave both.  Out of order the count begins again. *)
LEMMA TurnRotation ==
    ASSUME IsFiniteSet(Picks), IInv, TypeOK, TypeOK', RotationInv, sticky' = sticky,
           NEW p \in Picks, NEW h \in Hashes, NEW probe \in BOOLEAN, TakeTurn(p, h, probe)
    PROVE  RotationInv'
<1>1. /\ slots' = slots /\ history' = history /\ Now' = Now /\ snap' = snap /\ stable'[p] = TRUE
      /\ pc[p] = "turn" /\ pc'[p] = (IF sticky THEN "home" ELSE "count")
      /\ (~sticky => k'[p] = counter)
  BY Zenon DEF TakeTurn, Now, TypeOK
<1>2. ~InFlight(p)
  BY <1>1, Zenon DEF RotationInv, Undisturbed
<1>3. CASE ~sticky /\ ~probe /\ ~InOrder(p)
  <2>1. load' = [n \in 1..Size |-> 0] /\ \A q \in Picks : ~InFlight(q)'
    BY <1>3, Zenon DEF TakeTurn, InFlight
  <2> QED
    BY <2>1, Restarts, Zenon
<1>4. CASE sticky \/ probe \/ InOrder(p)
  <2>1. load' = load /\ counts'[p] = (~sticky /\ ~probe /\ InOrder(p))
    BY <1>4, Zenon DEF TakeTurn
  <2>2. ASSUME NEW q \in Picks, q # p
        PROVE  Undisturbed(q)' /\ (InFlight(q)' <=> InFlight(q)) /\ Turn(q)' = Turn(q)
    <3>1. counts'[q] <=> counts[q]
      BY <1>4, <2>2, Zenon DEF TakeTurn
    <3>2. counts' \in [Picks -> BOOLEAN] /\ counts \in [Picks -> BOOLEAN]
      BY Zenon DEF TypeOK
    <3>3. counts'[q] = counts[q]
      BY <3>1, <3>2
    <3>4. pc'[q] = pc[q] /\ k'[q] = k[q] /\ i'[q] = i[q] /\ stable'[q] = stable[q]
      BY <2>2, Zenon DEF TakeTurn, TypeOK
    <3>5. Undisturbed(q)
      BY Zenon DEF RotationInv
    <3> QED
      BY <1>1, <3>3, <3>4, <3>5, OtherPick, Zenon
  <2>3. CASE sticky \/ probe
    <3>1. ~InFlight(p)' /\ counter' = counter
      BY <2>1, <2>3, Zenon DEF InFlight, TakeTurn, rotate
    <3>2. Undisturbed(p)'
      BY <3>1, Zenon DEF Undisturbed
    <3> QED
      BY <1>1, <1>2, <2>1, <2>2, <3>1, <3>2, SameTurns, Zenon
  <2>4. CASE ~sticky /\ ~probe /\ InOrder(p)
    <3> DEFINE r == counter % Cardinality(Now)
               t == IF r + 1 = Cardinality(Now) THEN 0 ELSE r + 1
    <3>1. InFlight(p)' /\ Turn(p)' = r
      BY <1>1, <2>1, <2>4, Zenon DEF InFlight, Turn
    <3>2. counter' = (counter + 1) % CounterModulus /\ snap[p] = slots /\ counter < CounterModulus - 1
      BY <2>4, Zenon DEF TakeTurn, rotate, InOrder
    <3>3. ASSUME NEW n \in Now PROVE Due'[n] = Due[n] + (IF Rank(Now, n) = r THEN 1 ELSE 0) /\ Due[n] \in Int
      <4>1. n \in 1..Size
        BY Zenon DEF Now, Up
      <4>2. Owed(n)' = IF Rank(Now, n) = r THEN Owed(n) \cup {p} ELSE Owed(n)
        BY <1>1, <1>2, <2>2, <3>1, Zenon DEF Owed
      <4>3. p \notin Owed(n)
        BY <1>2, Zenon DEF Owed
      <4>4. IsFiniteSet(Owed(n)) /\ Cardinality(Owed(n)) \in Nat
        BY OwedCount, Zenon
      <4>5. Cardinality(Owed(n) \cup {p}) = Cardinality(Owed(n)) + 1
        BY <4>3, <4>4, FS_AddElement, Zenon
      <4>6. Due[n] = load[n] + Cardinality(Owed(n)) /\ load[n] \in Nat /\ Due[n] \in Int
        BY <4>1, DueNumbers, Zenon
      <4>7. Due'[n] = load[n] + Cardinality(Owed(n)')
        BY <2>1, <4>1, Zenon DEF Due
      <4>8. CASE Rank(Now, n) = r
        BY <4>2, <4>4, <4>5, <4>6, <4>7, <4>8
      <4>9. CASE Rank(Now, n) # r
        BY <4>2, <4>4, <4>6, <4>7, <4>9
      <4> QED
        BY <4>8, <4>9, Zenon
    <3>4. Even(Now, Due, r)
      BY <2>4, Zenon DEF RotationInv
    <3>5. Now \in SUBSET (1..Size) /\ (Now # {} => r \in 0..(Cardinality(Now) - 1))
      BY RotationTypes, Zenon
    <3>6. Even(Now, Due', t)
      <4> HIDE DEF r
      <4> QED
        BY <3>3, <3>4, <3>5, EvenServes, Zenon
    <3>7. Now # {} => counter' % Cardinality(Now) = t
      <4> SUFFICES ASSUME Now # {} PROVE counter' % Cardinality(Now) = t
        BY Zenon
      <4>1. Cardinality(Now) \in Nat \ {0}
        BY RotationTypes, SizeAssumption
      <4>2. counter \in 0..(CounterModulus - 1)
        BY Zenon DEF TypeOK
      <4> QED
        BY <3>2, <4>1, <4>2, NextTurn, Zenon
    <3>8. Even(Now, Due', counter' % Cardinality(Now))
      BY <3>6, <3>7, Zenon DEF Even
    <3>9. Undisturbed(p)'
      BY <1>1, <2>4, <3>2, Zenon DEF Undisturbed
    <3> QED
      BY <1>1, <2>2, <3>8, <3>9, Zenon DEF RotationInv
  <2> QED
    BY <1>4, <2>3, <2>4, Zenon
<1> QED
  BY <1>3, <1>4, Zenon

(* A pick that does not count ends, or one that finds nothing live.          *)
LEMMA ChooseAside ==
    ASSUME TypeOK, RotationInv, sticky' = sticky, NEW p \in Picks, NEW j \in 1..Size, Choose(p, j),
           ~InFlight(p) \/ Now = {}
    PROVE  RotationInv'
<1>1. slots' = slots /\ history' = history /\ counter' = counter /\ Now' = Now
  BY Zenon DEF Choose, Now
<1>2. ASSUME NEW q \in Picks, q # p
      PROVE  Undisturbed(q)' /\ (InFlight(q)' <=> InFlight(q)) /\ Turn(q)' = Turn(q)
  <2>1. /\ pc'[q] = pc[q] /\ snap'[q] = snap[q] /\ k'[q] = k[q] /\ i'[q] = i[q]
        /\ stable'[q] = stable[q] /\ counts'[q] = counts[q]
    BY <1>2, Zenon DEF Choose, TypeOK
  <2>2. Undisturbed(q)
    BY Zenon DEF RotationInv
  <2> QED
    BY <1>1, <2>1, <2>2, OtherPick, Zenon
<1>3. Undisturbed(p)' /\ ~InFlight(p)'
  BY Zenon DEF Choose, TypeOK, Undisturbed, InFlight
<1>4. CASE ~InFlight(p)
  <2>1. load' = load
    BY <1>4, Zenon DEF InFlight, Choose
  <2> QED
    BY <1>1, <1>2, <1>3, <1>4, <2>1, SameTurns, Zenon
<1>5. CASE Now = {}
  BY <1>1, <1>2, <1>3, <1>5, Zenon DEF RotationInv, Even
<1> QED
  BY <1>4, <1>5, Zenon

(* The second pass comes to the slot whose turn it was: the connection is no *)
(* longer on its way, and counted.                                           *)
LEMMA TakeRotation ==
    ASSUME IsFiniteSet(Picks), IInv, TypeOK, RotationInv, sticky' = sticky,
           NEW p \in Picks, TakeSlot(p), InFlight(p)
    PROVE  RotationInv'
<1> DEFINE j == i[p]
           more == [load EXCEPT ![j] = @ + 1]
           all == {more[n] : n \in Now}
           least == Least(all)
<1>0. /\ pc[p] = "choose" /\ j <= Size /\ snap[p][j] \in history /\ k[p] = 0 /\ Choose(p, j)
  BY Zenon DEF TakeSlot, slotAlive
<1>1. slots' = slots /\ history' = history /\ counter' = counter /\ Now' = Now
  BY <1>0, Zenon DEF Choose, Now
<1>2. ASSUME NEW q \in Picks, q # p
      PROVE  Undisturbed(q)' /\ (InFlight(q)' <=> InFlight(q)) /\ Turn(q)' = Turn(q)
  <2>1. /\ pc'[q] = pc[q] /\ snap'[q] = snap[q] /\ k'[q] = k[q] /\ i'[q] = i[q]
        /\ stable'[q] = stable[q] /\ counts'[q] = counts[q]
    BY <1>0, <1>2, Zenon DEF Choose, TypeOK
  <2>2. Undisturbed(q)
    BY Zenon DEF RotationInv
  <2> QED
    BY <1>1, <2>1, <2>2, OtherPick, Zenon
<1>3. Undisturbed(p)' /\ ~InFlight(p)'
  BY <1>0, Zenon DEF Choose, TypeOK, Undisturbed, InFlight
<1>4. j \in 1..Size
  BY <1>0, SizeAssumption DEF TypeOK
<1>5. j \in Now
  <2>1. snap[p] = slots
    BY FlightSees, Zenon DEF RotationInv
  <2> QED
    BY <1>0, <1>4, <2>1, Zenon DEF Now, Up
<1>6. Now \in SUBSET (1..Size)
  BY RotationTypes, Zenon
<1>7. Turn(p) = Rank(Now, j)
  <2>1. Rank(Now, j) \in 0..(Cardinality(Now) - 1)
    BY <1>5, <1>6, RankBelow, Zenon
  <2>2. Turn(p) = 0 + Rank(Now, j)
    BY <1>0, Zenon DEF Turn
  <2> QED
    BY <2>1, <2>2
<1>8. more \in [1..Size -> Nat] /\ \A n \in 1..Size : more[n] = IF n = j THEN load[n] + 1 ELSE load[n]
  BY <1>4 DEF TypeOK
<1>9. load' = [n \in 1..Size |-> IF more[n] > least THEN more[n] - least ELSE 0]
  <2>1. counts[p]
    BY Zenon DEF InFlight
  <2> QED
    BY <1>0, <1>5, <2>1, Zenon DEF Choose, Now
<1> HIDE DEF j, more, least
<1>10. least \in Nat /\ \A n \in Now : least <= more[n]
  <2>1. all \in SUBSET Nat /\ all # {}
    BY <1>5, <1>6, <1>8, Zenon
  <2> HIDE DEF all
  <2>2. least \in all /\ \A x \in all : least <= x
    BY <2>1, LeastNumber, Zenon DEF least
  <2> QED
    BY <2>1, <2>2, Zenon DEF all
<1>11. ASSUME NEW n \in Now PROVE Due'[n] = Due[n] - least /\ Due[n] \in Int
  <2>1. n \in 1..Size
    BY <1>6, Zenon
  <2>2. Rank(Now, n) = Rank(Now, j) <=> n = j
    BY <1>5, <1>6, RankTells, Zenon
  <2>3. Owed(n)' = IF n = j THEN Owed(n) \ {p} ELSE Owed(n)
    BY <1>1, <1>2, <1>3, <1>7, <2>2, Zenon DEF Owed
  <2>4. n = j => p \in Owed(n)
    BY <1>7, Zenon DEF Owed
  <2>5. IsFiniteSet(Owed(n)) /\ Cardinality(Owed(n)) \in Nat
    BY OwedCount, Zenon
  <2>6. n = j => Cardinality(Owed(n) \ {p}) = Cardinality(Owed(n)) - 1
    BY <2>4, <2>5, FS_RemoveElement, Zenon
  <2>7. Due[n] = load[n] + Cardinality(Owed(n)) /\ load[n] \in Nat /\ Due[n] \in Int
    BY <2>1, DueNumbers, Zenon
  <2>8. load'[n] = more[n] - least
    <3>1. load'[n] = IF more[n] > least THEN more[n] - least ELSE 0
      BY <1>9, <2>1, Zenon
    <3>2. more[n] \in Nat /\ least \in Nat /\ least <= more[n]
      BY <1>8, <1>10, <2>1, Zenon
    <3> QED
      BY <3>1, <3>2
  <2>9. Due'[n] = load'[n] + Cardinality(Owed(n)')
    BY <2>1, Zenon DEF Due
  <2>10. more[n] = IF n = j THEN load[n] + 1 ELSE load[n]
    BY <1>8, <2>1, Zenon
  <2>11. CASE n = j
    BY <1>10, <2>3, <2>5, <2>6, <2>7, <2>8, <2>9, <2>10, <2>11
  <2>12. CASE n # j
    BY <1>10, <2>3, <2>5, <2>7, <2>8, <2>9, <2>10, <2>12
  <2> QED
    BY <2>11, <2>12, Zenon
<1>12. ~sticky => Even(Now, Due', counter % Cardinality(Now))
  <2>1. least \in Int
    BY <1>10
  <2>2. ~sticky => Even(Now, Due, counter % Cardinality(Now))
    BY Zenon DEF RotationInv
  <2> QED
    BY <1>11, <2>1, <2>2, EvenShifts, Zenon
<1> QED
  BY <1>1, <1>2, <1>3, <1>12, Zenon DEF RotationInv

(* A connection that goes on keeps the turn it has taken.                    *)
LEMMA FlightKeepsTurn ==
    ASSUME IInv, TypeOK, NEW p \in Picks, Undisturbed(p), InFlight(p), Now' = Now,
           CountSlot(p) \/ SomeLive(p) \/ SkipLive(p) \/ SkipDead(p)
    PROVE  Turn(p)' = Turn(p)
<1>0. up[p] = Now /\ stable[p] /\ snap[p] = slots
  BY FlightSees, Zenon
<1>1. /\ Size \in Nat \ {0} /\ Now \in SUBSET (1..Size) /\ Cardinality(Now) \in 0..Size
      /\ i[p] \in 1..(Size + 1) /\ k[p] \in Nat
  BY RotationTypes, Zenon DEF TypeOK
<1>2. CASE CountSlot(p)
  <2>1. pc[p] = "count" /\ pc' = pc /\ k' = k
    BY <1>2, Zenon DEF CountSlot
  <2> QED
    BY <2>1, Zenon DEF Turn
<1>3. CASE SomeLive(p)
  <2>1. /\ pc[p] = "count" /\ pc'[p] = "choose" /\ i[p] > Size /\ i'[p] = 1
        /\ k'[p] = k[p] % live[p] /\ live[p] > 0 /\ live[p] \in 0..Size
    BY <1>3, Zenon DEF SomeLive, TypeOK
  <2>2. live[p] = Cardinality(up[p] \cap (1..(i[p] - 1)))
    BY <1>0, <2>1, Zenon DEF IInv, Passes
  <2>3. i[p] - 1 = Size
    BY <1>1, <2>1
  <2>4. Now \cap (1..Size) = Now
    BY <1>1, Zenon
  <2>5. live[p] = Cardinality(Now)
    BY <1>0, <2>2, <2>3, <2>4, Zenon
  <2>6. Rank(Now, 1) = 0
    <3>1. Now \cap (1..(1 - 1)) = {}
      OBVIOUS
    <3> QED
      BY <3>1, FS_EmptySet, Zenon DEF Rank
  <2>7. k[p] % Cardinality(Now) \in Nat
    <3>1. Cardinality(Now) \in Nat \ {0}
      BY <1>1, <2>1, <2>5
    <3>2. k[p] % Cardinality(Now) \in 0..(Cardinality(Now) - 1)
      BY <1>1, <3>1, Remainder, Zenon
    <3> QED
      BY <3>1, <3>2
  <2>8. Turn(p)' = (k[p] % Cardinality(Now)) + Rank(Now, 1)
    BY <2>1, <2>5, Zenon DEF Turn
  <2>9. Turn(p) = k[p] % Cardinality(Now)
    BY <2>1, Zenon DEF Turn
  <2> QED
    BY <2>6, <2>7, <2>8, <2>9
<1>4. CASE SkipLive(p) \/ SkipDead(p)
  <2>1. /\ pc[p] = "choose" /\ pc'[p] = "choose" /\ i[p] <= Size /\ i'[p] = i[p] + 1
        /\ \/ snap[p][i[p]] \in history /\ k'[p] = k[p] - 1
           \/ snap[p][i[p]] \notin history /\ k'[p] = k[p]
    BY <1>4, Zenon DEF SkipLive, SkipDead, slotAlive, TypeOK
  <2>2. i[p] \in 1..Size /\ i[p] - 1 \in Int /\ 1 \in Int /\ i'[p] - 1 = i[p]
    BY <1>1, <2>1
  <2>3. i[p] \in Now <=> snap[p][i[p]] \in history
    BY <1>0, <2>2, Zenon DEF Now, Up
  <2>4. Rank(Now, i[p]) \in Nat
    BY <1>1, <2>2, RankNumber, Zenon
  <2>5. Rank(Now, i'[p]) = IF i[p] \in Now THEN Rank(Now, i[p]) + 1 ELSE Rank(Now, i[p])
    BY <1>1, <2>2, OneMoreBehind, Zenon DEF Rank
  <2>6. Turn(p)' = k'[p] + Rank(Now, i'[p]) /\ Turn(p) = k[p] + Rank(Now, i[p])
    BY <2>1, Zenon DEF Turn
  <2>7. CASE i[p] \in Now
    <3>1. k'[p] = k[p] - 1 /\ Rank(Now, i'[p]) = Rank(Now, i[p]) + 1
      BY <2>1, <2>3, <2>5, <2>7, Zenon
    <3> QED
      BY <1>1, <2>4, <2>6, <3>1
  <2>8. CASE i[p] \notin Now
    <3>1. k'[p] = k[p] /\ Rank(Now, i'[p]) = Rank(Now, i[p])
      BY <2>1, <2>3, <2>5, <2>8, Zenon
    <3> QED
      BY <2>6, <3>1, Zenon
  <2> QED
    BY <2>7, <2>8, Zenon
<1> QED
  BY <1>2, <1>3, <1>4, Zenon

(* A step of the passes, or the end of a connection, serves nobody.          *)
LEMMA PassRotation ==
    ASSUME IInv, TypeOK, RotationInv, sticky' = sticky, NEW p \in Picks,
           \/ FallsBack(p) \/ PickBegins(p) \/ HomeIsDead(p) \/ PickEnds(p)
           \/ CountSlot(p) \/ SomeLive(p) \/ SkipLive(p) \/ SkipDead(p)
    PROVE  RotationInv'
<1>1. slots' = slots /\ history' = history /\ counter' = counter /\ load' = load /\ Now' = Now
  BY Zenon DEF FallsBack, PickBegins, HomeIsDead, CountSlot, SomeLive, SkipLive, SkipDead, PickEnds, watchVars, Now
<1>2. ASSUME NEW q \in Picks, q # p
      PROVE  Undisturbed(q)' /\ (InFlight(q)' <=> InFlight(q)) /\ Turn(q)' = Turn(q)
  <2>1. /\ pc'[q] = pc[q] /\ snap'[q] = snap[q] /\ k'[q] = k[q] /\ i'[q] = i[q]
        /\ stable'[q] = stable[q] /\ counts'[q] = counts[q]
    BY <1>2, Zenon DEF FallsBack, PickBegins, HomeIsDead, CountSlot, SomeLive, SkipLive, SkipDead, PickEnds,
                       watchVars, TypeOK
  <2>2. Undisturbed(q)
    BY Zenon DEF RotationInv
  <2> QED
    BY <1>1, <2>1, <2>2, OtherPick, Zenon
<1>3. Undisturbed(p)
  BY Zenon DEF RotationInv
<1>4. Undisturbed(p)' /\ (InFlight(p)' <=> InFlight(p)) /\ (InFlight(p) => Turn(p)' = Turn(p))
  <2>1. CASE FallsBack(p) \/ PickBegins(p) \/ HomeIsDead(p) \/ PickEnds(p)
    <3>1. pc[p] \notin {"count", "choose"} /\ counts' = counts
      BY <2>1, Zenon DEF FallsBack, PickBegins, HomeIsDead, PickEnds, watchVars
    <3>2. ~InFlight(p)
      BY <1>3, <3>1, Zenon DEF Undisturbed
    <3> QED
      BY <3>1, <3>2, Zenon DEF Undisturbed, InFlight
  <2>2. CASE CountSlot(p) \/ SomeLive(p) \/ SkipLive(p) \/ SkipDead(p)
    <3>1. /\ pc[p] \in {"count", "choose"} /\ pc'[p] \in {"count", "choose"}
          /\ snap' = snap /\ stable' = stable /\ counts' = counts
      BY <2>2, Zenon DEF CountSlot, SomeLive, SkipLive, SkipDead, watchVars, TypeOK
    <3>2. InFlight(p)' <=> InFlight(p)
      BY <3>1, Zenon DEF InFlight
    <3>3. Undisturbed(p)'
      BY <1>1, <1>3, <3>1, <3>2, Zenon DEF Undisturbed
    <3>4. InFlight(p) => Turn(p)' = Turn(p)
      BY <1>1, <1>3, <2>2, FlightKeepsTurn, Zenon
    <3> QED
      BY <3>2, <3>3, <3>4, Zenon
  <2> QED
    BY <2>1, <2>2, Zenon
<1> QED
  BY <1>1, <1>2, <1>4, SameTurns, Zenon

(* Every step of a connection keeps the rotation even.                       *)
LEMMA PickRotation ==
    ASSUME IsFiniteSet(Picks), IInv, TypeOK, TypeOK', RotationInv, sticky' = sticky,
           NEW p \in Picks, Pick(p)
    PROVE  RotationInv'
<1>0. /\ Undisturbed(p) /\ Passes(p) /\ home[p] \in 1..Size /\ i[p] \in 1..(Size + 1) /\ k[p] \in Nat
      /\ Size \in Nat \ {0} /\ Now \in SUBSET (1..Size)
  BY RotationTypes, Zenon DEF RotationInv, IInv, TypeOK
<1>1. CASE \E h \in Hashes, probe \in BOOLEAN : TakeTurn(p, h, probe)
  BY <1>1, TurnRotation, Zenon
<1>2. CASE PickHome(p)
  <2>1. ~InFlight(p)
    BY <1>0, <1>2, Zenon DEF PickHome, Undisturbed
  <2> QED
    BY <1>0, <1>2, <2>1, ChooseAside, Zenon DEF PickHome
<1>3. CASE NoneLive(p)
  <2>1. pc[p] = "count" /\ i[p] - 1 = Size /\ live[p] = 0 /\ Choose(p, home[p])
    BY <1>0, <1>3 DEF NoneLive
  <2>2. InFlight(p) => Now = {}
    <3> SUFFICES ASSUME InFlight(p) PROVE Now = {}
      BY Zenon
    <3>1. up[p] = Now /\ stable[p]
      BY <1>0, FlightSees, Zenon
    <3>2. Cardinality(Now \cap (1..Size)) = 0
      BY <1>0, <2>1, <3>1, Zenon DEF Passes
    <3>3. 1 \in Int /\ Size \in Int
      BY <1>0
    <3>4. Now \cap (1..Size) = {}
      BY <1>0, <3>2, <3>3, SlotSets, Zenon
    <3> QED
      BY <1>0, <3>4, Zenon
  <2> QED
    BY <1>0, <2>1, <2>2, ChooseAside, Zenon
<1>4. CASE TakeSlot(p)
  <2>1. Choose(p, i[p]) /\ i[p] \in 1..Size
    <3>1. pc[p] = "choose" /\ i[p] <= Size /\ Choose(p, i[p])
      BY <1>4, Zenon DEF TakeSlot
    <3>2. i[p] \in 1..Size
      BY <1>0, <3>1
    <3> QED
      BY <3>1, <3>2, Zenon
  <2> QED
    BY <1>4, <2>1, TakeRotation, ChooseAside, Zenon
<1>5. CASE SlotsChanged(p)
  <2>1. pc[p] = "choose" /\ i[p] = Size + 1 /\ Choose(p, home[p])
    BY <1>0, <1>5 DEF SlotsChanged
  <2>2. ~stable[p]
    <3>1. up[p] \cap (i[p]..Size) = {}
      BY <1>0, <2>1 DEF TypeOK
    <3>2. Cardinality(up[p] \cap (i[p]..Size)) = 0
      BY <3>1, FS_EmptySet, Zenon
    <3>3. stable[p] => k[p] < 0
      BY <1>0, <2>1, <3>2, Zenon DEF Passes
    <3> QED
      BY <1>0, <3>3
  <2>3. ~InFlight(p)
    BY <1>0, <2>2, Zenon DEF Undisturbed
  <2> QED
    BY <1>0, <2>1, <2>3, ChooseAside, Zenon
<1>6. CASE \/ FallsBack(p) \/ PickBegins(p) \/ HomeIsDead(p) \/ PickEnds(p)
           \/ CountSlot(p) \/ SomeLive(p) \/ SkipLive(p) \/ SkipDead(p)
  BY <1>6, PassRotation, Zenon
<1> QED
  BY <1>1, <1>2, <1>3, <1>4, <1>5, <1>6, Zenon DEF Pick

(* When the live slots stay the same nothing changes; when they do not, the  *)
(* count begins again with nobody on the way.                                *)
LEMMA WatchRotation ==
    ASSUME TypeOK, TypeOK', RotationInv, sticky' = sticky, Watch, UNCHANGED <<counter, pickVars>>
    PROVE  RotationInv'
<1> DEFINE calm == slots' = slots /\ Up(slots, history') = Up(slots, history)
<1>1. pc' = pc /\ snap' = snap /\ k' = k /\ i' = i /\ counter' = counter
  BY Zenon DEF pickVars
<1>2. CASE calm
  <2>1. slots' = slots /\ Now' = Now /\ load' = load
    BY <1>2, Zenon DEF Watch, Now
  <2>2. ASSUME NEW q \in Picks
        PROVE  Undisturbed(q)' /\ (InFlight(q)' <=> InFlight(q)) /\ (InFlight(q) => Turn(q)' = Turn(q))
    <3>1. counts'[q] <=> counts[q]
      BY <1>2, Zenon DEF Watch
    <3>2. InFlight(q)' <=> InFlight(q)
      BY <3>1, Zenon DEF InFlight
    <3>3. Undisturbed(q)
      BY Zenon DEF RotationInv
    <3>4. InFlight(q) => stable'[q]
      BY <1>2, <3>3, Zenon DEF Watch, Undisturbed, Running
    <3>5. Turn(q)' = Turn(q)
      BY <1>1, <2>1, Zenon DEF Turn
    <3> QED
      BY <1>1, <2>1, <3>1, <3>2, <3>3, <3>4, <3>5, Zenon DEF Undisturbed
  <2> QED
    BY <1>1, <2>1, <2>2, SameTurns, Zenon
<1>3. CASE ~calm
  <2>1. load' = [n \in 1..Size |-> 0]
    BY <1>3, Zenon DEF Watch
  <2>2. \A q \in Picks : ~InFlight(q)'
    BY <1>3, Zenon DEF Watch, InFlight
  <2> QED
    BY <2>1, <2>2, Restarts, Zenon
<1> QED
  BY <1>2, <1>3, Zenon

(* Before the first connection nobody has been served.                       *)
LEMMA InitRotation == Init /\ TypeOK => RotationInv
<1> SUFFICES ASSUME Init, TypeOK PROVE RotationInv
  BY Zenon
<1>1. \A q \in Picks : ~InFlight(q) /\ Undisturbed(q)
  BY Zenon DEF Init, InFlight, Undisturbed
<1>2. Now \in SUBSET (1..Size) /\ (Now # {} => counter % Cardinality(Now) \in 0..(Cardinality(Now) - 1))
  BY RotationTypes, Zenon
<1>3. ASSUME NEW n \in Now PROVE Due[n] = 0
  <2>1. n \in 1..Size
    BY <1>2, Zenon
  <2>2. Due[n] = load[n]
    BY <1>1, <2>1, NobodyOwed, Zenon
  <2> QED
    BY <2>1, <2>2, Zenon DEF Init
<1>4. Even(Now, Due, counter % Cardinality(Now))
  BY <1>2, <1>3, EvenStarts, Zenon
<1> QED
  BY <1>1, <1>4, Zenon DEF RotationInv

(* Every step keeps the rotation even, or begins its count again.            *)
LEMMA NextRotation ==
    ASSUME IsFiniteSet(Picks), IInv, TypeOK, TypeOK', RotationInv, [Next]_vars
    PROVE  RotationInv'
<1>0. sticky' = sticky
  BY Zenon DEF Next, vars
<1>1. CASE \E p \in Picks : Pick(p)
  BY <1>0, <1>1, PickRotation, Zenon
<1>2. CASE (\E n \in Nodes : HistoryChanges(n)) \/ (\E s \in Pools : setSlots(s))
  <2>1. Watch /\ UNCHANGED <<counter, pickVars>>
    BY <1>2, Zenon DEF HistoryChanges, setSlots
  <2> QED
    BY <1>0, <2>1, WatchRotation, Zenon
<1>3. CASE UNCHANGED vars
  <2>1. slots' = slots /\ Now' = Now /\ counter' = counter /\ load' = load
    BY <1>3, Zenon DEF vars, watchVars, Now
  <2>2. ASSUME NEW q \in Picks
        PROVE  Undisturbed(q)' /\ (InFlight(q)' <=> InFlight(q)) /\ Turn(q)' = Turn(q)
    <3>1. Undisturbed(q)
      BY Zenon DEF RotationInv
    <3> QED
      BY <1>0, <1>3, <2>1, <3>1, OtherPick, Zenon DEF vars, pickVars, watchVars
  <2> QED
    BY <1>0, <2>1, <2>2, SameTurns, Zenon
<1> QED
  BY <1>1, <1>2, <1>3, Zenon DEF Next

(* With every counted connection at its slot the loads are those of the      *)
(* rotation.                                                                 *)
LEMMA RotationMeans == TypeOK /\ RotationInv => EvenRotation
<1> SUFFICES ASSUME TypeOK, RotationInv, ~sticky, \A p \in Picks : ~counts[p],
                    NEW m \in Now, NEW n \in Now
             PROVE  load[m] <= load[n] + 1
  BY Zenon DEF EvenRotation, Now
<1>1. \A p \in Picks : ~InFlight(p)
  BY Zenon DEF InFlight
<1>2. m \in 1..Size /\ n \in 1..Size
  BY Zenon DEF Now, Up
<1>3. Due[m] = load[m] /\ Due[n] = load[n]
  BY <1>1, <1>2, NobodyOwed, Zenon
<1>4. Even(Now, Due, counter % Cardinality(Now))
  BY Zenon DEF RotationInv
<1>5. Due[m] <= Due[n] + 1
  BY <1>4, EvenMeans, Zenon
<1> QED
  BY <1>3, <1>5, Zenon

(* Without a sticky hash no live slot gets two connections more than another *)
(* while the pool and its health stay the same, for any pool, any width of   *)
(* the counter and any number of concurrent connections, as long as no pick  *)
(* on an older pool takes a turn and the counter does not wrap.              *)
THEOREM RotationIsEven ==
    ASSUME IsFiniteSet(Picks)
    PROVE  Spec => []EvenRotation
<1>1. Init => IInv
  BY InitIInv
<1>2. IInv /\ [Next]_vars => IInv'
  BY NextIInv
<1>3. Spec => []TypeOK
  BY PicksAreSlots
<1>4. Init /\ TypeOK => RotationInv
  BY InitRotation
<1>5. IInv /\ TypeOK /\ TypeOK' /\ RotationInv /\ [Next]_vars => RotationInv'
  BY NextRotation, Zenon
<1>6. TypeOK /\ RotationInv => EvenRotation
  BY RotationMeans
<1> QED
  BY <1>1, <1>2, <1>3, <1>4, <1>5, <1>6, PTL DEF Spec
=============================================================================
