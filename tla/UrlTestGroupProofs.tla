------------------------- MODULE UrlTestGroupProofs -------------------------
(***************************************************************************)
(* Theorems about UrlTestGroup and the choices of UrlTestSelect, for any   *)
(* members, networks, delays and connections.                              *)
(*                                                                         *)
(* Select goes through the members one by one: what it returns is shown by *)
(* induction over them, in the form that a set of numbers has a least one. *)
(***************************************************************************)
EXTENDS UrlTestGroup, WellFoundedInduction, TLAPS

USE SMTT(30), ZenonT(20)

(* Every set of numbers that is not empty has a least one: induction. *)
LEMMA LeastNumber ==
    ASSUME NEW T \in SUBSET Nat, T # {}
    PROVE  \E m \in T : \A n \in T : m <= n
  <1>1. PICK m \in T : \A n \in T : ~ (<<n, m>> \in OpToRel(<, Nat))
    BY NatLessThanWellFounded, WFMin, Zenon
  <1>2. \A n \in T : ~(n < m)
    BY <1>1, Zenon DEF OpToRel
  <1> QED
    BY <1>2

(* What holds before a loop of n rounds, and after a round if before it, holds *)
(* throughout: Good is the set of rounds after which it holds.                 *)
LEMMA LoopInduction ==
    ASSUME NEW n \in Nat, NEW Good, 0 \in Good,
           \A i \in 1..n : i - 1 \in Good => i \in Good
    PROVE  0..n \subseteq Good
  <1> DEFINE Bad == (0..n) \ Good
  <1>1. SUFFICES ASSUME Bad # {} PROVE FALSE
    BY Zenon
  <1>2. PICK m \in Bad : \A i \in Bad : m <= i
    <2>1. Bad \in SUBSET Nat
      OBVIOUS
    <2> HIDE DEF Bad
    <2> QED
      BY <1>1, <2>1, LeastNumber, Zenon
  <1>3. m \in 1..n
    OBVIOUS
  <1>4. m - 1 \in 0..n /\ ~(m <= m - 1)
    BY <1>3
  <1>5. m - 1 \in Good
    BY <1>2, <1>4, Zenon
  <1> QED
    BY <1>3, <1>5, Zenon

(* The courses of a loop of n rounds over states V, whose round i is          *)
(* step[i, state].                                                             *)
Courses(n, V, start, step) ==
    {f \in [0..n -> V] : f[0] = start /\ \A i \in 1..n : f[i] = step[<<i, f[i - 1]>>]}

(* Such a loop has a course. *)
LEMMA LoopRuns ==
    ASSUME NEW n \in Nat, NEW V, NEW start \in V, NEW step \in [(1..n) \X V -> V]
    PROVE  Courses(n, V, start, step) # {}
  <1> DEFINE Runs(k) == \E f \in [0..k -> V] :
                           f[0] = start /\ \A i \in 1..k : f[i] = step[<<i, f[i - 1]>>]
             Fail == {k \in 0..n : ~Runs(k)}
  <1>1. SUFFICES ASSUME Fail # {} PROVE FALSE
    <2>1. n \in 0..n
      OBVIOUS
    <2>2. Fail = {} => Runs(n)
      <3> HIDE DEF Runs
      <3> QED
        BY <2>1, Zenon
    <2> QED
      BY <2>2, Zenon DEF Courses
  <1>2. PICK m \in Fail : \A k \in Fail : m <= k
    <2>1. Fail \in SUBSET Nat
      OBVIOUS
    <2> HIDE DEF Fail
    <2> QED
      BY <1>1, <2>1, LeastNumber, Zenon
  <1>3. Runs(0)
    <2> DEFINE f == [i \in 0..0 |-> start]
    <2>1. f \in [0..0 -> V] /\ f[0] = start /\ \A i \in 1..0 : f[i] = step[<<i, f[i - 1]>>]
      OBVIOUS
    <2> QED
      BY <2>1, Zenon
  <1>4. m \in 1..n
    <2>1. m # 0
      BY <1>3, Zenon
    <2> QED
      BY <2>1
  <1>5. Runs(m - 1)
    <2>1. m - 1 \in 0..n /\ ~(m <= m - 1)
      BY <1>4
    <2> QED
      BY <1>2, <2>1, Zenon
  <1>6. PICK f \in [0..(m - 1) -> V] :
          f[0] = start /\ \A i \in 1..(m - 1) : f[i] = step[<<i, f[i - 1]>>]
    BY <1>5, Zenon
  <1> DEFINE g == [i \in 0..m |-> IF i <= m - 1 THEN f[i] ELSE step[<<m, f[m - 1]>>]]
  <1>7. f[m - 1] \in V
    BY <1>4, <1>6
  <1>8. step[<<m, f[m - 1]>>] \in V
    BY <1>4, <1>7, Zenon
  <1>9. g \in [0..m -> V] /\ g[0] = start
    BY <1>4, <1>6, <1>8
  <1>10. \A i \in 1..m : g[i] = step[<<i, g[i - 1]>>]
    <2>1. ASSUME NEW i \in 1..(m - 1) PROVE g[i] = step[<<i, g[i - 1]>>]
      <3>1. g[i] = f[i] /\ g[i - 1] = f[i - 1]
        BY <1>4
      <3> HIDE DEF g
      <3> QED
        BY <1>6, <3>1, Zenon
    <2>2. g[m] = step[<<m, f[m - 1]>>] /\ g[m - 1] = f[m - 1]
      BY <1>4
    <2>3. \A i \in 1..m : i \in 1..(m - 1) \/ i = m
      BY <1>4
    <2> HIDE DEF g
    <2> QED
      BY <2>1, <2>2, <2>3, Zenon
  <1>11. Runs(m)
    <2> HIDE DEF g
    <2> QED
      BY <1>9, <1>10, Zenon
  <1> QED
    BY <1>11, Zenon

(* First returns a member of the set. *)
LEMMA FirstIsOne ==
    ASSUME NEW S \in SUBSET Nodes, S # {}
    PROVE  First(S) \in S
  <1> DEFINE T == {i \in DOMAIN outbounds : outbounds[i] \in S}
  <1>1. DOMAIN outbounds \in SUBSET Nat
    BY MembersAssumption
  <1>2. T # {}
    BY Zenon DEF Nodes
  <1>3. \E i \in T : \A j \in T : i <= j
    <2>1. T \in SUBSET Nat
      BY <1>1, Zenon
    <2> HIDE DEF T
    <2> QED
      BY <1>2, <2>1, LeastNumber, Zenon
  <1>4. \E i \in DOMAIN outbounds :
           outbounds[i] \in S /\ \A j \in DOMAIN outbounds : outbounds[j] \in S => i <= j
    BY <1>3, Zenon
  <1> QED
    BY <1>4, Zenon DEF First

(* First returns a member of the set, or None. *)
LEMMA FirstOrNone ==
    ASSUME NEW S \in SUBSET Nodes
    PROVE  First(S) \in S \cup {None}
  BY FirstIsOne, Zenon DEF First

(* The fastest node is a candidate. *)
LEMMA FastestIsCandidate ==
    ASSUME NEW net, NEW h
    PROVE  fastestByDelay(net, h) \in Candidates(net, h) \cup {None}
  <1>1. Least(Candidates(net, h), h) \in SUBSET Nodes /\ Least(Candidates(net, h), h) \subseteq Candidates(net, h)
    BY Zenon DEF Least, Candidates, Members
  <1> QED
    BY <1>1, FirstOrNone, Zenon DEF fastestByDelay

(* The best node by penalties is a candidate, and not the one to avoid. *)
LEMMA BestIsCandidate ==
    ASSUME NEW net, NEW h, NEW exclude, NEW p
    PROVE  penaltyBest(net, exclude, h, p) \in (Candidates(net, h) \ {exclude}) \cup {None}
  <1> DEFINE S == Least(Least(Candidates(net, h) \ {exclude}, p), h)
  <1>1. S \in SUBSET Nodes /\ S \subseteq Candidates(net, h) \ {exclude}
    BY Zenon DEF Least, Candidates, Members
  <1> HIDE DEF S
  <1>2. First(S) \in S \cup {None}
    BY <1>1, FirstOrNone, Zenon
  <1>3. penaltyBest(net, exclude, h, p) = First(S)
    BY Zenon DEF penaltyBest, S
  <1> QED
    BY <1>1, <1>2, <1>3, Zenon

(* The history: a delay or Dead. *)
Histories == [Nodes -> Nat \cup {Dead}]

(* What the loop of Select carries from member to member. *)
Bests == [node : Nodes \cup {None}, delay : Nat]

(* The loop begins with the present node, or with none. *)
LEMMA PresentTyped ==
    ASSUME NEW h \in Histories, NEW selected0 \in Nodes \cup {None}
    PROVE  Present(selected0, h) \in Bests
  BY Zenon DEF Present, Histories, Bests

(* A round of the loop keeps what it has, or takes the next member. *)
LEMMA BetterTyped ==
    ASSUME NEW h \in Histories, NEW net, NEW best \in Bests, NEW n \in Nodes
    PROVE  Better(best, n, net, h) \in Bests
  <1>1. n \in Candidates(net, h) => h[n] \in Nat
    BY Zenon DEF Candidates, Histories
  <1> QED
    BY <1>1, Zenon DEF Better, Bests

(* Scan is the course of the loop. *)
LEMMA ScanRuns ==
    ASSUME NEW h \in Histories, NEW net, NEW selected0 \in Nodes \cup {None}
    PROVE  /\ Scan(net, selected0, h) \in [0..Len(outbounds) -> Bests]
           /\ Scan(net, selected0, h)[0] = Present(selected0, h)
           /\ \A i \in 1..Len(outbounds) :
                 Scan(net, selected0, h)[i] = Better(Scan(net, selected0, h)[i - 1], outbounds[i], net, h)
  <1> DEFINE n == Len(outbounds)
             step == [x \in (1..n) \X Bests |-> Better(x[2], outbounds[x[1]], net, h)]
             Course(f) == f = [i \in 0..n |-> IF i = 0 THEN Present(selected0, h)
                                              ELSE Better(f[i - 1], outbounds[i], net, h)]
  <1>0. n \in Nat
    BY MembersAssumption
  <1>1. n \in Nat /\ \A i \in 1..n : outbounds[i] \in Nodes
    BY MembersAssumption
  <1>2. step \in [(1..n) \X Bests -> Bests]
    <2>1. \A x \in (1..n) \X Bests : x[2] \in Bests /\ outbounds[x[1]] \in Nodes
      BY <1>1, Zenon
    <2> QED
      BY <2>1, BetterTyped, Zenon
  <1>3. PICK f \in [0..n -> Bests] : f[0] = Present(selected0, h) /\ \A i \in 1..n : f[i] = step[<<i, f[i - 1]>>]
    <2>1. Present(selected0, h) \in Bests
      BY PresentTyped, Zenon
    <2> HIDE DEF step, n
    <2>2. Courses(n, Bests, Present(selected0, h), step) # {}
      BY <1>0, <1>2, <2>1, LoopRuns, Zenon
    <2> QED
      BY <2>2, Zenon DEF Courses
  <1>4. ASSUME NEW i \in 1..n PROVE f[i] = Better(f[i - 1], outbounds[i], net, h)
    <2>1. i - 1 \in 0..n
      BY <1>1
    <2>2. <<i, f[i - 1]>> \in (1..n) \X Bests
      BY <2>1, Zenon
    <2>3. step[<<i, f[i - 1]>>] = Better(f[i - 1], outbounds[i], net, h)
      BY <2>2, Zenon
    <2> QED
      BY <1>3, <2>3, Zenon
  <1>5. Course(f)
    <2>1. \A i \in 0..n : i = 0 \/ i \in 1..n
      BY <1>1
    <2> HIDE DEF n
    <2> QED
      BY <1>3, <1>4, <2>1, Zenon
  <1>6. Scan(net, selected0, h) = CHOOSE g : Course(g)
    BY Zenon DEF Scan
  <1> DEFINE s == Scan(net, selected0, h)
  <1>7. Course(s)
    <2> HIDE DEF Course
    <2> QED
      BY <1>5, <1>6, Zenon
  <1> HIDE DEF s
  <1>8. DOMAIN s = 0..n /\ s[0] = Present(selected0, h)
    BY <1>1, <1>7
  <1>9. ASSUME NEW i \in 1..n PROVE s[i] = Better(s[i - 1], outbounds[i], net, h)
    BY <1>1, <1>7
  <1>10. \A i \in 0..n : s[i] \in Bests
    <2> DEFINE Good == {i \in 0..n : s[i] \in Bests}
    <2>1. 0 \in Good
      BY <1>0, <1>8, PresentTyped
    <2>2. ASSUME NEW i \in 1..n, i - 1 \in Good PROVE i \in Good
      BY <1>1, <1>9, <2>2, BetterTyped
    <2>3. 0..n \subseteq Good
      <3> HIDE DEF Good
      <3> QED
        BY <1>0, <2>1, <2>2, LoopInduction, Zenon
    <2> QED
      BY <2>3, Zenon
  <1>11. s \in [0..n -> Bests]
    BY <1>7, <1>8, <1>10, Zenon
  <1> QED
    BY <1>8, <1>9, <1>11, Zenon DEF s

(* A history without the two edges: no delay of zero, no sum that overflows. *)
Clear(h) == \A n \in Nodes : h[n] # Dead => h[n] > 0 /\ h[n] + tolerance < DelayModulus

(* Away from the edges a member is taken if there is none yet, or if it is     *)
(* faster by more than the tolerance.                                          *)
LEMMA BetterClear ==
    ASSUME NEW h \in Histories, Clear(h), NEW net, NEW best \in Bests, NEW n \in Nodes
    PROVE  Better(best, n, net, h) =
             IF n \in Candidates(net, h) /\ (best.delay = 0 \/ best.delay > h[n] + tolerance)
               THEN [node |-> n, delay |-> h[n]] ELSE best
  <1>1. \A a, b \in Nat : a < b => a % b = a
    BY Z3
  <1>2. CASE n \notin Candidates(net, h)
    BY <1>2, Zenon DEF Better
  <1>3. CASE n \in Candidates(net, h)
    <2>1. /\ h[n] + tolerance \in Nat /\ DelayModulus \in Nat
          /\ h[n] + tolerance < DelayModulus
      BY <1>3, NumbersAssumption DEF Candidates, Histories, Clear
    <2>2. (h[n] + tolerance) % DelayModulus = h[n] + tolerance
      BY <1>1, <2>1, Zenon
    <2> QED
      BY <2>2, Zenon DEF Better
  <1> QED
    BY <1>2, <1>3, Zenon

(* What the loop of Select knows after round i, with best b: b is a node with  *)
(* its delay; no candidate so far is faster by more than the tolerance; and if *)
(* it has left the present node it has gained more than the tolerance.         *)
Known(i, b, net, selected0, h) ==
    /\ b.delay = 0 <=> b.node = None
    /\ b.node # None => b.delay = h[b.node] /\ h[b.node] # Dead
    /\ \A j \in 1..i : outbounds[j] \in Candidates(net, h) =>
                          b.node # None /\ b.delay <= h[outbounds[j]] + tolerance
    /\ selected0 # None /\ h[selected0] # Dead =>
          b.node = selected0 \/ (b.node # None /\ b.delay + tolerance < h[selected0])

(* Every round keeps it. *)
LEMMA RoundKeepsKnown ==
    ASSUME NEW h \in Histories, Clear(h), NEW net, NEW selected0 \in Nodes \cup {None},
           NEW i \in 1..Len(outbounds), NEW b \in Bests, Known(i - 1, b, net, selected0, h)
    PROVE  Known(i, Better(b, outbounds[i], net, h), net, selected0, h)
  <1> DEFINE n == outbounds[i]
             c == Better(b, n, net, h)
  <1>1. n \in Nodes /\ n # None /\ i \in Nat
    BY MembersAssumption
  <1>2. tolerance \in Nat
    BY NumbersAssumption
  <1>3. \A j \in 1..i : j \in 1..(i - 1) \/ j = i
    BY <1>1
  <1>4. \A m \in Candidates(net, h) : m \in Nodes /\ h[m] \in Nat
    BY Zenon DEF Candidates, Members, Histories
  <1>5. b.delay \in Nat
    BY Zenon DEF Bests
  <1>6. CASE n \in Candidates(net, h) /\ (b.delay = 0 \/ b.delay > h[n] + tolerance)
    <2>1. c = [node |-> n, delay |-> h[n]]
      BY <1>1, <1>6, BetterClear, Zenon
    <2>2. c.node = n /\ c.delay = h[n] /\ h[n] \in Nat /\ h[n] > 0 /\ h[n] # Dead
      BY <1>1, <1>4, <1>6, <2>1 DEF Candidates, Clear
    <2>3. ASSUME NEW j \in 1..i, outbounds[j] \in Candidates(net, h)
          PROVE  c.delay <= h[outbounds[j]] + tolerance
      BY <1>2, <1>3, <1>4, <1>5, <1>6, <2>2, <2>3 DEF Known
    <2>4. ASSUME selected0 # None, h[selected0] # Dead
          PROVE  c.node = selected0 \/ c.delay + tolerance < h[selected0]
      <3>1. h[selected0] \in Nat
        BY <2>4, Zenon DEF Histories
      <3> QED
        BY <1>2, <1>5, <1>6, <2>2, <2>4, <3>1 DEF Known
    <2> HIDE DEF c, n
    <2> QED
      BY <1>1, <2>2, <2>3, <2>4 DEF Known, n, c
  <1>7. CASE ~(n \in Candidates(net, h) /\ (b.delay = 0 \/ b.delay > h[n] + tolerance))
    <2>1. c = b
      BY <1>1, <1>7, BetterClear, Zenon
    <2>2. ASSUME NEW j \in 1..i, outbounds[j] \in Candidates(net, h)
          PROVE  b.node # None /\ b.delay <= h[outbounds[j]] + tolerance
      BY <1>2, <1>3, <1>4, <1>5, <1>7, <2>2 DEF Known
    <2> QED
      BY <2>1, <2>2, Zenon DEF Known
  <1> QED
    BY <1>6, <1>7, Zenon

(* After the last round Select knows it of its choice. *)
LEMMA ScanKnows ==
    ASSUME NEW h \in Histories, Clear(h), NEW net, NEW selected0 \in Nodes \cup {None}
    PROVE  Known(Len(outbounds), Scan(net, selected0, h)[Len(outbounds)], net, selected0, h)
  <1> DEFINE s == Scan(net, selected0, h)
             n == Len(outbounds)
             Good == {i \in 0..n : Known(i, s[i], net, selected0, h)}
  <1>0. n \in Nat
    BY MembersAssumption
  <1>1. /\ s \in [0..n -> Bests] /\ s[0] = Present(selected0, h)
        /\ \A i \in 1..n : s[i] = Better(s[i - 1], outbounds[i], net, h)
    BY ScanRuns, Zenon
  <1> HIDE DEF s
  <1>2. 0 \in Good
    BY <1>0, <1>1, MembersAssumption DEF Known, Present, Clear, Histories
  <1>3. ASSUME NEW i \in 1..n, i - 1 \in Good PROVE i \in Good
    BY <1>0, <1>1, <1>3, RoundKeepsKnown
  <1>4. 0..n \subseteq Good
    <2> HIDE DEF Good, n
    <2> QED
      BY <1>0, <1>2, <1>3, LoopInduction, Zenon
  <1> QED
    BY <1>0, <1>4 DEF s

(* Every candidate is one of the members the loop goes through. *)
LEMMA CandidatesAreListed ==
    ASSUME NEW h, NEW net, NEW m \in Candidates(net, h)
    PROVE  \E j \in 1..Len(outbounds) : outbounds[j] = m
  BY MembersAssumption DEF Candidates, Members, Nodes

(* The choice of Select is within the tolerance of every candidate. *)
LEMMA SelectWithinTolerance ==
    ASSUME NEW h \in Histories, Clear(h), NEW net, NEW selected0 \in Nodes \cup {None},
           Select(net, selected0, h).exists, NEW m \in Candidates(net, h)
    PROVE  h[Select(net, selected0, h).node] <= h[m] + tolerance
  <1> DEFINE b == Scan(net, selected0, h)[Len(outbounds)]
  <1>1. Known(Len(outbounds), b, net, selected0, h)
    BY ScanKnows, Zenon
  <1>2. b.node # None /\ Select(net, selected0, h).node = b.node
    BY Zenon DEF Select
  <1>3. PICK j \in 1..Len(outbounds) : outbounds[j] = m
    BY CandidatesAreListed, Zenon
  <1> HIDE DEF b
  <1>4. b.delay <= h[m] + tolerance /\ b.delay = h[b.node]
    BY <1>1, <1>2, <1>3, Zenon DEF Known
  <1> QED
    BY <1>2, <1>4, Zenon

(* Select leaves a present node that answers only for a gain above the         *)
(* tolerance.                                                                  *)
LEMMA SelectKeepsPresent ==
    ASSUME NEW h \in Histories, Clear(h), NEW net, NEW selected0 \in Nodes,
           h[selected0] # Dead, Select(net, selected0, h).node # selected0
    PROVE  h[selected0] > h[Select(net, selected0, h).node] + tolerance
  <1> DEFINE b == Scan(net, selected0, h)[Len(outbounds)]
  <1>1. Known(Len(outbounds), b, net, selected0, h)
    BY ScanKnows, Zenon
  <1>2. selected0 # None
    BY MembersAssumption, Zenon
  <1>3. b.node # None
    BY <1>1, <1>2, Zenon DEF Known
  <1>4. Select(net, selected0, h).node = b.node
    BY <1>3, Zenon DEF Select
  <1>5. b.delay = h[b.node] /\ b.delay + tolerance < h[selected0]
    BY <1>1, <1>2, <1>3, <1>4, Zenon DEF Known
  <1>6. b \in Bests /\ h[selected0] \in Nat /\ tolerance \in Nat
    BY ScanRuns, MembersAssumption, NumbersAssumption DEF Histories
  <1> HIDE DEF b
  <1> QED
    BY <1>4, <1>5, <1>6, Zenon DEF Bests

(* A loop that begins with a node within the tolerance of all candidates ends  *)
(* with it.                                                                    *)
LEMMA ScanStays ==
    ASSUME NEW h \in Histories, Clear(h), NEW net, NEW node \in Nodes, h[node] # Dead,
           \A m \in Candidates(net, h) : h[node] <= h[m] + tolerance
    PROVE  Scan(net, node, h)[Len(outbounds)] = [node |-> node, delay |-> h[node]]
  <1> DEFINE s == Scan(net, node, h)
             n == Len(outbounds)
             b == [node |-> node, delay |-> h[node]]
             Good == {i \in 0..n : s[i] = b}
  <1>0. n \in Nat /\ node # None /\ tolerance \in Nat /\ h[node] \in Nat /\ h[node] > 0
    BY MembersAssumption, NumbersAssumption DEF Histories, Clear
  <1>1. /\ s[0] = Present(node, h)
        /\ \A i \in 1..n : s[i] = Better(s[i - 1], outbounds[i], net, h)
    BY ScanRuns, Zenon
  <1> HIDE DEF s
  <1>2. 0 \in Good
    BY <1>0, <1>1 DEF Present
  <1>3. b \in Bests
    BY <1>0, Zenon DEF Bests
  <1>4. ASSUME NEW i \in 1..n PROVE Better(b, outbounds[i], net, h) = b
    <2>1. outbounds[i] \in Nodes
      BY MembersAssumption
    <2>2. ASSUME outbounds[i] \in Candidates(net, h) PROVE ~(h[node] > h[outbounds[i]] + tolerance)
      <3>1. h[outbounds[i]] \in Nat
        BY <2>2, Zenon DEF Candidates, Members, Histories
      <3> QED
        BY <1>0, <2>2, <3>1
    <2>3. b.delay = h[node]
      BY Zenon
    <2> HIDE DEF b
    <2> QED
      BY <1>0, <1>3, <2>1, <2>2, <2>3, BetterClear
  <1>5. ASSUME NEW i \in 1..n, i - 1 \in Good PROVE i \in Good
    <2> HIDE DEF b
    <2> QED
      BY <1>0, <1>1, <1>4, <1>5
  <1>6. 0..n \subseteq Good
    <2> HIDE DEF Good, n
    <2> QED
      BY <1>0, <1>2, <1>5, LoopInduction, Zenon
  <1> QED
    BY <1>0, <1>6 DEF s

(* Select chooses again what it has chosen. *)
LEMMA SelectIsStable ==
    ASSUME NEW h \in Histories, Clear(h), NEW net, NEW selected0 \in Nodes \cup {None},
           Select(net, selected0, h).exists
    PROVE  Select(net, Select(net, selected0, h).node, h) = Select(net, selected0, h)
  <1> DEFINE b == Scan(net, selected0, h)[Len(outbounds)]
             c == Scan(net, b.node, h)[Len(outbounds)]
  <1>1. b.node # None /\ Select(net, selected0, h) = [node |-> b.node, exists |-> TRUE]
    BY Zenon DEF Select
  <1>2. b \in Bests
    BY ScanRuns, MembersAssumption
  <1>3. h[b.node] # Dead
    BY <1>1, ScanKnows DEF Known
  <1>4. \A m \in Candidates(net, h) : h[b.node] <= h[m] + tolerance
    BY <1>1, SelectWithinTolerance
  <1>5. b.node \in Nodes
    BY <1>1, <1>2, Zenon DEF Bests
  <1> HIDE DEF b
  <1>6. c = [node |-> b.node, delay |-> h[b.node]]
    BY <1>3, <1>4, <1>5, ScanStays
  <1>7. c.node = b.node
    BY <1>6
  <1>8. Select(net, b.node, h) = [node |-> b.node, exists |-> TRUE]
    BY <1>1, <1>7, Zenon DEF Select
  <1> QED
    BY <1>1, <1>8

(* Select returns a member of the network, the present node, or None. *)
LEMMA SelectTyped ==
    ASSUME NEW h \in Histories, NEW net, NEW selected0 \in Nodes \cup {None}
    PROVE  /\ Select(net, selected0, h).node \in Members(net) \cup {selected0, None}
           /\ Select(net, selected0, h).exists \in BOOLEAN
  <1> DEFINE s == Scan(net, selected0, h)
             n == Len(outbounds)
             Good == {i \in 0..n : s[i].node \in Members(net) \cup {selected0, None}}
  <1>0. n \in Nat
    BY MembersAssumption
  <1>1. /\ s[0] = Present(selected0, h)
        /\ \A i \in 1..n : s[i] = Better(s[i - 1], outbounds[i], net, h)
    BY ScanRuns, Zenon
  <1> HIDE DEF s
  <1>2. 0 \in Good
    BY <1>0, <1>1 DEF Present
  <1>3. ASSUME NEW i \in 1..n, i - 1 \in Good PROVE i \in Good
    <2>1. s[i] = Better(s[i - 1], outbounds[i], net, h) /\ s[i - 1].node \in Members(net) \cup {selected0, None}
      BY <1>0, <1>1, <1>3, Zenon
    <2>2. CASE outbounds[i] \in Candidates(net, h)
      <3>1. outbounds[i] \in Members(net)
        BY <2>2, Zenon DEF Candidates
      <3>2. s[i].node \in {outbounds[i], s[i - 1].node}
        BY <2>1 DEF Better
      <3> QED
        BY <1>0, <2>1, <3>1, <3>2
    <2>3. CASE outbounds[i] \notin Candidates(net, h)
      <3>1. s[i] = s[i - 1]
        BY <2>1, <2>3, Zenon DEF Better
      <3> QED
        BY <1>0, <2>1, <3>1
    <2> QED
      BY <2>2, <2>3, Zenon
  <1>4. 0..n \subseteq Good
    <2> HIDE DEF Good, n
    <2> QED
      BY <1>0, <1>2, <1>3, LoopInduction, Zenon
  <1>5. s[n].node \in Members(net) \cup {selected0, None}
    BY <1>0, <1>4
  <1>6. First(Members(net)) \in Members(net) \cup {None}
    BY FirstOrNone, Zenon DEF Members
  <1> HIDE DEF n
  <1> QED
    BY <1>5, <1>6, Zenon DEF Select, s, n

-----------------------------------------------------------------------------
(* What the policies return. *)

(* An update chooses a member of its network, the present node, or None. *)
LEMMA ChoiceTyped ==
    ASSUME NEW h \in Histories, NEW net, NEW fo \in BOOLEAN, NEW re \in BOOLEAN,
           NEW node \in Nodes \cup {None}, NEW sl, NEW p
    PROVE  /\ selectForUpdate(fo, net, re, node, sl, h, p).node \in Members(net) \cup {node, None}
           /\ selectForUpdate(fo, net, re, node, sl, h, p).exists \in BOOLEAN
  <1>1. penaltyBest(net, None, h, p) \in Members(net) \cup {None}
    BY BestIsCandidate, Zenon DEF Candidates
  <1>2. fastestByDelay(net, h) \in Members(net) \cup {None}
    BY FastestIsCandidate, Zenon DEF Candidates
  <1>3. /\ Select(net, node, h).node \in Members(net) \cup {node, None}
        /\ Select(net, node, h).exists \in BOOLEAN
    BY SelectTyped, Zenon
  <1>4. /\ failoverSelect(net, re, node, sl, h).node \in Members(net) \cup {node, None}
        /\ failoverSelect(net, re, node, sl, h).exists \in BOOLEAN
    BY <1>2, <1>3, Zenon DEF failoverSelect
  <1> QED
    BY <1>1, <1>3, <1>4, Zenon DEF selectForUpdate

(* A dial takes a member of its network, the present node, or None. *)
LEMMA PickTyped ==
    ASSUME NEW h \in Histories, NEW net, NEW node \in Nodes \cup {None}, NEW p
    PROVE  pickForDialNode(net, node, h, p) \in Members(net) \cup {node, None}
  <1>1. penaltyBest(net, None, h, p) \in Members(net) \cup {None}
    BY BestIsCandidate, Zenon DEF Candidates
  <1>2. Select(net, node, h).node \in Members(net) \cup {node, None}
    BY SelectTyped, Zenon
  <1> QED
    BY <1>1, <1>2, Zenon DEF pickForDialNode

(* Outside the emergency mode, and unless it is told to choose anew, failover  *)
(* leaves a node that answers only if the last check found it slow.            *)
LEMMA FailoverHolds ==
    ASSUME NEW h, NEW net, NEW node, node # None, NEW sl, NEW p,
           ~penaltyEmergency(net, h, p), h[node] # Dead, node \notin sl
    PROVE  selectForUpdate(TRUE, net, FALSE, node, sl, h, p).node = node
  BY Zenon DEF selectForUpdate, failoverSelect

-----------------------------------------------------------------------------
(* The inductive invariant. *)

Checks == [pc : {"none", "test", "judge", "mark", "update", "wait", "end"}, force : BOOLEAN, byValve : BOOLEAN,
           phase : {"all", "held", "confirm", "others"}, todo : SUBSET Nodes,
           rest : Seq(Nodes \cup {None}), failed : SUBSET Nodes, slow : SUBSET Nodes]

Updates == [pc : {"free", "choose", "write"}, reselect : BOOLEAN, byCheck : BOOLEAN,
            nets : Seq(Networks), node : Nodes \cup {None}, exists : BOOLEAN]

Connections == [pc : {"idle", "dial", "punish", "fallback"}, net : {"tcp", "udp"},
                packet : BOOLEAN, probe : BOOLEAN, node : Nodes \cup {None}]

Types ==
    /\ failover \in BOOLEAN
    /\ up \subseteq Nodes /\ fresh \subseteq Nodes /\ slow \subseteq Nodes
    /\ history \in [Nodes -> Delays \cup {Dead}]
    /\ selected \in [Networks -> Nodes \cup {None}]
    /\ penalties \in [Nodes -> Nat]
    /\ check \in Checks /\ update \in Updates /\ dial \in [Dials -> Connections]
    /\ valve \in {"closed", "asked", "running", "rest"}
    /\ doubt \subseteq Networks

(* What is selected for a network, about to be written, or being dialled,      *)
(* supports that network.                                                      *)
SelectedOK == \A net \in Networks : selected[net] # None => net \in Supports[selected[net]]

UpdateOK ==
    update.pc = "write" => /\ update.nets # <<>>
                           /\ update.node # None => Head(update.nets) \in Supports[update.node]

DialsOK ==
    \A d \in Dials : dial[d].pc # "idle" =>
        dial[d].node \in Nodes /\ dial[d].net \in Networks /\ dial[d].net \in Supports[dial[d].node]

(* A second probe is of a node that is held. *)
CheckOK == check.pc = "test" /\ check.phase = "confirm" => check.rest # <<>> /\ Head(check.rest) \in Nodes

(* The group knows a node as slow only while the check that found it so goes   *)
(* on, from before its update until after it.                                  *)
SlowOK == slow \subseteq check.slow /\ (check.pc \notin {"update", "wait", "end"} => slow = {})

(* A selection without history, or found slow by the check under way, is in    *)
(* doubt.                                                                      *)
DoubtOK ==
    \A net \in Networks :
        selected[net] # None /\ (history[selected[net]] = Dead \/ selected[net] \in check.slow)
        => net \in doubt

IInv == Types /\ SelectedOK /\ UpdateOK /\ DialsOK /\ CheckOK /\ SlowOK /\ DoubtOK

(* Nothing is selected and nothing is under way at the start. *)
LEMMA InitOK == Init => IInv
  <1> SUFFICES ASSUME Init PROVE IInv
    BY Zenon
  <1>1. NoCheck \in Checks /\ NoUpdate \in Updates /\ NoDial \in Connections
    BY DEF NoCheck, NoUpdate, NoDial, Checks, Updates, Connections
  <1>2. Types
    BY <1>1, ModeAssumption, Zenon DEF Init, Types
  <1>3. SelectedOK /\ DoubtOK
    BY Zenon DEF Init, SelectedOK, DoubtOK
  <1>4. UpdateOK /\ CheckOK /\ SlowOK
    BY Zenon DEF Init, NoUpdate, NoCheck, UpdateOK, CheckOK, SlowOK
  <1>5. DialsOK
    BY Zenon DEF Init, NoDial, DialsOK
  <1> QED
    BY <1>2, <1>3, <1>4, <1>5, Zenon DEF IInv

(* A step of the health check that leaves the selection and the history alone. *)
LEMMA CheckStep ==
    ASSUME IInv, UNCHANGED <<failover, up, history, selected, penalties, slow, update, dial, doubt>>,
           fresh' \subseteq Nodes, valve' \in {"closed", "asked", "running", "rest"},
           check' \in Checks, check'.slow = check.slow \/ check'.slow = {},
           check'.slow = {} => slow = {}, check'.pc \notin {"update", "wait", "end"} => slow = {}, CheckOK'
    PROVE  IInv'
  <1>1. Types'
    BY Zenon DEF IInv, Types
  <1>2. SelectedOK'
    BY Zenon DEF IInv, SelectedOK
  <1>3. UpdateOK'
    BY Zenon DEF IInv, UpdateOK
  <1>4. DialsOK'
    BY Zenon DEF IInv, DialsOK
  <1>5. SlowOK'
    BY Zenon DEF IInv, SlowOK
  <1>6. DoubtOK'
    BY Zenon DEF IInv, DoubtOK
  <1> QED
    BY <1>1, <1>2, <1>3, <1>4, <1>5, <1>6, Zenon DEF IInv

(* A round of probes that begins. *)
LEMMA TestTyped ==
    ASSUME NEW c \in Checks, NEW nodes \in SUBSET Nodes, NEW young,
           NEW phase \in {"all", "held", "confirm", "others"}
    PROVE  /\ Test(c, nodes, phase, young) \in Checks
           /\ Test(c, nodes, phase, young).pc = "test"
           /\ Test(c, nodes, phase, young).phase = phase
           /\ Test(c, nodes, phase, young).slow = c.slow
           /\ Test(c, nodes, phase, young).rest = c.rest
  BY Zenon DEF Test, Checks

(* Forced runs, of a manual test and of the valve. *)
LEMMA ForcedTyped ==
    /\ [NoCheck EXCEPT !.force = TRUE] \in Checks
    /\ [NoCheck EXCEPT !.force = TRUE].slow = {}
    /\ [NoCheck EXCEPT !.force = TRUE, !.byValve = TRUE] \in Checks
    /\ [NoCheck EXCEPT !.force = TRUE, !.byValve = TRUE].slow = {}
  <1>1. NoCheck \in Checks /\ NoCheck.slow = {}
    BY DEF NoCheck, Checks
  <1>2. ASSUME NEW c \in Checks
        PROVE  /\ [c EXCEPT !.force = TRUE] \in Checks
               /\ [c EXCEPT !.force = TRUE].slow = c.slow
               /\ [c EXCEPT !.force = TRUE, !.byValve = TRUE] \in Checks
               /\ [c EXCEPT !.force = TRUE, !.byValve = TRUE].slow = c.slow
    BY Zenon DEF Checks
  <1> QED
    BY <1>1, <1>2, Zenon

(* The nodes that are held, in order. *)
LEMMA HeldTyped ==
    ASSUME selected \in [Networks -> Nodes \cup {None}]
    PROVE  HeldOrder \in Seq(Nodes \cup {None})
  <1>1. NetworkOrder \in Seq(Networks)
    BY ModeAssumption, Zenon
  <1>2. \A i \in DOMAIN NetworkOrder : NetworkOrder[i] \in Networks
    BY <1>1
  <1>3. HeldOrder \in [1..Len(NetworkOrder) -> Nodes \cup {None}]
    BY <1>1, <1>2 DEF HeldOrder
  <1>4. Len(NetworkOrder) \in Nat
    BY <1>1
  <1> QED
    BY <1>3, <1>4

(* A tick begins a check: of the held nodes in mode failover, else of all. *)
LEMMA TickOK == IInv /\ UNCHANGED failover /\ Tick => IInv'
  <1> SUFFICES ASSUME IInv, UNCHANGED failover, Tick PROVE IInv'
    BY Zenon
  <1>1. NoCheck \in Checks /\ NoCheck.slow = {}
    BY DEF NoCheck, Checks
  <1>2. Held \subseteq Nodes
    BY Zenon DEF IInv, Types, Held
  <1> DEFINE c == [NoCheck EXCEPT !.rest = HeldOrder]
  <1>a. HeldOrder \in Seq(Nodes \cup {None})
    BY HeldTyped, Zenon DEF IInv, Types
  <1>b. c \in Checks /\ c.slow = {}
    <2>1. ASSUME NEW k \in Checks
          PROVE  [k EXCEPT !.rest = HeldOrder] \in Checks /\ [k EXCEPT !.rest = HeldOrder].slow = k.slow
      BY <1>a, Zenon DEF Checks
    <2> QED
      BY <1>1, <2>1, Zenon
  <1>c. \E young : check' \in {Test(NoCheck, Nodes, "all", young), Test(NoCheck, Nodes, "others", young),
                               Test(c, Held, "held", young)}
    BY Zenon DEF Tick
  <1> HIDE DEF c
  <1>3. check' \in Checks /\ check'.pc = "test" /\ check'.phase # "confirm" /\ check'.slow = {}
    BY <1>1, <1>2, <1>b, <1>c, TestTyped
  <1>4. slow = {}
    BY Zenon DEF IInv, SlowOK, Tick
  <1>5. CheckOK'
    BY <1>3, Zenon DEF CheckOK
  <1> QED
    BY <1>3, <1>4, <1>5, CheckStep, Zenon DEF Tick, IInv, Types

(* A manual test or an interface update begins a forced check of all nodes. *)
LEMMA URLTestOK == IInv /\ UNCHANGED failover /\ URLTest => IInv'
  <1> SUFFICES ASSUME IInv, UNCHANGED failover, URLTest PROVE IInv'
    BY Zenon
  <1> DEFINE c == [NoCheck EXCEPT !.force = TRUE]
  <1>1. c \in Checks /\ c.slow = {}
    BY ForcedTyped, Zenon
  <1>2. check' = Test(c, Nodes, "all", {})
    BY Zenon DEF URLTest
  <1> HIDE DEF c
  <1>3. check' \in Checks /\ check'.pc = "test" /\ check'.phase # "confirm" /\ check'.slow = {}
    BY <1>1, <1>2, TestTyped
  <1>4. slow = {}
    BY Zenon DEF IInv, SlowOK, URLTest
  <1>5. CheckOK'
    BY <1>3, Zenon DEF CheckOK
  <1>6. UNCHANGED <<failover, up, history, fresh, selected, penalties, slow, update, dial, valve, doubt>>
    BY Zenon DEF URLTest
  <1>7. fresh \subseteq Nodes /\ valve \in {"closed", "asked", "running", "rest"}
    BY Zenon DEF IInv, Types
  <1> QED
    BY <1>3, <1>4, <1>5, <1>6, <1>7, CheckStep, Zenon

(* The valve begins a forced check, or rests while another one runs. *)
LEMMA ForcedRetestOK == IInv /\ UNCHANGED failover /\ ForcedRetest => IInv'
  <1> SUFFICES ASSUME IInv, UNCHANGED failover, ForcedRetest PROVE IInv'
    BY Zenon
  <1> DEFINE c == [NoCheck EXCEPT !.force = TRUE, !.byValve = TRUE]
  <1>1. c \in Checks /\ c.slow = {}
    BY ForcedTyped, Zenon
  <1>2. CASE check.pc = "none"
    <2>0. check' = Test(c, Nodes, "all", {})
      BY <1>2, Zenon DEF ForcedRetest
    <2> HIDE DEF c
    <2>1. check' \in Checks /\ check'.pc = "test" /\ check'.phase # "confirm" /\ check'.slow = {}
      BY <1>1, <2>0, TestTyped
    <2>2. slow = {}
      BY <1>2, Zenon DEF IInv, SlowOK
    <2>3. CheckOK'
      BY <2>1, Zenon DEF CheckOK
    <2> QED
      BY <1>2, <2>1, <2>2, <2>3, CheckStep, Zenon DEF ForcedRetest, IInv, Types
  <1>3. CASE check.pc # "none"
    <2>1. UNCHANGED <<failover, up, history, fresh, selected, penalties, slow, check, update, dial, doubt>>
          /\ valve' = "rest"
      BY <1>3, Zenon DEF ForcedRetest
    <2>2. CheckOK' /\ check' \in Checks /\ fresh' \subseteq Nodes
      BY <2>1, Zenon DEF IInv, CheckOK, Types
    <2>3. slow \subseteq check'.slow /\ (check'.pc \notin {"update", "wait", "end"} => slow = {})
      BY <2>1, Zenon DEF IInv, SlowOK
    <2> QED
      BY <2>1, <2>2, <2>3, CheckStep, Zenon
  <1> QED
    BY <1>2, <1>3, Zenon

(* The valve closes when its gap has passed. *)
LEMMA GapPassesOK == IInv /\ UNCHANGED failover /\ GapPasses => IInv'
  <1> SUFFICES ASSUME IInv, UNCHANGED failover, GapPasses PROVE IInv'
    BY Zenon
  <1>1. UNCHANGED <<failover, up, history, fresh, selected, penalties, slow, check, update, dial, doubt>>
        /\ valve' = "closed"
    BY Zenon DEF GapPasses
  <1>2. CheckOK' /\ check' \in Checks /\ fresh' \subseteq Nodes
    BY <1>1, Zenon DEF IInv, CheckOK, Types
  <1>3. slow \subseteq check'.slow /\ (check'.pc \notin {"update", "wait", "end"} => slow = {})
    BY <1>1, Zenon DEF IInv, SlowOK
  <1> QED
    BY <1>1, <1>2, <1>3, CheckStep, Zenon

(* Only a node that is held is tested a second time. *)
LEMMA JudgeOK == IInv /\ UNCHANGED failover /\ Judge => IInv'
  <1> SUFFICES ASSUME IInv, UNCHANGED failover, Judge PROVE IInv'
    BY Zenon
  <1>1. check \in Checks /\ check.slow \subseteq Nodes /\ check.rest \in Seq(Nodes \cup {None})
    BY Zenon DEF IInv, Types, Checks
  <1>2. slow = {} /\ fresh \subseteq Nodes /\ valve \in {"closed", "asked", "running", "rest"}
    BY Zenon DEF IInv, SlowOK, Judge, Types
  <1>3. NoCheck \in Checks /\ NoCheck.pc = "none" /\ NoCheck.slow = {}
    BY DEF NoCheck, Checks
  <1>4. CASE /\ check.rest # <<>> /\ Head(check.rest) \notin check.failed \cup {None}
             /\ failoverDegraded(Head(check.rest), selected, history)
    <2>1. check' = Test(check, {Head(check.rest)}, "confirm", {})
      BY <1>4, Zenon DEF Judge
    <2>2. Head(check.rest) \in Nodes
      BY <1>1, <1>4
    <2>3. check' \in Checks /\ check'.slow = check.slow /\ check'.rest = check.rest
      BY <1>1, <2>1, <2>2, TestTyped
    <2>4. CheckOK'
      BY <1>4, <2>2, <2>3, Zenon DEF CheckOK
    <2> QED
      BY <1>2, <2>3, <2>4, CheckStep, Zenon DEF Judge
  <1>5. CASE /\ check.rest # <<>>
             /\ ~(/\ Head(check.rest) \notin check.failed \cup {None}
                  /\ failoverDegraded(Head(check.rest), selected, history))
    <2>1. check' = [check EXCEPT !.rest = Tail(@)]
      BY <1>5, Zenon DEF Judge
    <2>2. Tail(check.rest) \in Seq(Nodes \cup {None})
      BY <1>1, <1>5
    <2>3. check' \in Checks /\ check'.slow = check.slow /\ check'.pc = check.pc
      BY <1>1, <2>1, <2>2, Zenon DEF Checks
    <2>4. CheckOK'
      BY <2>3, Zenon DEF CheckOK, Judge
    <2> QED
      BY <1>2, <2>3, <2>4, CheckStep, Zenon DEF Judge
  <1>6. CASE check.rest = <<>>
    <2>1. PICK young \in SUBSET fresh :
            check' = IF check.failed \cup check.slow = {} THEN NoCheck
                     ELSE Test([check EXCEPT !.failed = {}], Nodes \ (check.failed \cup check.slow), "others", young)
      BY <1>6, Zenon DEF Judge
    <2>2. CASE check.failed \cup check.slow = {}
      <3>1. check' = NoCheck
        BY <2>1, <2>2, Zenon
      <3>2. CheckOK'
        BY <1>3, <3>1, Zenon DEF CheckOK
      <3> QED
        BY <1>2, <1>3, <3>1, <3>2, CheckStep, Zenon DEF Judge
    <2>3. CASE check.failed \cup check.slow # {}
      <3> DEFINE c == [check EXCEPT !.failed = {}]
      <3>0. c \in Checks /\ c.slow = check.slow
        BY <1>1, Zenon DEF Checks
      <3>1. check' = Test(c, Nodes \ (check.failed \cup check.slow), "others", young)
        BY <2>1, <2>3, Zenon
      <3> HIDE DEF c
      <3>2. check' \in Checks /\ check'.slow = check.slow /\ check'.phase = "others"
        BY <3>0, <3>1, TestTyped
      <3>3. CheckOK'
        BY <3>2, Zenon DEF CheckOK
      <3> QED
        BY <1>2, <3>2, <3>3, CheckStep, Zenon DEF Judge
    <2> QED
      BY <2>2, <2>3, Zenon
  <1> QED
    BY <1>4, <1>5, <1>6, Zenon

(* A step that stores or deletes the history of one node. *)
LEMMA StoreKeepsDoubt ==
    ASSUME IInv, NEW n \in Nodes, NEW delay \in Delays, StoreHistory(n, delay), UNCHANGED selected,
           check'.slow = check.slow
    PROVE  history' \in [Nodes -> Delays \cup {Dead}] /\ doubt' \subseteq Networks /\ DoubtOK'
  <1>1. history \in [Nodes -> Delays \cup {Dead}] /\ selected \in [Networks -> Nodes \cup {None}]
    BY Zenon DEF IInv, Types
  <1>2. delay # Dead
    BY ModeAssumption, NumbersAssumption DEF Dead
  <1>3. history' = [history EXCEPT ![n] = delay] /\ doubt' = doubt
    BY Zenon DEF StoreHistory
  <1>4. DoubtOK'
    BY <1>1, <1>2, <1>3, Zenon DEF IInv, DoubtOK
  <1> QED
    BY <1>1, <1>3, <1>4, Zenon DEF IInv, Types

(* A node that loses its history puts the networks it is selected for in doubt. *)
LEMMA DeleteKeepsDoubt ==
    ASSUME IInv, NEW n \in Nodes, DeleteHistory(n), UNCHANGED selected, check'.slow = check.slow
    PROVE  /\ history' \in [Nodes -> Delays \cup {Dead}] /\ doubt' \subseteq Networks /\ DoubtOK'
           /\ fresh' \subseteq Nodes
  <1>1. history \in [Nodes -> Delays \cup {Dead}] /\ selected \in [Networks -> Nodes \cup {None}]
    BY Zenon DEF IInv, Types
  <1>2. /\ history' = [history EXCEPT ![n] = Dead] /\ fresh' = fresh \ {n}
        /\ doubt' = doubt \cup {net \in Networks : selected[net] = n}
    BY Zenon DEF DeleteHistory
  <1>3. DoubtOK'
    BY <1>1, <1>2, Zenon DEF IInv, DoubtOK
  <1> QED
    BY <1>1, <1>2, <1>3, Zenon DEF IInv, Types

(* A step that changes only what is known of the nodes, and the set of those   *)
(* still to be probed.                                                         *)
LEMMA KnowledgeStep ==
    ASSUME IInv, UNCHANGED <<failover, selected, slow, update, dial, valve>>,
           up' \subseteq Nodes, fresh' \subseteq Nodes, history' \in [Nodes -> Delays \cup {Dead}],
           penalties' \in [Nodes -> Nat], doubt' \subseteq Networks, DoubtOK',
           \E todo \in SUBSET Nodes : check' = [check EXCEPT !.todo = todo]
    PROVE  IInv'
  <1>0. PICK todo \in SUBSET Nodes : check' = [check EXCEPT !.todo = todo]
    BY Zenon
  <1>1. check \in Checks
    BY Zenon DEF IInv, Types
  <1>2. /\ check' \in Checks /\ check'.pc = check.pc /\ check'.phase = check.phase
        /\ check'.rest = check.rest /\ check'.slow = check.slow
    BY <1>0, <1>1, Zenon DEF Checks
  <1>3. Types'
    BY <1>2, Zenon DEF IInv, Types
  <1>4. SelectedOK'
    BY Zenon DEF IInv, SelectedOK
  <1>5. UpdateOK'
    BY Zenon DEF IInv, UpdateOK
  <1>6. DialsOK'
    BY Zenon DEF IInv, DialsOK
  <1>7. CheckOK' /\ SlowOK'
    BY <1>2, Zenon DEF IInv, CheckOK, SlowOK
  <1> QED
    BY <1>3, <1>4, <1>5, <1>6, <1>7, Zenon DEF IInv

(* Resetting or adding to the penalties of a node. *)
LEMMA PenaltiesTyped ==
    ASSUME IInv, NEW n \in Nodes, penaltyReset(n) \/ penaltyAdd(n)
    PROVE  penalties' \in [Nodes -> Nat]
  BY DEF IInv, Types, penaltyReset, penaltyAdd

(* A probe that is answered stores a delay and clears the penalties. *)
LEMMA ProbeAnswersOK ==
    ASSUME IInv, UNCHANGED failover, NEW n \in Nodes, NEW delay \in Delays, ProbeAnswers(n, delay)
    PROVE  IInv'
  <1>1. check \in Checks /\ up \subseteq Nodes /\ fresh \subseteq Nodes
    BY Zenon DEF IInv, Types
  <1>2. check' = [check EXCEPT !.todo = @ \ {n}]
    BY Zenon DEF ProbeAnswers
  <1>3. check.todo \ {n} \in SUBSET Nodes
    BY <1>1, Zenon DEF Checks
  <1>4. check'.slow = check.slow
    BY <1>1, <1>2, Zenon DEF Checks
  <1>5. /\ UNCHANGED <<up, selected, slow, update, dial, valve>> /\ fresh' = fresh \cup {n}
        /\ penaltyReset(n) /\ StoreHistory(n, delay)
    BY Zenon DEF ProbeAnswers
  <1>6. penalties' \in [Nodes -> Nat]
    BY <1>5, PenaltiesTyped, Zenon
  <1>7. history' \in [Nodes -> Delays \cup {Dead}] /\ doubt' \subseteq Networks /\ DoubtOK'
    BY <1>4, <1>5, StoreKeepsDoubt, Zenon
  <1>8. up' \subseteq Nodes /\ fresh' \subseteq Nodes
    BY <1>1, <1>5, Zenon
  <1>9. \E todo \in SUBSET Nodes : check' = [check EXCEPT !.todo = todo]
    BY <1>2, <1>3, Zenon
  <1> QED
    BY <1>5, <1>6, <1>7, <1>8, <1>9, KnowledgeStep, Zenon

(* A probe that fails deletes the history of its node. *)
LEMMA ProbeFailsOK ==
    ASSUME IInv, UNCHANGED failover, NEW n \in Nodes, ProbeFails(n)
    PROVE  IInv'
  <1>1. check \in Checks /\ up \subseteq Nodes /\ penalties \in [Nodes -> Nat]
    BY Zenon DEF IInv, Types
  <1>2. check' = [check EXCEPT !.todo = @ \ {n}]
    BY Zenon DEF ProbeFails
  <1>3. check.todo \ {n} \in SUBSET Nodes
    BY <1>1, Zenon DEF Checks
  <1>4. check'.slow = check.slow
    BY <1>1, <1>2, Zenon DEF Checks
  <1>5. UNCHANGED <<up, selected, penalties, slow, update, dial, valve>> /\ DeleteHistory(n)
    BY Zenon DEF ProbeFails
  <1>6. /\ history' \in [Nodes -> Delays \cup {Dead}] /\ doubt' \subseteq Networks /\ DoubtOK'
        /\ fresh' \subseteq Nodes
    BY <1>4, <1>5, DeleteKeepsDoubt, Zenon
  <1>7. \E todo \in SUBSET Nodes : check' = [check EXCEPT !.todo = todo]
    BY <1>2, <1>3, Zenon
  <1>8. up' \subseteq Nodes /\ penalties' \in [Nodes -> Nat]
    BY <1>1, <1>5, Zenon
  <1> QED
    BY <1>5, <1>6, <1>7, <1>8, KnowledgeStep, Zenon

(* Nothing is probed, and the check stays. *)
LEMMA SameTodo ==
    ASSUME IInv, UNCHANGED check
    PROVE  \E todo \in SUBSET Nodes : check' = [check EXCEPT !.todo = todo]
  <1>1. check \in Checks
    BY Zenon DEF IInv, Types
  <1>2. check.todo \in SUBSET Nodes /\ check = [check EXCEPT !.todo = check.todo]
    BY <1>1, Zenon DEF Checks
  <1> QED
    BY <1>2, Zenon

(* Another writer of the shared history stores or deletes. *)
LEMMA OtherWriterOK ==
    ASSUME IInv, UNCHANGED failover, NEW n \in Nodes, OtherWriter(n)
    PROVE  IInv'
  <1>1. up \subseteq Nodes /\ fresh \subseteq Nodes /\ penalties \in [Nodes -> Nat]
    BY Zenon DEF IInv, Types
  <1>2. UNCHANGED <<up, selected, penalties, slow, check, update, dial, valve>>
    BY Zenon DEF OtherWriter
  <1>3. /\ history' \in [Nodes -> Delays \cup {Dead}] /\ doubt' \subseteq Networks /\ DoubtOK'
        /\ fresh' \subseteq Nodes
    <2>1. CASE DeleteHistory(n)
      BY <1>2, <2>1, DeleteKeepsDoubt, Zenon
    <2>2. CASE ~DeleteHistory(n)
      <3>1. PICK delay \in Delays : StoreHistory(n, delay)
        BY <2>2, Zenon DEF OtherWriter
      <3>2. fresh' = fresh \cup {n}
        BY <2>2, Zenon DEF OtherWriter
      <3> QED
        BY <1>1, <1>2, <3>1, <3>2, StoreKeepsDoubt, Zenon
    <2> QED
      BY <2>1, <2>2, Zenon
  <1>4. up' \subseteq Nodes /\ penalties' \in [Nodes -> Nat]
    BY <1>1, <1>2, Zenon
  <1> QED
    BY <1>2, <1>3, <1>4, SameTodo, KnowledgeStep, Zenon

(* The end of a round of probes.  A second probe that is slow again puts the   *)
(* networks of its node in doubt.                                              *)
LEMMA ProbesEndOK == IInv /\ UNCHANGED failover /\ ProbesEnd => IInv'
  <1> SUFFICES ASSUME IInv, UNCHANGED failover, ProbesEnd PROVE IInv'
    BY Zenon
  <1> DEFINE n == Head(check.rest)
             degraded == failoverDegraded(n, selected, history)
  <1>1. /\ check \in Checks /\ fresh \subseteq Nodes /\ selected \in [Networks -> Nodes \cup {None}]
        /\ doubt \subseteq Networks
    BY Zenon DEF IInv, Types
  <1>2. UNCHANGED <<up, history, selected, penalties, slow, update, dial, valve>> /\ check.pc = "test"
    BY Zenon DEF ProbesEnd
  <1>3. fresh' \subseteq Nodes
    BY <1>1, Zenon DEF ProbesEnd
  <1>4. slow = {}
    BY <1>2, Zenon DEF IInv, SlowOK
  <1>5. /\ check' \in Checks /\ check'.pc \in {"judge", "mark", "update"}
        /\ \/ check'.slow = check.slow /\ doubt' = doubt
           \/ /\ check'.slow = check.slow \cup {n}
              /\ doubt' = doubt \cup {net \in Networks : selected[net] = n}
    <2>1. CASE check.phase = "held"
      <3> DEFINE gone == {m \in Nodes : history[m] = Dead /\ \E i \in DOMAIN check.rest : check.rest[i] = m}
      <3>1. gone \in SUBSET Nodes
        BY Zenon
      <3>3. check' = [check EXCEPT !.pc = "judge", !.failed = gone] /\ doubt' = doubt
        BY <2>1, Zenon DEF ProbesEnd
      <3> HIDE DEF gone
      <3> HIDE DEF n
      <3> QED
        BY <1>1, <3>1, <3>3, Zenon DEF Checks
    <2>2. CASE check.phase = "confirm"
      <3>1. check.rest # <<>> /\ n \in Nodes
        BY <1>2, <2>2, Zenon DEF IInv, CheckOK
      <3>2. Tail(check.rest) \in Seq(Nodes \cup {None})
        BY <1>1, <3>1 DEF Checks
      <3>3. PICK f \in SUBSET Nodes : check' = [check EXCEPT !.pc = "judge", !.rest = Tail(@), !.failed = f,
                                            !.slow = IF degraded THEN @ \cup {n} ELSE @]
        <4>1. (IF history[n] = Dead THEN check.failed \cup {n} ELSE check.failed) \in SUBSET Nodes
          BY <1>1, <3>1, Zenon DEF Checks
        <4>2. check' = [check EXCEPT !.pc = "judge", !.rest = Tail(@),
                           !.failed = IF history[n] = Dead THEN @ \cup {n} ELSE @,
                           !.slow = IF degraded THEN @ \cup {n} ELSE @]
          BY <2>2, Zenon DEF ProbesEnd
        <4> QED
          BY <4>1, <4>2, Zenon
      <3>4. doubt' = IF degraded THEN doubt \cup {net \in Networks : selected[net] = n} ELSE doubt
        BY <2>2, Zenon DEF ProbesEnd
      <3> HIDE DEF n, degraded
      <3>5. check.slow \cup {n} \in SUBSET Nodes
        BY <1>1, <3>1, Zenon DEF Checks
      <3>6. CASE degraded
        BY <1>1, <3>2, <3>3, <3>4, <3>5, <3>6, Zenon DEF Checks
      <3>7. CASE ~degraded
        BY <1>1, <3>2, <3>3, <3>4, <3>7, Zenon DEF Checks
      <3> QED
        BY <3>6, <3>7, Zenon
    <2>3. CASE check.phase \notin {"held", "confirm"}
      <3>1. /\ check' \in {[check EXCEPT !.pc = "update"], [check EXCEPT !.pc = "mark"]}
            /\ doubt' = doubt
        BY <2>3, Zenon DEF ProbesEnd
      <3> HIDE DEF n
      <3> QED
        BY <1>1, <3>1, Zenon DEF Checks
    <2> QED
      BY <2>1, <2>2, <2>3, Zenon
  <1> HIDE DEF n
  <1>6. doubt' \subseteq Networks
    BY <1>1, <1>5, Zenon
  <1>7. Types'
    BY <1>2, <1>3, <1>5, <1>6, Zenon DEF IInv, Types
  <1>8. SelectedOK' /\ UpdateOK' /\ DialsOK'
    BY <1>2, Zenon DEF IInv, SelectedOK, UpdateOK, DialsOK
  <1>9. CheckOK' /\ SlowOK'
    BY <1>2, <1>4, <1>5, Zenon DEF CheckOK, SlowOK
  <1>10. DoubtOK'
    BY <1>1, <1>2, <1>5, Zenon DEF IInv, DoubtOK
  <1> QED
    BY <1>7, <1>8, <1>9, <1>10, Zenon DEF IInv

(* A step of an update that chooses or ends. *)
LEMMA UpdateStep ==
    ASSUME IInv, UNCHANGED <<failover, up, history, fresh, selected, penalties, dial, doubt>>,
           valve' \in {"closed", "asked", "running", "rest"}, slow' \subseteq Nodes, check' \in Checks,
           check'.slow \subseteq check.slow, update' \in Updates, UpdateOK', CheckOK', SlowOK'
    PROVE  IInv'
  <1>1. Types'
    BY Zenon DEF IInv, Types
  <1>2. SelectedOK'
    BY Zenon DEF IInv, SelectedOK
  <1>3. DialsOK'
    BY Zenon DEF IInv, DialsOK
  <1>4. DoubtOK'
    BY Zenon DEF IInv, DoubtOK
  <1> QED
    BY <1>1, <1>2, <1>3, <1>4, Zenon DEF IInv

(* An update that begins. *)
LEMMA BegunTyped ==
    ASSUME NEW re \in BOOLEAN, NEW by \in BOOLEAN
    PROVE  /\ [NoUpdate EXCEPT !.pc = "choose", !.reselect = re, !.byCheck = by, !.nets = NetworkOrder] \in Updates
           /\ [NoUpdate EXCEPT !.pc = "choose", !.reselect = re, !.byCheck = by, !.nets = NetworkOrder].pc = "choose"
           /\ [NoUpdate EXCEPT !.pc = "choose", !.nets = NetworkOrder] \in Updates
           /\ [NoUpdate EXCEPT !.pc = "choose", !.nets = NetworkOrder].pc = "choose"
  <1>1. NoUpdate \in Updates
    BY DEF NoUpdate, Updates
  <1>2. NetworkOrder \in Seq(Networks)
    BY ModeAssumption, Zenon
  <1>3. ASSUME NEW u \in Updates
        PROVE  /\ [u EXCEPT !.pc = "choose", !.reselect = re, !.byCheck = by, !.nets = NetworkOrder] \in Updates
               /\ [u EXCEPT !.pc = "choose", !.reselect = re, !.byCheck = by, !.nets = NetworkOrder].pc = "choose"
               /\ [u EXCEPT !.pc = "choose", !.nets = NetworkOrder] \in Updates
               /\ [u EXCEPT !.pc = "choose", !.nets = NetworkOrder].pc = "choose"
    BY <1>2, Zenon DEF Updates
  <1> QED
    BY <1>1, <1>3, Zenon

(* The group learns which nodes the check found slow. *)
LEMMA MarkSlowOK == IInv /\ UNCHANGED failover /\ MarkSlow => IInv'
  <1> SUFFICES ASSUME IInv, UNCHANGED failover, MarkSlow PROVE IInv'
    BY Zenon
  <1>1. check \in Checks /\ valve \in {"closed", "asked", "running", "rest"} /\ update \in Updates
    BY Zenon DEF IInv, Types
  <1>2. check' \in Checks /\ check'.pc = "update" /\ check'.slow = check.slow /\ check.slow \subseteq Nodes
    BY <1>1, Zenon DEF MarkSlow, Checks
  <1>3. slow' = check.slow /\ UNCHANGED <<up, history, fresh, selected, penalties, update, dial, valve, doubt>>
    BY Zenon DEF MarkSlow
  <1>4. UpdateOK'
    BY <1>3, Zenon DEF IInv, UpdateOK
  <1>5. CheckOK' /\ SlowOK'
    BY <1>2, <1>3, Zenon DEF CheckOK, SlowOK
  <1> QED
    BY <1>1, <1>2, <1>3, <1>4, <1>5, UpdateStep, Zenon

(* The check ends, and the group forgets which nodes it found slow. *)
LEMMA CheckEndsOK == IInv /\ UNCHANGED failover /\ CheckEnds => IInv'
  <1> SUFFICES ASSUME IInv, UNCHANGED failover, CheckEnds PROVE IInv'
    BY Zenon
  <1>1. valve \in {"closed", "asked", "running", "rest"} /\ update \in Updates
    BY Zenon DEF IInv, Types
  <1>2. NoCheck \in Checks /\ NoCheck.pc = "none" /\ NoCheck.slow = {}
    BY DEF NoCheck, Checks
  <1>3. /\ check' = NoCheck /\ slow' = {} /\ valve' \in {"rest", valve}
        /\ UNCHANGED <<up, history, fresh, selected, penalties, update, dial, doubt>>
    BY Zenon DEF CheckEnds
  <1>4. UpdateOK'
    BY <1>3, Zenon DEF IInv, UpdateOK
  <1>5. CheckOK' /\ SlowOK'
    BY <1>2, <1>3, Zenon DEF CheckOK, SlowOK
  <1> QED
    BY <1>1, <1>2, <1>3, <1>4, <1>5, UpdateStep, Zenon

(* The update of a check begins. *)
LEMMA UpdateByCheckOK == IInv /\ UNCHANGED failover /\ UpdateByCheck => IInv'
  <1> SUFFICES ASSUME IInv, UNCHANGED failover, UpdateByCheck PROVE IInv'
    BY Zenon
  <1>1. check \in Checks /\ slow \subseteq Nodes /\ valve \in {"closed", "asked", "running", "rest"}
    BY Zenon DEF IInv, Types
  <1>2. /\ check' \in Checks /\ check'.pc = "wait" /\ check'.slow = check.slow
        /\ check.force \in BOOLEAN
    BY <1>1, Zenon DEF UpdateByCheck, Checks
  <1>3. update' \in Updates /\ update'.pc = "choose"
    BY <1>2, BegunTyped, Zenon DEF UpdateByCheck
  <1>4. UNCHANGED <<up, history, fresh, selected, penalties, slow, dial, valve, doubt>>
    BY Zenon DEF UpdateByCheck
  <1>5. UpdateOK' /\ CheckOK' /\ SlowOK'
    BY <1>2, <1>3, <1>4, Zenon DEF IInv, UpdateOK, CheckOK, SlowOK
  <1> QED
    BY <1>1, <1>2, <1>3, <1>4, <1>5, UpdateStep, Zenon

(* An update that no check asked for begins. *)
LEMMA PerformUpdateCheckOK == IInv /\ UNCHANGED failover /\ performUpdateCheck => IInv'
  <1> SUFFICES ASSUME IInv, UNCHANGED failover, performUpdateCheck PROVE IInv'
    BY Zenon
  <1>1. check \in Checks /\ valve \in {"closed", "asked", "running", "rest"} /\ slow \subseteq Nodes
    BY Zenon DEF IInv, Types
  <1>2. update' \in Updates /\ update'.pc = "choose"
    BY BegunTyped, Zenon DEF performUpdateCheck
  <1>3. UNCHANGED <<up, history, fresh, selected, penalties, slow, check, dial, valve, doubt>>
    BY Zenon DEF performUpdateCheck
  <1>4. UpdateOK'
    BY <1>2, Zenon DEF UpdateOK
  <1>5. CheckOK' /\ SlowOK'
    BY <1>3, Zenon DEF IInv, CheckOK, SlowOK
  <1> QED
    BY <1>1, <1>2, <1>3, <1>4, <1>5, UpdateStep, Zenon

(* The histories of the group are those the policies speak of. *)
LEMMA HistoriesTyped == Types => history \in Histories
  <1>1. Delays \subseteq Nat
    BY ModeAssumption, NumbersAssumption
  <1>2. ASSUME history \in [Nodes -> Delays \cup {Dead}] PROVE history \in [Nodes -> Nat \cup {Dead}]
    BY <1>1, <1>2, Zenon
  <1> QED
    BY <1>2, Zenon DEF Types, Histories

(* The node that an update chooses supports the network it is chosen for. *)
LEMMA ChooseNodeOK == IInv /\ UNCHANGED failover /\ ChooseNode => IInv'
  <1> SUFFICES ASSUME IInv, UNCHANGED failover, ChooseNode PROVE IInv'
    BY Zenon
  <1> DEFINE net == Head(update.nets)
             best == selectForUpdate(failover, net, update.reselect, selected[net], slow, history, penalties)
  <1>1. /\ check \in Checks /\ valve \in {"closed", "asked", "running", "rest"} /\ slow \subseteq Nodes
        /\ update \in Updates /\ selected \in [Networks -> Nodes \cup {None}] /\ failover \in BOOLEAN
    BY Zenon DEF IInv, Types
  <1>2. update.nets # <<>> /\ update.nets \in Seq(Networks) /\ update.reselect \in BOOLEAN
    BY <1>1, Zenon DEF ChooseNode, Updates
  <1>3. net \in Networks
    BY <1>2
  <1>4. selected[net] \in Nodes \cup {None}
    BY <1>1, <1>3, Zenon
  <1>5. history \in Histories
    BY HistoriesTyped, Zenon DEF IInv
  <1>6. best.node \in Members(net) \cup {selected[net], None} /\ best.exists \in BOOLEAN
    <2> HIDE DEF net
    <2> QED
      BY <1>1, <1>2, <1>4, <1>5, ChoiceTyped, ZenonT(60)
  <1>7. update' = [update EXCEPT !.pc = "write", !.node = best.node, !.exists = best.exists]
    BY Zenon DEF ChooseNode
  <1>8. best.node \in Nodes \cup {None} /\ (best.node # None => net \in Supports[best.node])
    <2> HIDE DEF best, net
    <2> QED
      BY <1>3, <1>4, <1>6, Zenon DEF Members, IInv, SelectedOK
  <1> HIDE DEF best
  <1>9. /\ update' \in Updates /\ update'.nets = update.nets /\ update'.node = best.node
    BY <1>1, <1>6, <1>7, <1>8, Zenon DEF Updates
  <1>10. UpdateOK'
    BY <1>2, <1>8, <1>9, Zenon DEF UpdateOK
  <1>11. UNCHANGED <<up, history, fresh, selected, penalties, slow, check, dial, valve, doubt>>
    BY Zenon DEF ChooseNode
  <1>12. CheckOK' /\ SlowOK'
    BY <1>11, Zenon DEF IInv, CheckOK, SlowOK
  <1> QED
    BY <1>1, <1>9, <1>10, <1>11, <1>12, UpdateStep, Zenon

(* An update ends, and the check that made it goes on. *)
LEMMA UpdateEndsOK == IInv /\ UNCHANGED failover /\ UpdateEnds => IInv'
  <1> SUFFICES ASSUME IInv, UNCHANGED failover, UpdateEnds PROVE IInv'
    BY Zenon
  <1>1. check \in Checks /\ valve \in {"closed", "asked", "running", "rest"} /\ slow \subseteq Nodes
    BY Zenon DEF IInv, Types
  <1>2. update' \in Updates /\ UpdateOK'
    BY DEF UpdateEnds, NoUpdate, Updates, UpdateOK
  <1>3. UNCHANGED <<up, history, fresh, selected, penalties, slow, dial, valve, doubt>>
    BY Zenon DEF UpdateEnds
  <1>4. CASE update.byCheck
    <2>1. check' \in Checks /\ check'.pc = "end" /\ check'.slow = check.slow
      BY <1>1, <1>4, Zenon DEF UpdateEnds, Checks
    <2>2. CheckOK' /\ SlowOK'
      BY <1>3, <2>1, Zenon DEF IInv, CheckOK, SlowOK
    <2> QED
      BY <1>1, <1>2, <1>3, <2>1, <2>2, UpdateStep, Zenon
  <1>5. CASE ~update.byCheck
    <2>1. UNCHANGED check
      BY <1>5, Zenon DEF UpdateEnds
    <2>2. CheckOK' /\ SlowOK'
      BY <1>3, <2>1, Zenon DEF IInv, CheckOK, SlowOK
    <2> QED
      BY <1>1, <1>2, <1>3, <2>1, <2>2, UpdateStep, Zenon
  <1> QED
    BY <1>4, <1>5, Zenon

(* The selection of a network moves to a node, in doubt if it has no history.  *)
LEMMA MoveKeepsDoubt ==
    ASSUME IInv, UNCHANGED <<history, check>>, NEW net \in Networks, NEW node \in Nodes,
           net \in Supports[node],
           selected' = [selected EXCEPT ![net] = node], doubt' = DoubtAt(net, node)
    PROVE  /\ selected' \in [Networks -> Nodes \cup {None}] /\ doubt' \subseteq Networks
           /\ SelectedOK' /\ DoubtOK'
  <1>1. selected \in [Networks -> Nodes \cup {None}] /\ doubt \subseteq Networks
    BY Zenon DEF IInv, Types
  <1>2. /\ selected'[net] = node
        /\ \A other \in Networks \ {net} : selected'[other] = selected[other]
    BY <1>1, Zenon
  <1>3. SelectedOK'
    BY <1>2, Zenon DEF IInv, SelectedOK
  <1>4. DoubtOK'
    BY <1>2, Zenon DEF IInv, DoubtOK, DoubtAt
  <1> QED
    BY <1>1, <1>3, <1>4, Zenon DEF DoubtAt

(* An update writes what it chose, over whatever was selected meanwhile. *)
LEMMA WriteNodeOK == IInv /\ UNCHANGED failover /\ WriteNode => IInv'
  <1> SUFFICES ASSUME IInv, UNCHANGED failover, WriteNode PROVE IInv'
    BY Zenon
  <1> DEFINE net == Head(update.nets)
             writes == /\ update.node # None
                       /\ selected[net] = None \/ (update.exists /\ update.node # selected[net])
  <1>1. /\ update \in Updates /\ selected \in [Networks -> Nodes \cup {None}] /\ doubt \subseteq Networks
    BY Zenon DEF IInv, Types
  <1>2. /\ update.nets # <<>> /\ update.nets \in Seq(Networks) /\ update.node \in Nodes \cup {None}
        /\ update.node # None => net \in Supports[update.node]
    BY <1>1, Zenon DEF WriteNode, Updates, IInv, UpdateOK
  <1>3. net \in Networks /\ Tail(update.nets) \in Seq(Networks)
    BY <1>2
  <1>4. /\ UNCHANGED <<up, history, fresh, penalties, slow, check, dial, valve>>
        /\ update' = [update EXCEPT !.pc = "choose", !.nets = Tail(@), !.node = None, !.exists = FALSE]
    BY Zenon DEF WriteNode
  <1>5. update' \in Updates /\ update'.pc = "choose"
    BY <1>1, <1>3, <1>4, Zenon DEF Updates
  <1>6. /\ selected' = IF writes THEN [selected EXCEPT ![net] = update.node] ELSE selected
        /\ doubt' = IF writes THEN DoubtAt(net, update.node) ELSE doubt
    BY Zenon DEF WriteNode
  <1>7. /\ selected' \in [Networks -> Nodes \cup {None}] /\ doubt' \subseteq Networks
        /\ SelectedOK' /\ DoubtOK'
    <2>1. CASE writes
      <3>1. update.node \in Nodes /\ net \in Supports[update.node]
        BY <1>2, <2>1, Zenon
      <3>2. selected' = [selected EXCEPT ![net] = update.node] /\ doubt' = DoubtAt(net, update.node)
        BY <1>6, <2>1, Zenon
      <3> HIDE DEF net, writes
      <3> QED
        BY <1>3, <1>4, <3>1, <3>2, MoveKeepsDoubt, Zenon
    <2>2. CASE ~writes
      <3>1. UNCHANGED <<selected, doubt>>
        BY <1>6, <2>2, Zenon
      <3> QED
        BY <1>1, <1>4, <3>1, Zenon DEF IInv, SelectedOK, DoubtOK
    <2> QED
      BY <2>1, <2>2, Zenon
  <1>8. Types'
    BY <1>4, <1>5, <1>7, Zenon DEF IInv, Types
  <1>9. UpdateOK'
    BY <1>5, Zenon DEF UpdateOK
  <1>10. DialsOK' /\ CheckOK' /\ SlowOK'
    BY <1>4, Zenon DEF IInv, DialsOK, CheckOK, SlowOK
  <1> QED
    BY <1>7, <1>8, <1>9, <1>10, Zenon DEF IInv

(* A step of one connection. *)
LEMMA DialStep ==
    ASSUME IInv, UNCHANGED <<failover, up, slow, check, update>>, NEW d \in Dials,
           NEW c \in Connections, dial' = [dial EXCEPT ![d] = c],
           c.pc # "idle" => c.node \in Nodes /\ c.net \in Networks /\ c.net \in Supports[c.node],
           fresh' \subseteq Nodes, history' \in [Nodes -> Delays \cup {Dead}],
           penalties' \in [Nodes -> Nat], valve' \in {"closed", "asked", "running", "rest"},
           selected' \in [Networks -> Nodes \cup {None}], doubt' \subseteq Networks,
           SelectedOK', DoubtOK'
    PROVE  IInv'
  <1>1. dial \in [Dials -> Connections]
    BY Zenon DEF IInv, Types
  <1>2. /\ dial' \in [Dials -> Connections] /\ dial'[d] = c
        /\ \A other \in Dials \ {d} : dial'[other] = dial[other]
    BY <1>1, Zenon
  <1>3. DialsOK'
    BY <1>2, Zenon DEF IInv, DialsOK
  <1>4. Types'
    BY <1>2, Zenon DEF IInv, Types
  <1>5. UpdateOK' /\ CheckOK' /\ SlowOK'
    BY Zenon DEF IInv, UpdateOK, CheckOK, SlowOK
  <1> QED
    BY <1>3, <1>4, <1>5, Zenon DEF IInv

(* What stays as it is satisfies what DialStep asks of it. *)
LEMMA KeptTyped ==
    ASSUME IInv
    PROVE  /\ UNCHANGED <<history, fresh>> => fresh' \subseteq Nodes /\ history' \in [Nodes -> Delays \cup {Dead}]
           /\ UNCHANGED penalties => penalties' \in [Nodes -> Nat]
           /\ UNCHANGED valve => valve' \in {"closed", "asked", "running", "rest"}
           /\ UNCHANGED <<selected, doubt>> => /\ selected' \in [Networks -> Nodes \cup {None}]
                                               /\ doubt' \subseteq Networks
           /\ UNCHANGED selected => selected' \in [Networks -> Nodes \cup {None}] /\ SelectedOK'
           /\ UNCHANGED <<history, selected, check, doubt>> => DoubtOK'
  BY Zenon DEF IInv, Types, SelectedOK, DoubtOK

(* The valve opens or stays. *)
LEMMA ValveTyped ==
    ASSUME IInv, NEW h, NEW p, maybeForceRetest(h, p)
    PROVE  valve' \in {"closed", "asked", "running", "rest"}
  BY Zenon DEF IInv, Types, maybeForceRetest

(* The connection of a dial under way, and none. *)
LEMMA DialTyped ==
    ASSUME IInv, NEW d \in Dials
    PROVE  /\ dial[d] \in Connections /\ NoDial \in Connections /\ NoDial.pc = "idle"
           /\ dial[d].pc # "idle" => /\ dial[d].node \in Nodes /\ dial[d].net \in Networks
                                     /\ dial[d].net \in Supports[dial[d].node]
  <1>1. NoDial \in Connections /\ NoDial.pc = "idle"
    BY Zenon DEF NoDial, Connections
  <1> QED
    BY <1>1, Zenon DEF IInv, Types, DialsOK

(* A connection begins with a node that supports its network. *)
LEMMA DialBeginsOK ==
    ASSUME IInv, UNCHANGED failover, NEW d \in Dials, NEW net \in Networks, NEW packet \in BOOLEAN,
           NEW probe \in BOOLEAN, DialBegins(d, net, packet, probe)
    PROVE  IInv'
  <1> DEFINE node == pickForDialNode(net, selected[net], history, penalties)
             c == [pc |-> "dial", net |-> net, packet |-> packet, probe |-> probe, node |-> node]
  <1>1. selected[net] \in Nodes \cup {None} /\ (selected[net] # None => net \in Supports[selected[net]])
    BY Zenon DEF IInv, Types, SelectedOK
  <1>2. node # None /\ dial' = [dial EXCEPT ![d] = c]
        /\ UNCHANGED <<up, history, fresh, selected, penalties, slow, check, update, valve, doubt>>
    BY Zenon DEF DialBegins
  <1>3. history \in Histories
    BY HistoriesTyped, Zenon DEF IInv
  <1>4. node \in Members(net) \cup {selected[net], None}
    BY <1>1, <1>3, PickTyped, Zenon
  <1> HIDE DEF node
  <1>5. node \in Nodes /\ net \in Supports[node]
    BY <1>1, <1>2, <1>4, Zenon DEF Members
  <1>6. c \in Connections /\ c.node = node /\ c.net = net
    BY <1>5, ModeAssumption, Zenon DEF Connections
  <1> HIDE DEF c
  <1>7. c.pc # "idle" => c.node \in Nodes /\ c.net \in Networks /\ c.net \in Supports[c.node]
    BY <1>5, <1>6, Zenon
  <1> QED
    BY <1>2, <1>6, <1>7, KeptTyped, DialStep, Zenon

(* A connection that succeeds clears the penalties of its node. *)
LEMMA DialSucceedsOK ==
    ASSUME IInv, UNCHANGED failover, NEW d \in Dials, DialSucceeds(d)
    PROVE  IInv'
  <1>1. /\ NoDial \in Connections /\ NoDial.pc = "idle" /\ dial[d].node \in Nodes
    BY DialTyped, Zenon DEF DialSucceeds
  <1>2. /\ UNCHANGED <<up, history, fresh, selected, slow, check, update, valve, doubt>>
        /\ dial' = [dial EXCEPT ![d] = NoDial]
    BY Zenon DEF DialSucceeds
  <1>3. penalties' \in [Nodes -> Nat]
    BY <1>1, KeptTyped, PenaltiesTyped, Zenon DEF DialSucceeds
  <1> QED
    BY <1>1, <1>2, <1>3, KeptTyped, DialStep, Zenon

(* A connection that fails deletes the history of its node. *)
LEMMA DialFailsOK ==
    ASSUME IInv, UNCHANGED failover, NEW d \in Dials, NEW pathDead \in BOOLEAN, DialFails(d, pathDead)
    PROVE  IInv'
  <1>1. /\ dial[d] \in Connections /\ NoDial \in Connections /\ NoDial.pc = "idle"
        /\ dial[d].node \in Nodes /\ dial[d].net \in Networks /\ dial[d].net \in Supports[dial[d].node]
    BY DialTyped, Zenon DEF DialFails
  <1>2. UNCHANGED <<up, selected, penalties, slow, check, update, valve>>
    BY Zenon DEF DialFails
  <1>3. PICK c \in Connections :
          /\ dial' = [dial EXCEPT ![d] = c]
          /\ c.pc # "idle" => c.node \in Nodes /\ c.net \in Networks /\ c.net \in Supports[c.node]
    <2> DEFINE c == IF pathDead /\ ~dial[d].packet THEN [dial[d] EXCEPT !.pc = "punish"] ELSE NoDial
    <2>1. dial' = [dial EXCEPT ![d] = c]
      BY Zenon DEF DialFails
    <2>2. /\ c \in Connections
          /\ c.pc # "idle" => c.node = dial[d].node /\ c.net = dial[d].net
      BY <1>1, Zenon DEF Connections
    <2> HIDE DEF c
    <2> QED
      BY <1>1, <2>1, <2>2, Zenon
  <1>4. /\ fresh' \subseteq Nodes /\ history' \in [Nodes -> Delays \cup {Dead}]
        /\ doubt' \subseteq Networks /\ DoubtOK'
    <2>1. CASE dial[d].probe
      BY <1>2, <2>1, KeptTyped, Zenon DEF DialFails
    <2>2. CASE ~dial[d].probe
      BY <1>1, <1>2, <2>2, DeleteKeepsDoubt, Zenon DEF DialFails
    <2> QED
      BY <2>1, <2>2, Zenon
  <1> QED
    BY <1>2, <1>3, <1>4, KeptTyped, DialStep, Zenon

(* The fallback of a connection supports its network. *)
LEMMA PunishOK ==
    ASSUME IInv, UNCHANGED failover, NEW d \in Dials, Punish(d)
    PROVE  IInv'
  <1> DEFINE me == dial[d]
             fallback == penaltyBest(me.net, me.node, history, penalties')
             c == IF fallback = None THEN NoDial ELSE [me EXCEPT !.pc = "fallback", !.node = fallback]
  <1>1. /\ me \in Connections /\ NoDial \in Connections /\ NoDial.pc = "idle"
        /\ me.node \in Nodes /\ me.net \in Networks
    BY DialTyped, Zenon DEF Punish
  <1>2. /\ UNCHANGED <<up, history, fresh, selected, slow, check, update, doubt>>
        /\ dial' = [dial EXCEPT ![d] = c]
    BY Zenon DEF Punish
  <1>3. penalties' \in [Nodes -> Nat] /\ valve' \in {"closed", "asked", "running", "rest"}
    BY <1>1, KeptTyped, PenaltiesTyped, ValveTyped, Zenon DEF Punish
  <1>4. fallback \in (Candidates(me.net, history) \ {me.node}) \cup {None}
    BY BestIsCandidate, Zenon
  <1> HIDE DEF fallback, me
  <1>5. /\ c \in Connections
        /\ c.pc # "idle" => c.node = fallback /\ c.net = me.net /\ fallback # None
    <2>1. CASE fallback = None
      BY <1>1, <2>1, Zenon
    <2>2. CASE fallback # None
      <3>1. fallback \in Nodes
        BY <1>4, <2>2, Zenon DEF Candidates, Members
      <3> QED
        BY <1>1, <2>2, <3>1, Zenon DEF Connections
    <2> QED
      BY <2>1, <2>2, Zenon
  <1> HIDE DEF c
  <1>6. c.pc # "idle" => c.node \in Nodes /\ c.net \in Networks /\ c.net \in Supports[c.node]
    BY <1>1, <1>4, <1>5, Zenon DEF Candidates, Members
  <1> QED
    BY <1>2, <1>3, <1>5, <1>6, KeptTyped, DialStep, Zenon

(* A fallback that succeeds moves the selection of its network. *)
LEMMA FallbackSucceedsOK ==
    ASSUME IInv, UNCHANGED failover, NEW d \in Dials, FallbackSucceeds(d)
    PROVE  IInv'
  <1>1. /\ NoDial \in Connections /\ NoDial.pc = "idle"
        /\ dial[d].node \in Nodes /\ dial[d].net \in Networks /\ dial[d].net \in Supports[dial[d].node]
    BY DialTyped, Zenon DEF FallbackSucceeds
  <1>2. /\ UNCHANGED <<up, history, fresh, slow, check, update, valve>>
        /\ dial' = [dial EXCEPT ![d] = NoDial]
    BY Zenon DEF FallbackSucceeds
  <1>3. /\ penalties' \in [Nodes -> Nat] /\ selected' \in [Networks -> Nodes \cup {None}]
        /\ doubt' \subseteq Networks /\ SelectedOK' /\ DoubtOK'
    <2>1. CASE dial[d].probe
      BY <1>2, <2>1, KeptTyped, Zenon DEF FallbackSucceeds
    <2>2. CASE ~dial[d].probe
      <3>1. penaltyReset(dial[d].node) /\ moveSelection(dial[d].net, dial[d].node)
        BY <2>2, Zenon DEF FallbackSucceeds
      <3>2. penalties' \in [Nodes -> Nat]
        BY <1>1, <3>1, PenaltiesTyped, Zenon
      <3>3. CASE selected[dial[d].net] = dial[d].node
        <4>1. selected \in [Networks -> Nodes \cup {None}]
          BY Zenon DEF IInv, Types
        <4>2. UNCHANGED <<selected, doubt>>
          BY <3>1, <3>3, <4>1, Zenon DEF moveSelection
        <4> QED
          BY <1>2, <3>2, <4>2, KeptTyped, Zenon
      <3>4. CASE selected[dial[d].net] # dial[d].node
        BY <1>1, <1>2, <3>1, <3>2, <3>4, MoveKeepsDoubt, Zenon DEF moveSelection
      <3> QED
        BY <3>3, <3>4, Zenon
    <2> QED
      BY <2>1, <2>2, Zenon
  <1> QED
    BY <1>1, <1>2, <1>3, KeptTyped, DialStep, Zenon

(* A fallback that fails deletes the history of its node and may punish it. *)
LEMMA FallbackFailsOK ==
    ASSUME IInv, UNCHANGED failover, NEW d \in Dials, NEW pathDead \in BOOLEAN, FallbackFails(d, pathDead)
    PROVE  IInv'
  <1>1. NoDial \in Connections /\ NoDial.pc = "idle" /\ dial[d].node \in Nodes
    BY DialTyped, Zenon DEF FallbackFails
  <1>2. /\ UNCHANGED <<up, selected, slow, check, update>>
        /\ dial' = [dial EXCEPT ![d] = NoDial]
    BY Zenon DEF FallbackFails
  <1>3. /\ fresh' \subseteq Nodes /\ history' \in [Nodes -> Delays \cup {Dead}]
        /\ doubt' \subseteq Networks /\ DoubtOK'
    <2>1. CASE dial[d].probe
      BY <1>2, <2>1, KeptTyped, Zenon DEF FallbackFails
    <2>2. CASE ~dial[d].probe
      BY <1>1, <1>2, <2>2, DeleteKeepsDoubt, Zenon DEF FallbackFails
    <2> QED
      BY <2>1, <2>2, Zenon
  <1>4. penalties' \in [Nodes -> Nat] /\ valve' \in {"closed", "asked", "running", "rest"}
    BY <1>1, KeptTyped, PenaltiesTyped, ValveTyped, Zenon DEF FallbackFails
  <1> QED
    BY <1>1, <1>2, <1>3, <1>4, KeptTyped, DialStep, Zenon

(* Every step keeps the invariant. *)
LEMMA StepOK == IInv /\ [Next]_vars => IInv'
  <1> SUFFICES ASSUME IInv, [Next]_vars PROVE IInv'
    BY Zenon
  <1>1. CASE UNCHANGED vars
    BY <1>1, Zenon DEF vars, IInv, Types, SelectedOK, UpdateOK, DialsOK, CheckOK, SlowOK, DoubtOK
  <1>2. CASE Next
    <2>0. UNCHANGED failover
      BY <1>2, Zenon DEF Next
    <2>1. CASE Tick \/ URLTest \/ performUpdateCheck \/ ForcedRetest \/ GapPasses
      BY <2>0, <2>1, TickOK, URLTestOK, PerformUpdateCheckOK, ForcedRetestOK, GapPassesOK, Zenon
    <2>2. CASE Check
      BY <2>0, <2>2, ProbeAnswersOK, ProbeFailsOK, ProbesEndOK, JudgeOK, MarkSlowOK,
         UpdateByCheckOK, CheckEndsOK, Zenon
         DEF Check, Probe
    <2>3. CASE Update
      BY <2>0, <2>3, ChooseNodeOK, WriteNodeOK, UpdateEndsOK, Zenon DEF Update
    <2>4. CASE \E n \in Nodes : OtherWriter(n)
      BY <2>0, <2>4, OtherWriterOK, Zenon
    <2>5. CASE \E d \in Dials : Dial(d)
      BY <2>0, <2>5, DialSucceedsOK, PunishOK, FallbackSucceedsOK, DialFailsOK, FallbackFailsOK, Zenon
         DEF Dial
    <2>6. CASE \E d \in Dials, net \in Networks, packet, probe \in BOOLEAN : DialBegins(d, net, packet, probe)
      BY <2>0, <2>6, DialBeginsOK, Zenon
    <2> QED
      BY <1>2, <2>1, <2>2, <2>3, <2>4, <2>5, <2>6, Zenon DEF Next
  <1> QED
    BY <1>1, <1>2, Zenon

(* Nothing an update, a check or a connection does leaves the invariant: in    *)
(* particular a selection that has lost its history or was found slow is in    *)
(* doubt.                                                                      *)
THEOREM Invariance == Spec => []IInv
  BY InitOK, StepOK, PTL DEF Spec

(* Types, and that a network is never given a node that does not support it:   *)
(* neither by an update that chose it earlier nor by the fallback of a         *)
(* connection.                                                                 *)
THEOREM TypesHold == Spec => []TypeOK
  <1>1. IInv => TypeOK
    <2> SUFFICES ASSUME IInv PROVE TypeOK
      BY Zenon
    <2>1. Types /\ SelectedOK
      BY Zenon DEF IInv
    <2>2. check.pc \in {"none", "test", "judge", "mark", "update", "wait", "end"} /\ check.todo \subseteq Nodes
      BY <2>1, Zenon DEF Types, Checks
    <2>3. update.pc \in {"free", "choose", "write"}
      BY <2>1, Zenon DEF Types, Updates
    <2>4. \A d \in Dials : dial[d].pc \in {"idle", "dial", "punish", "fallback"}
      BY <2>1, Zenon DEF Types, Connections
    <2> QED
      BY <2>1, <2>2, <2>3, <2>4, Zenon DEF TypeOK, Types, SelectedOK
  <1> QED
    BY <1>1, Invariance, PTL

(* An update of a failover group leaves a node it holds only for a reason.     *)
LEMMA StepHoldsLiveNode ==
    ASSUME IInv, Next, failover, update.pc = "choose", update'.pc = "write", ~update.reselect,
           selected[Head(update.nets)] \notin {None, update'.node}
    PROVE  Head(update.nets) \in doubt \/ penaltyEmergency(Head(update.nets), history, penalties)
  <1> DEFINE net == Head(update.nets)
             best == selectForUpdate(failover, net, update.reselect, selected[net], slow, history, penalties)
  <1>1. ChooseNode
    <2>1. NoUpdate.pc = "free" /\ update' # update
      BY Zenon DEF NoUpdate
    <2>2. CASE Update
      <3>1. ~UpdateEnds
        BY <2>1, Zenon DEF UpdateEnds
      <3>2. ~WriteNode
        BY Zenon DEF WriteNode
      <3> QED
        BY <2>2, <3>1, <3>2, Zenon DEF Update
    <2>3. ~Tick /\ ~URLTest /\ ~ForcedRetest /\ ~GapPasses
      BY <2>1, Zenon DEF Tick, URLTest, ForcedRetest, GapPasses
    <2>4. ~performUpdateCheck /\ ~UpdateByCheck
      BY Zenon DEF performUpdateCheck, UpdateByCheck
    <2>5. ~ProbesEnd /\ ~Judge /\ ~MarkSlow /\ ~CheckEnds
      BY <2>1, Zenon DEF ProbesEnd, Judge, MarkSlow, CheckEnds
    <2>6. ~Probe
      BY <2>1, Zenon DEF Probe, ProbeAnswers, ProbeFails
    <2>7. ASSUME NEW n \in Nodes PROVE ~OtherWriter(n)
      BY <2>1, Zenon DEF OtherWriter
    <2>8. ASSUME NEW d \in Dials PROVE ~Dial(d)
      BY <2>1, Zenon DEF Dial, DialSucceeds, Punish, FallbackSucceeds, DialFails, FallbackFails
    <2>9. ASSUME NEW d \in Dials, NEW net1 \in Networks, NEW packet \in BOOLEAN, NEW probe \in BOOLEAN
          PROVE  ~DialBegins(d, net1, packet, probe)
      BY <2>1, Zenon DEF DialBegins
    <2> QED
      BY <2>2, <2>3, <2>4, <2>5, <2>6, <2>7, <2>8, <2>9, Zenon DEF Next, Check
  <1>2. /\ update \in Updates /\ selected \in [Networks -> Nodes \cup {None}] /\ failover = TRUE
        /\ update.reselect = FALSE
    BY Zenon DEF IInv, Types, Updates
  <1>3. net \in Networks
    BY <1>1, <1>2 DEF Updates, ChooseNode
  <1>4. update'.node = best.node
    BY <1>1, <1>2, Zenon DEF ChooseNode, Updates
  <1>5. selected[net] # None /\ best.node # selected[net]
    BY <1>4, Zenon
  <1>6. best = selectForUpdate(TRUE, net, FALSE, selected[net], slow, history, penalties)
    BY <1>2, Zenon
  <1> HIDE DEF net, best
  <1>7. CASE ~penaltyEmergency(net, history, penalties)
    <2>1. history[selected[net]] = Dead \/ selected[net] \in slow
      BY <1>5, <1>6, <1>7, FailoverHolds, Zenon
    <2>2. net \in doubt
      BY <1>3, <1>5, <2>1, Zenon DEF IInv, DoubtOK, SlowOK
    <2> QED
      BY <2>2, Zenon DEF net
  <1> QED
    BY <1>7, Zenon DEF net

(* A failover group changes its node only when the node has failed or was      *)
(* found slow by two probes, or in the emergency mode: dials, checks, updates  *)
(* and other writers may interleave in any way.                                *)
THEOREM FailoverHoldsLiveNode == Spec => HoldsLiveNode
  <1>1. IInv /\ [Next]_vars =>
          [LET net == Head(update.nets)
           IN  /\ failover /\ update.pc = "choose" /\ update'.pc = "write" /\ ~update.reselect
               /\ update'.exists /\ selected[net] \notin {None, update'.node}
               => net \in doubt \/ penaltyEmergency(net, history, penalties)]_vars
    BY StepHoldsLiveNode, Zenon
  <1> QED
    BY <1>1, Invariance, PTL DEF Spec, HoldsLiveNode

(* A step of a test connection leaves no trace. *)
LEMMA StepLeavesNoTrace ==
    ASSUME IInv, Next, NEW d \in Dials, dial[d].probe, dial'[d] # dial[d]
    PROVE  UNCHANGED <<history, selected, penalties, valve>>
  <1>1. dial \in [Dials -> Connections] /\ dial' # dial
    BY Zenon DEF IInv, Types
  <1>2. ~Tick /\ ~URLTest /\ ~ForcedRetest /\ ~GapPasses /\ ~performUpdateCheck /\ ~UpdateByCheck
    BY <1>1, Zenon DEF Tick, URLTest, ForcedRetest, GapPasses, performUpdateCheck, UpdateByCheck
  <1>3. ~ProbesEnd /\ ~Judge /\ ~MarkSlow /\ ~CheckEnds /\ ~Probe
    BY <1>1, Zenon DEF ProbesEnd, Judge, MarkSlow, CheckEnds, Probe, ProbeAnswers, ProbeFails
  <1>4. ~Update
    BY <1>1, Zenon DEF Update, ChooseNode, WriteNode, UpdateEnds
  <1>5. ASSUME NEW n \in Nodes PROVE ~OtherWriter(n)
    BY <1>1, Zenon DEF OtherWriter
  <1>6. PICK d1 \in Dials :
          \/ Dial(d1)
          \/ \E net \in Networks, packet, probe \in BOOLEAN : DialBegins(d1, net, packet, probe)
    BY <1>2, <1>3, <1>4, <1>5, Zenon DEF Next, Check
  <1>7. \E c : dial' = [dial EXCEPT ![d1] = c]
    BY <1>6, Zenon DEF Dial, DialSucceeds, Punish, FallbackSucceeds, DialFails, FallbackFails, DialBegins
  <1>8. d1 = d
    BY <1>1, <1>7, Zenon
  <1>9. CASE \E net \in Networks, packet, probe \in BOOLEAN : DialBegins(d1, net, packet, probe)
    BY <1>9, Zenon DEF DialBegins
  <1>10. CASE Dial(d1)
    BY <1>8, <1>10, Zenon DEF Dial, DialSucceeds, Punish, FallbackSucceeds, DialFails, FallbackFails
  <1> QED
    BY <1>6, <1>9, <1>10, Zenon

(* A test connection changes nothing that the group decides by. *)
THEOREM TestConnectionsLeaveNoTrace == Spec => TestConnectionLeavesNoTrace
  <1>1. IInv /\ [Next]_vars =>
          [\A d \in Dials : dial[d].probe /\ dial'[d] # dial[d] =>
              UNCHANGED <<history, selected, penalties, valve>>]_vars
    BY StepLeavesNoTrace, Zenon
  <1> QED
    BY <1>1, Invariance, PTL DEF Spec, TestConnectionLeavesNoTrace

-----------------------------------------------------------------------------
(* What least_test promises of its choice, for every configuration, history    *)
(* and selection.                                                              *)

(* The choice of least_test is slower than no other node by more than the      *)
(* tolerance.                                                                  *)
THEOREM ChoiceWithinTolerance == Spec => []ChosenWithinTolerance
  <1>1. IInv => ChosenWithinTolerance
    <2> SUFFICES ASSUME IInv, NEW net \in Networks, Measurable, Chosen(net).exists,
                        NEW n \in Candidates(net, history)
                 PROVE  history[Chosen(net).node] <= history[n] + tolerance
      BY Zenon DEF ChosenWithinTolerance
    <2>1. history \in Histories /\ selected[net] \in Nodes \cup {None}
      BY HistoriesTyped, Zenon DEF IInv, Types
    <2>2. Clear(history)
      BY Zenon DEF Measurable, Clear
    <2> QED
      BY <2>1, <2>2, SelectWithinTolerance, Zenon DEF Chosen
  <1> QED
    BY <1>1, Invariance, PTL

(* The choice of least_test, made again, is the same. *)
THEOREM ChoiceStays == Spec => []ChoiceIsStable
  <1>1. IInv => ChoiceIsStable
    <2> SUFFICES ASSUME IInv, NEW net \in Networks, Measurable, Chosen(net).exists
                 PROVE  Select(net, Chosen(net).node, history) = Chosen(net)
      BY Zenon DEF ChoiceIsStable
    <2>1. history \in Histories /\ selected[net] \in Nodes \cup {None}
      BY HistoriesTyped, Zenon DEF IInv, Types
    <2>2. Clear(history)
      BY Zenon DEF Measurable, Clear
    <2> QED
      BY <2>1, <2>2, SelectIsStable, Zenon DEF Chosen
  <1> QED
    BY <1>1, Invariance, PTL

(* least_test leaves a node that answers only for a faster one.                *)
THEOREM PresentNodeIsKept == Spec => []PresentIsKept
  <1>1. IInv => PresentIsKept
    <2> SUFFICES ASSUME IInv, NEW net \in Networks, Measurable, selected[net] # None,
                        history[selected[net]] # Dead, Chosen(net).node # selected[net]
                 PROVE  history[selected[net]] > history[Chosen(net).node] + tolerance
      BY Zenon DEF PresentIsKept
    <2>1. history \in Histories /\ selected[net] \in Nodes
      BY HistoriesTyped, Zenon DEF IInv, Types
    <2>2. Clear(history)
      BY Zenon DEF Measurable, Clear
    <2> QED
      BY <2>1, <2>2, SelectKeepsPresent, Zenon DEF Chosen
  <1> QED
    BY <1>1, Invariance, PTL
=============================================================================
