------------------------- MODULE UrlTestPoolProofs -------------------------
(***************************************************************************)
(* Theorems about UrlTestPool and the plans of UrlTestPlan, for any        *)
(* members, size of the pool, tolerance, delays and surroundings.          *)
(*                                                                         *)
(* Every plan is made of passes over the slots.  What a pass makes of a    *)
(* plan is shown once, by induction over the slots (PassedBecame); what    *)
(* the seed, the two plans and a batch publish follows from it without     *)
(* induction, and the state machine's invariant from that.                 *)
(***************************************************************************)
EXTENDS UrlTestPool, FiniteSetTheorems, WellFoundedInduction, TLAPS

USE SMTT(30), ZenonT(20)

-----------------------------------------------------------------------------
(* Loops.  The lemmas are those of UrlTestGroupProofs. *)

(* Every set of numbers that is not empty has a least one: induction. *)
LEMMA LeastNumber ==
    ASSUME NEW T \in SUBSET Nat, T # {}
    PROVE  \E m \in T : \A n \in T : m <= n
  <1>1. PICK m \in T : \A n \in T : ~ (<<n, m>> \in OpToRel(<, Nat))
    BY NatLessThanWellFounded, WFMin, Zenon
  <1>2. \A n \in T : ~(n < m)
    BY <1>1, Zenon DEF OpToRel
  <1> QED
    BY <1>2

(* What holds before a loop of n rounds, and after a round if before it, holds *)
(* throughout: Good is the set of rounds after which it holds.                 *)
LEMMA LoopInduction ==
    ASSUME NEW n \in Nat, NEW Good, 0 \in Good,
           \A i \in 1..n : i - 1 \in Good => i \in Good
    PROVE  0..n \subseteq Good
  <1> DEFINE Bad == (0..n) \ Good
  <1>1. SUFFICES ASSUME Bad # {} PROVE FALSE
    BY Zenon
  <1>2. PICK m \in Bad : \A i \in Bad : m <= i
    <2>1. Bad \in SUBSET Nat
      OBVIOUS
    <2> HIDE DEF Bad
    <2> QED
      BY <1>1, <2>1, LeastNumber, Zenon
  <1>3. m \in 1..n
    OBVIOUS
  <1>4. m - 1 \in 0..n /\ ~(m <= m - 1)
    BY <1>3
  <1>5. m - 1 \in Good
    BY <1>2, <1>4, Zenon
  <1> QED
    BY <1>3, <1>5, Zenon

(* The courses of a loop of n rounds over states V, whose round i is          *)
(* step[i, state].                                                             *)
Courses(n, V, start, step) ==
    {f \in [0..n -> V] : f[0] = start /\ \A i \in 1..n : f[i] = step[<<i, f[i - 1]>>]}

(* Such a loop has a course. *)
LEMMA LoopRuns ==
    ASSUME NEW n \in Nat, NEW V, NEW start \in V, NEW step \in [(1..n) \X V -> V]
    PROVE  Courses(n, V, start, step) # {}
  <1> DEFINE Runs(k) == \E f \in [0..k -> V] :
                           f[0] = start /\ \A i \in 1..k : f[i] = step[<<i, f[i - 1]>>]
             Fail == {k \in 0..n : ~Runs(k)}
  <1>1. SUFFICES ASSUME Fail # {} PROVE FALSE
    <2>1. n \in 0..n
      OBVIOUS
    <2>2. Fail = {} => Runs(n)
      <3> HIDE DEF Runs
      <3> QED
        BY <2>1, Zenon
    <2> QED
      BY <2>2, Zenon DEF Courses
  <1>2. PICK m \in Fail : \A k \in Fail : m <= k
    <2>1. Fail \in SUBSET Nat
      OBVIOUS
    <2> HIDE DEF Fail
    <2> QED
      BY <1>1, <2>1, LeastNumber, Zenon
  <1>3. Runs(0)
    <2> DEFINE f == [i \in 0..0 |-> start]
    <2>1. f \in [0..0 -> V] /\ f[0] = start /\ \A i \in 1..0 : f[i] = step[<<i, f[i - 1]>>]
      OBVIOUS
    <2> QED
      BY <2>1, Zenon
  <1>4. m \in 1..n
    <2>1. m # 0
      BY <1>3, Zenon
    <2> QED
      BY <2>1
  <1>5. Runs(m - 1)
    <2>1. m - 1 \in 0..n /\ ~(m <= m - 1)
      BY <1>4
    <2> QED
      BY <1>2, <2>1, Zenon
  <1>6. PICK f \in [0..(m - 1) -> V] :
          f[0] = start /\ \A i \in 1..(m - 1) : f[i] = step[<<i, f[i - 1]>>]
    BY <1>5, Zenon
  <1> DEFINE g == [i \in 0..m |-> IF i <= m - 1 THEN f[i] ELSE step[<<m, f[m - 1]>>]]
  <1>7. f[m - 1] \in V
    BY <1>4, <1>6
  <1>8. step[<<m, f[m - 1]>>] \in V
    BY <1>4, <1>7, Zenon
  <1>9. g \in [0..m -> V] /\ g[0] = start
    BY <1>4, <1>6, <1>8
  <1>10. \A i \in 1..m : g[i] = step[<<i, g[i - 1]>>]
    <2>1. ASSUME NEW i \in 1..(m - 1) PROVE g[i] = step[<<i, g[i - 1]>>]
      <3>1. g[i] = f[i] /\ g[i - 1] = f[i - 1]
        BY <1>4
      <3> HIDE DEF g
      <3> QED
        BY <1>6, <3>1, Zenon
    <2>2. g[m] = step[<<m, f[m - 1]>>] /\ g[m - 1] = f[m - 1]
      BY <1>4
    <2>3. \A i \in 1..m : i \in 1..(m - 1) \/ i = m
      BY <1>4
    <2> HIDE DEF g
    <2> QED
      BY <2>1, <2>2, <2>3, Zenon
  <1>11. Runs(m)
    <2> HIDE DEF g
    <2> QED
      BY <1>9, <1>10, Zenon
  <1> QED
    BY <1>11, Zenon

-----------------------------------------------------------------------------
(* A sequence of n slots, as a function. *)
LEMMA SlotsAreSequences ==
    ASSUME NEW n \in Nat, NEW S, NEW f \in [1..n -> S]
    PROVE  f \in Seq(S) /\ Len(f) = n /\ DOMAIN f = 1..n
  OBVIOUS

(* Best returns one of the tags. *)
LEMMA BestIsOne ==
    ASSUME NEW S \in SUBSET Nat, S # {}, NEW rank, \A a \in S : rank[a] \in Nat
    PROVE  Best(S, rank) \in S
  <1> DEFINE ranks == {rank[a] : a \in S}
  <1>1. PICK r \in ranks : \A q \in ranks : r <= q
    <2>1. ranks \in SUBSET Nat /\ ranks # {}
      BY Zenon
    <2> HIDE DEF ranks
    <2> QED
      BY <2>1, LeastNumber, Zenon
  <1> DEFINE first == {a \in S : rank[a] = r}
  <1>2. PICK a \in first : \A b \in first : a <= b
    <2>1. first \in SUBSET Nat /\ first # {}
      BY Zenon
    <2> HIDE DEF first
    <2> QED
      BY <2>1, LeastNumber, Zenon
  <1>3. ASSUME NEW b \in S PROVE rank[a] < rank[b] \/ (rank[a] = rank[b] /\ a <= b)
    <2>1. rank[a] = r /\ rank[a] \in Nat /\ rank[b] \in Nat /\ r <= rank[b]
      BY <1>1, Zenon
    <2>2. rank[b] = r => a <= b
      BY <1>2, Zenon
    <2> QED
      BY <2>1, <2>2
  <1> QED
    BY <1>3, Zenon DEF Best

-----------------------------------------------------------------------------
(* What a pass over the slots does.  The tags are those of a set T, and there  *)
(* are n slots.                                                                *)

Slots(n, T) == [1..n -> T \cup {Empty}]

Plans(n, T) == [next : Slots(n, T), used : SUBSET (T \ {Empty})]

(* No tag in two slots. *)
Distinct(n, s) == \A i, j \in 1..n : s[i] = s[j] /\ s[i] # Empty => i = j

(* A plan has no tag in two slots and has marked those it has placed. *)
Sound(n, plan) ==
    /\ Distinct(n, plan.next)
    /\ \A i \in 1..n : plan.next[i] # Empty => plan.next[i] \in plan.used

(* Tags of T with their ranks. *)
Ranked(tags, T, rank) == tags \subseteq T /\ \A t \in tags : t # Empty /\ t \in Nat /\ rank[t] \in Nat

(* The plan with tag t in slot i. *)
Placed(plan, i, t) == [next |-> [plan.next EXCEPT ![i] = t], used |-> plan.used \cup {t}]

(* A slot keeps its tag when all that it is offered is used, or takes one of *)
(* those not used yet.                                                       *)
LEMMA PutCases ==
    ASSUME NEW n \in Nat, NEW T, NEW plan \in Plans(n, T), NEW i \in 1..n,
           NEW tags, NEW rank, Ranked(tags, T, rank)
    PROVE  \/ Put(plan, i, tags, rank) = plan /\ tags \subseteq plan.used
           \/ \E t \in tags \ plan.used : Put(plan, i, tags, rank) = Placed(plan, i, t)
  <1> DEFINE free == tags \ plan.used
  <1>1. CASE free = {}
    BY <1>1, Zenon DEF Put
  <1>2. CASE free # {}
    <2>1. free \in SUBSET Nat /\ \A a \in free : rank[a] \in Nat
      BY Zenon DEF Ranked
    <2>2. Best(free, rank) \in free
      <3> HIDE DEF free
      <3> QED
        BY <1>2, <2>1, BestIsOne, Zenon
    <2> QED
      BY <1>2, <2>2, Zenon DEF Put, Placed
  <1> QED
    BY <1>1, <1>2, Zenon

(* A plan with one more tag placed is a plan. *)
LEMMA PlacedTyped ==
    ASSUME NEW n \in Nat, NEW T, NEW plan \in Plans(n, T), NEW i \in 1..n, NEW t \in T \ {Empty}
    PROVE  Placed(plan, i, t) \in Plans(n, T)
  BY Zenon DEF Placed, Plans, Slots

(* Putting a tag in a slot makes a plan of a plan. *)
LEMMA PutTyped ==
    ASSUME NEW n \in Nat, NEW T, NEW plan \in Plans(n, T), NEW i \in 1..n,
           NEW tags, NEW rank, Ranked(tags, T, rank)
    PROVE  Put(plan, i, tags, rank) \in Plans(n, T)
  <1>1. CASE Put(plan, i, tags, rank) = plan
    BY <1>1, Zenon
  <1>2. CASE Put(plan, i, tags, rank) # plan
    <2>1. PICK t \in tags \ plan.used : Put(plan, i, tags, rank) = Placed(plan, i, t)
      BY <1>2, PutCases
    <2>2. t \in T \ {Empty}
      BY Zenon DEF Ranked
    <2> QED
      BY <2>1, <2>2, PlacedTyped, Zenon
  <1> QED
    BY <1>1, <1>2, Zenon

(* Pass is the course of the loop over the slots. *)
LEMMA PassRuns ==
    ASSUME NEW n \in Nat, NEW T, NEW plan \in Plans(n, T),
           NEW offer, NEW rank, \A i \in 1..n : Ranked(offer[i], T, rank)
    PROVE  /\ Pass(plan, offer, rank) \in [0..n -> Plans(n, T)]
           /\ Pass(plan, offer, rank)[0] = plan
           /\ \A i \in 1..n :
                 Pass(plan, offer, rank)[i] = Put(Pass(plan, offer, rank)[i - 1], i, offer[i], rank)
           /\ Passed(plan, offer, rank) = Pass(plan, offer, rank)[n]
  <1> DEFINE V == Plans(n, T)
             step == [x \in (1..n) \X V |-> Put(x[2], x[1], offer[x[1]], rank)]
             Course(f) == f = [i \in 0..n |-> IF i = 0 THEN plan
                                              ELSE Put(f[i - 1], i, offer[i], rank)]
  <1>0. Len(plan.next) = n
    <2>1. plan.next \in [1..n -> T \cup {Empty}]
      BY Zenon DEF Plans, Slots
    <2> QED
      BY <2>1, SlotsAreSequences, Zenon
  <1>2. step \in [(1..n) \X V -> V]
    <2>1. \A x \in (1..n) \X V : x[1] \in 1..n /\ x[2] \in V /\ Ranked(offer[x[1]], T, rank)
      BY Zenon
    <2>2. \A x \in (1..n) \X V : Put(x[2], x[1], offer[x[1]], rank) \in V
      BY <2>1, PutTyped, Zenon
    <2> QED
      BY <2>2, Zenon
  <1>3. PICK f \in [0..n -> V] : f[0] = plan /\ \A i \in 1..n : f[i] = step[<<i, f[i - 1]>>]
    <2> HIDE DEF step, V
    <2>1. plan \in V
      BY Zenon DEF V
    <2>2. Courses(n, V, plan, step) # {}
      BY <1>2, <2>1, LoopRuns, Zenon
    <2> QED
      BY <2>2, Zenon DEF Courses
  <1>4. ASSUME NEW i \in 1..n PROVE f[i] = Put(f[i - 1], i, offer[i], rank)
    <2>1. i - 1 \in 0..n
      OBVIOUS
    <2>2. <<i, f[i - 1]>> \in (1..n) \X V
      BY <2>1, Zenon
    <2>3. step[<<i, f[i - 1]>>] = Put(f[i - 1], i, offer[i], rank)
      BY <2>2, Zenon
    <2> QED
      BY <1>3, <2>3, Zenon
  <1>5. Course(f)
    <2>1. \A i \in 0..n : i = 0 \/ i \in 1..n
      OBVIOUS
    <2> QED
      BY <1>3, <1>4, <2>1, Zenon
  <1>6. Pass(plan, offer, rank) = CHOOSE g : Course(g)
    BY <1>0, Zenon DEF Pass
  <1> DEFINE s == Pass(plan, offer, rank)
  <1>7. Course(s)
    <2> HIDE DEF Course
    <2> QED
      BY <1>5, <1>6, Zenon
  <1> HIDE DEF s
  <1>8. DOMAIN s = 0..n /\ s[0] = plan
    <2>1. 0 \in 0..n
      OBVIOUS
    <2> QED
      BY <1>7, <2>1, Zenon
  <1>9. ASSUME NEW i \in 1..n PROVE s[i] = Put(s[i - 1], i, offer[i], rank)
    <2>1. i \in 0..n /\ i # 0
      OBVIOUS
    <2> QED
      BY <1>7, <2>1, Zenon
  <1>10. \A i \in 0..n : s[i] \in V
    <2> DEFINE Good == {i \in 0..n : s[i] \in V}
    <2>1. 0 \in Good
      <3>1. 0 \in 0..n
        OBVIOUS
      <3> QED
        BY <1>8, <3>1, Zenon
    <2>2. ASSUME NEW i \in 1..n, i - 1 \in Good PROVE i \in Good
      <3>1. i \in 0..n
        OBVIOUS
      <3>2. s[i - 1] \in Plans(n, T) /\ Ranked(offer[i], T, rank)
        BY <2>2, Zenon
      <3>3. s[i] \in V
        BY <1>9, <3>2, PutTyped
      <3> QED
        BY <3>1, <3>3, Zenon
    <2>3. 0..n \subseteq Good
      <3> HIDE DEF Good
      <3> QED
        BY <2>1, <2>2, LoopInduction, Zenon
    <2> QED
      BY <2>3, Zenon
  <1>11. s \in [0..n -> V]
    BY <1>7, <1>8, <1>10, Zenon
  <1>12. Passed(plan, offer, rank) = s[n]
    BY <1>0, Zenon DEF Passed, s
  <1> QED
    BY <1>8, <1>9, <1>11, <1>12, Zenon DEF s

(* What the first m rounds of a pass have made of a plan: the marks it had are *)
(* kept and the new ones are in a slot, the slots ahead are as they were, and  *)
(* a slot behind has its tag still, all it was offered being used, or one that *)
(* the plan had not used.                                                      *)
Became(m, n, plan, offer, res) ==
    /\ Sound(n, res)
    /\ plan.used \subseteq res.used
    /\ \A t \in res.used \ plan.used : \E j \in 1..m : res.next[j] = t
    /\ \A j \in (m + 1)..n : res.next[j] = plan.next[j]
    /\ \A j \in 1..m : \/ res.next[j] = plan.next[j] /\ offer[j] \subseteq res.used
                       \/ res.next[j] \in offer[j] \ plan.used

(* A round of the pass takes it one slot further. *)
LEMMA RoundBecame ==
    ASSUME NEW n \in Nat, NEW T, NEW plan \in Plans(n, T), Sound(n, plan),
           NEW offer, NEW rank, NEW m \in 1..n, Ranked(offer[m], T, rank), NEW res \in Plans(n, T),
           Became(m - 1, n, plan, offer, res),
           NEW new, \/ new = res /\ offer[m] \subseteq res.used
                    \/ \E t \in offer[m] \ res.used : new = Placed(res, m, t)
    PROVE  Became(m, n, plan, offer, new)
  <1>0. /\ \A j \in m..n : res.next[j] = plan.next[j]
        /\ m - 1 + 1 = m
        /\ \A j \in (m + 1)..n : j \in m..n /\ j # m /\ j \in 1..n
        /\ \A j \in 1..m : j \in 1..n /\ (j \in 1..(m - 1) \/ j = m)
        /\ \A j \in 1..(m - 1) : j # m /\ j \in 1..m /\ j \in 1..n
        /\ m \in m..n /\ m \in 1..m
    BY DEF Became
  <1>1. CASE new = res /\ offer[m] \subseteq res.used
    BY <1>0, <1>1, Zenon DEF Became
  <1>2. ASSUME NEW t \in offer[m] \ res.used, new = Placed(res, m, t)
        PROVE  Became(m, n, plan, offer, new)
    <2>1. /\ res.next \in [1..n -> T \cup {Empty}] /\ res.used \in SUBSET T
          /\ t \in T /\ t # Empty /\ t \notin plan.used
      BY Zenon DEF Plans, Slots, Became, Ranked
    <2>2. /\ new.used = res.used \cup {t} /\ new.next[m] = t
          /\ \A j \in 1..n : j # m => new.next[j] = res.next[j]
      BY <1>2, <2>1, Zenon DEF Placed
    <2>3. Sound(n, new)
      <3>1. \A j \in 1..n : j # m => new.next[j] # t
        <4>1. \A j \in 1..n : res.next[j] # Empty => res.next[j] \in res.used
          BY Zenon DEF Became, Sound
        <4> QED
          BY <2>1, <2>2, <4>1, Zenon
      <3> QED
        BY <2>1, <2>2, <3>1, Zenon DEF Became, Sound, Distinct
    <2>4. plan.used \subseteq new.used
      BY <2>2, Zenon DEF Became
    <2>5. \A u \in new.used \ plan.used : \E j \in 1..m : new.next[j] = u
      <3>1. ASSUME NEW u \in new.used \ plan.used, u # t PROVE \E j \in 1..m : new.next[j] = u
        <4>1. PICK j \in 1..(m - 1) : res.next[j] = u
          BY <2>2, <3>1, Zenon DEF Became
        <4> QED
          BY <1>0, <2>2, <4>1, Zenon
      <3> QED
        BY <1>0, <2>2, <3>1, Zenon
    <2>6. \A j \in (m + 1)..n : new.next[j] = plan.next[j]
      BY <1>0, <2>2, Zenon
    <2>7. \A j \in 1..m : \/ new.next[j] = plan.next[j] /\ offer[j] \subseteq new.used
                          \/ new.next[j] \in offer[j] \ plan.used
      BY <1>0, <2>1, <2>2, Zenon DEF Became
    <2> QED
      BY <2>3, <2>4, <2>5, <2>6, <2>7, Zenon DEF Became
  <1> QED
    BY <1>1, <1>2, Zenon

(* What a whole pass makes of a plan. *)
LEMMA PassedBecame ==
    ASSUME NEW n \in Nat, NEW T, NEW plan \in Plans(n, T), Sound(n, plan),
           NEW offer, NEW rank, \A i \in 1..n : Ranked(offer[i], T, rank)
    PROVE  /\ Passed(plan, offer, rank) \in Plans(n, T)
           /\ Became(n, n, plan, offer, Passed(plan, offer, rank))
  <1> DEFINE s == Pass(plan, offer, rank)
  <1>1. /\ s \in [0..n -> Plans(n, T)] /\ s[0] = plan
        /\ \A i \in 1..n : s[i] = Put(s[i - 1], i, offer[i], rank)
        /\ Passed(plan, offer, rank) = s[n]
    BY PassRuns
  <1> HIDE DEF s
  <1> DEFINE Good == {i \in 0..n : Became(i, n, plan, offer, s[i])}
  <1>2. 0 \in Good
    <2>1. 0 \in 0..n /\ 1..0 = {} /\ \A j \in (0 + 1)..n : TRUE
      OBVIOUS
    <2>2. Became(0, n, plan, offer, plan)
      BY <2>1, Zenon DEF Became
    <2> QED
      BY <1>1, <2>1, <2>2, Zenon
  <1>3. ASSUME NEW i \in 1..n, i - 1 \in Good PROVE i \in Good
    <2>1. i \in 0..n /\ i - 1 \in 0..n
      OBVIOUS
    <2>2. s[i - 1] \in Plans(n, T) /\ Ranked(offer[i], T, rank) /\ Became(i - 1, n, plan, offer, s[i - 1])
      BY <1>1, <1>3, <2>1, Zenon
    <2>3. s[i] = Put(s[i - 1], i, offer[i], rank)
      BY <1>1, Zenon
    <2>4. \/ s[i] = s[i - 1] /\ offer[i] \subseteq s[i - 1].used
          \/ \E t \in offer[i] \ s[i - 1].used : s[i] = Placed(s[i - 1], i, t)
      BY <2>2, <2>3, PutCases
    <2>5. Became(i, n, plan, offer, s[i])
      BY <2>2, <2>4, RoundBecame, Zenon
    <2> QED
      BY <2>1, <2>5, Zenon
  <1>4. 0..n \subseteq Good
    <2> HIDE DEF Good
    <2> QED
      BY <1>2, <1>3, LoopInduction, Zenon
  <1>5. n \in 0..n
    OBVIOUS
  <1> QED
    BY <1>1, <1>4, <1>5, Zenon

-----------------------------------------------------------------------------
(* The plans. *)

(* What filling the holes with tags makes of a plan: occupied slots stay, and  *)
(* if a hole is left all the tags are used.                                    *)
Filled(n, plan, tags, res) ==
    /\ Sound(n, res)
    /\ plan.used \subseteq res.used
    /\ \A t \in res.used \ plan.used : t \in tags /\ \E j \in 1..n : res.next[j] = t
    /\ \A j \in 1..n : plan.next[j] # Empty => res.next[j] = plan.next[j]
    /\ \A j \in 1..n : plan.next[j] = Empty =>
          \/ res.next[j] = Empty /\ tags \subseteq res.used
          \/ res.next[j] \in tags \ plan.used

(* FillHoles does so. *)
LEMMA FillHolesFills ==
    ASSUME NEW n \in Nat, NEW T, NEW plan \in Plans(n, T), Sound(n, plan),
           NEW tags, NEW rank, Ranked(tags, T, rank)
    PROVE  FillHoles(plan, tags, rank) \in Plans(n, T) /\ Filled(n, plan, tags, FillHoles(plan, tags, rank))
  <1> DEFINE offer == [i \in DOMAIN plan.next |-> IF plan.next[i] = Empty THEN tags ELSE {}]
             res == FillHoles(plan, tags, rank)
  <1>1. DOMAIN plan.next = 1..n
    BY Zenon DEF Plans, Slots
  <1>2. \A i \in 1..n : offer[i] = IF plan.next[i] = Empty THEN tags ELSE {}
    BY <1>1, Zenon
  <1>3. \A i \in 1..n : Ranked(offer[i], T, rank)
    <2>1. Ranked({}, T, rank)
      BY Zenon DEF Ranked
    <2> QED
      BY <1>2, <2>1, Zenon
  <1>4. res = Passed(plan, offer, rank)
    BY Zenon DEF FillHoles
  <1> HIDE DEF offer, res
  <1>5. res \in Plans(n, T) /\ Became(n, n, plan, offer, res)
    BY <1>3, <1>4, PassedBecame, Zenon
  <1>6. \A t \in res.used \ plan.used : t \in tags /\ \E j \in 1..n : res.next[j] = t
    <2>1. TAKE t \in res.used \ plan.used
    <2>2. PICK j \in 1..n : res.next[j] = t
      BY <1>5, Zenon DEF Became
    <2>3. t # Empty
      BY <1>5, <2>1, Zenon DEF Plans
    <2>4. plan.next[j] # t
      BY <2>1, <2>3, Zenon DEF Sound
    <2>5. t \in offer[j]
      BY <1>5, <2>2, <2>4, Zenon DEF Became
    <2> QED
      BY <1>2, <2>2, <2>5, Zenon
  <1>7. \A j \in 1..n : plan.next[j] # Empty => res.next[j] = plan.next[j]
    BY <1>2, <1>5, Zenon DEF Became
  <1>8. \A j \in 1..n : plan.next[j] = Empty =>
          \/ res.next[j] = Empty /\ tags \subseteq res.used
          \/ res.next[j] \in tags \ plan.used
    BY <1>2, <1>5, Zenon DEF Became
  <1> QED
    BY <1>5, <1>6, <1>7, <1>8, Zenon DEF Filled, Became, res

(* A plan with the slots s that has used their tags. *)
PlanOf(n, T, s, plan) ==
    /\ plan \in Plans(n, T) /\ Sound(n, plan) /\ plan.next = s
    /\ \A t : t \in plan.used <=> t # Empty /\ \E j \in 1..n : s[j] = t

(* So is the plan made of a pool. *)
LEMMA PlanFromPool ==
    ASSUME NEW n \in Nat, NEW T, NEW s \in Slots(n, T), Distinct(n, s)
    PROVE  PlanOf(n, T, s, PlanFrom(s))
  <1>1. DOMAIN s = 1..n
    BY Zenon DEF Slots
  <1>2. PlanFrom(s).next = s /\ PlanFrom(s).used = Occupants(s)
    BY Zenon DEF PlanFrom
  <1>3. \A t : t \in Occupants(s) <=> t # Empty /\ \E j \in 1..n : s[j] = t
    BY <1>1, Zenon DEF Occupants, Tags
  <1>4. Occupants(s) \in SUBSET (T \ {Empty})
    BY <1>3, Zenon DEF Slots
  <1>5. PlanFrom(s) \in Plans(n, T)
    BY <1>4, Zenon DEF PlanFrom, Plans
  <1>6. Sound(n, PlanFrom(s))
    BY <1>2, <1>3, Zenon DEF Sound
  <1> QED
    BY <1>2, <1>3, <1>5, <1>6, Zenon DEF PlanOf

(* Every tag of a pool has a position in it. *)
LEMMA PositionRanks ==
    ASSUME NEW m \in Nat, NEW T \in SUBSET Nat, NEW order \in Slots(m, T),
           NEW tags, tags \subseteq Occupants(order)
    PROVE  Ranked(tags, T, Position(order))
  <1>1. DOMAIN order = 1..m
    BY Zenon DEF Slots
  <1>2. ASSUME NEW t \in tags PROVE t \in T /\ t # Empty /\ t \in Nat /\ Position(order)[t] \in Nat
    <2>1. t \in Occupants(order) /\ t \in T /\ t # Empty /\ \E i \in 1..m : order[i] = t
      BY <1>1, Zenon DEF Occupants, Tags, Slots
    <2>2. (CHOOSE i \in 1..m : order[i] = t) \in 1..m
      BY <2>1, Zenon
    <2>3. Position(order)[t] = CHOOSE i \in 1..m : order[i] = t
      BY <1>1, <2>1, Zenon DEF Position
    <2>4. Position(order)[t] \in Nat
      BY <2>2, <2>3
    <2> QED
      BY <2>1, <2>4, Zenon
  <1> QED
    BY <1>2, Zenon DEF Ranked

(* No slot is a hole. *)
Full(n, s) == \A j \in 1..n : s[j] # Empty

(* KeepDead leaves the occupied slots alone; and if it comes after a full pool, *)
(* whose dead the plan has not placed elsewhere, each hole goes to the one that *)
(* was there before.                                                            *)
LEMMA KeepDeadKeeps ==
    ASSUME NEW n \in Nat, NEW m \in 0..n, NEW T \in SUBSET Nat, NEW current \in Slots(m, T),
           NEW live, NEW plan \in Plans(n, T), Sound(n, plan)
    PROVE  LET res == KeepDead(plan, current, live) IN
           /\ res \in Plans(n, T) /\ Sound(n, res)
           /\ \A j \in 1..n : plan.next[j] # Empty => res.next[j] = plan.next[j]
           /\ m = n /\ Full(n, current) /\ Distinct(n, current)
              /\ (\A j \in 1..n : plan.next[j] = Empty => current[j] \notin live /\ current[j] \notin plan.used)
                 => \A j \in 1..n : plan.next[j] = Empty => res.next[j] = current[j]
  <1> DEFINE dead == Occupants(current) \ live
             rank == Position(current)
             home == [i \in DOMAIN plan.next |->
                         IF plan.next[i] = Empty /\ i <= Len(current) THEN {current[i]} \cap dead ELSE {}]
             back == Passed(plan, home, rank)
             res == KeepDead(plan, current, live)
  <1>1. DOMAIN plan.next = 1..n
    BY Zenon DEF Plans, Slots
  <1>2. Len(current) = m /\ m \in Nat /\ DOMAIN current = 1..m /\ \A i \in 1..n : i <= m => i \in 1..m
    <2>1. current \in [1..m -> T \cup {Empty}]
      BY Zenon DEF Slots
    <2> QED
      BY <2>1, SlotsAreSequences
  <1>3. \A i \in 1..n : home[i] = IF plan.next[i] = Empty /\ i <= m THEN {current[i]} \cap dead ELSE {}
    BY <1>1, <1>2, Zenon
  <1>4. res = FillHoles(back, dead, rank)
    BY Zenon DEF KeepDead
  <1>5. Ranked(dead, T, rank)
    BY <1>2, PositionRanks, Zenon
  <1>6. \A i \in 1..n : Ranked(home[i], T, rank)
    <2> HIDE DEF home, dead, rank
    <2>1. \A i \in 1..n : home[i] \subseteq dead
      BY <1>3, Zenon
    <2> QED
      BY <1>5, <2>1, Zenon DEF Ranked
  <1>7. back \in Plans(n, T) /\ Became(n, n, plan, home, back)
    <2> HIDE DEF home, rank
    <2> QED
      BY <1>6, PassedBecame, Zenon
  <1>8. res \in Plans(n, T) /\ Filled(n, back, dead, res)
    <2>1. Sound(n, back)
      BY <1>7, Zenon DEF Became
    <2> HIDE DEF back, dead, rank, res
    <2> QED
      BY <1>4, <1>5, <1>7, <2>1, FillHolesFills, Zenon
  <1> HIDE DEF home, back, res, rank
  <1>9. \A j \in 1..n : plan.next[j] # Empty => back.next[j] = plan.next[j]
    BY <1>3, <1>7, Zenon DEF Became
  <1>10. ASSUME m = n, Full(n, current), Distinct(n, current),
                \A j \in 1..n : plan.next[j] = Empty => current[j] \notin live /\ current[j] \notin plan.used,
                NEW j \in 1..n, plan.next[j] = Empty
         PROVE  back.next[j] = current[j] /\ current[j] # Empty
    <2>1. \A i \in 1..n : i <= m
      BY <1>10
    <2>2. current[j] # Empty /\ current[j] \in dead
      BY <1>2, <1>10, Zenon DEF Full, Occupants, Tags
    <2>3. home[j] = {current[j]}
      BY <1>3, <1>10, <2>1, <2>2, Zenon
    <2>4. SUFFICES ASSUME back.next[j] # current[j] PROVE FALSE
      BY <2>2, Zenon
    <2>5. back.next[j] = Empty /\ current[j] \in back.used
      BY <1>7, <1>10, <2>3, <2>4, Zenon DEF Became
    <2>6. PICK i \in 1..n : back.next[i] = current[j]
      BY <1>7, <1>10, <2>5, Zenon DEF Became
    <2>7. plan.next[i] # current[j]
      BY <1>10, <2>2, Zenon DEF Sound
    <2>8. current[j] \in home[i]
      BY <1>7, <2>6, <2>7, Zenon DEF Became
    <2>9. current[i] = current[j]
      BY <1>3, <2>8, Zenon
    <2>10. i = j
      BY <1>10, <2>2, <2>9, Zenon DEF Distinct
    <2> QED
      BY <2>4, <2>6, <2>10, Zenon
  <1>11. \A j \in 1..n : back.next[j] # Empty => res.next[j] = back.next[j]
    BY <1>8, Zenon DEF Filled
  <1>12. Sound(n, res)
    BY <1>8, Zenon DEF Filled
  <1>13. \A j \in 1..n : plan.next[j] # Empty => res.next[j] = plan.next[j]
    BY <1>9, <1>11, Zenon
  <1> QED
    BY <1>8, <1>10, <1>11, <1>12, <1>13, Zenon DEF res

(* Tag t has a slot. *)
Has(n, s, t) == \E j \in 1..n : s[j] = t

(* The pool a check without tolerance is building: the members that are alive  *)
(* have their slots, the other slots are holes or have gone to live nodes from *)
(* outside the pool.                                                           *)
Fits(n, m, T, current, live, next) ==
    /\ next \in Slots(n, T) /\ Distinct(n, next)
    /\ \A j \in 1..n : next[j] # Empty => next[j] \in live
    /\ \A j \in 1..n : next[j] = Empty \/ (j \in 1..m /\ next[j] = current[j]) \/ ~Has(m, current, next[j])
    /\ \A j \in 1..m : current[j] \in live => next[j] = current[j]

(* KeepLive begins it. *)
LEMMA KeepLiveFits ==
    ASSUME NEW n \in Nat, NEW m \in 0..n, NEW T, NEW current \in Slots(m, T), Distinct(m, current),
           NEW live, Empty \notin live
    PROVE  Fits(n, m, T, current, live, KeepLive(current, live, n))
  <1> DEFINE next == KeepLive(current, live, n)
  <1>1. Len(current) = m
    <2>1. current \in [1..m -> T \cup {Empty}] /\ m \in Nat
      BY DEF Slots
    <2> QED
      BY <2>1, SlotsAreSequences, Zenon
  <1>2. Larger(n, Len(current)) = n
    BY <1>1 DEF Larger
  <1>3. next = [i \in 1..n |-> IF i <= m /\ current[i] \in live THEN current[i] ELSE Empty]
    BY <1>1, <1>2, Zenon DEF KeepLive
  <1>4. \A i \in 1..m : i \in 1..n /\ i <= m
    OBVIOUS
  <1>5. \A i \in 1..n : i <= m => i \in 1..m
    OBVIOUS
  <1> HIDE DEF next
  <1>6. \A j \in 1..n : next[j] = Empty \/ (j \in 1..m /\ next[j] = current[j] /\ current[j] \in live)
    BY <1>3, <1>5, Zenon
  <1>7. \A j \in 1..m : current[j] \in live => next[j] = current[j]
    BY <1>3, <1>4, Zenon
  <1>8. next \in Slots(n, T)
    <2>1. \A j \in 1..m : current[j] \in T \cup {Empty}
      BY Zenon DEF Slots
    <2>2. \A j \in 1..n : next[j] \in T \cup {Empty}
      BY <1>6, <2>1, Zenon
    <2>3. DOMAIN next = 1..n /\ next = [i \in 1..n |-> next[i]]
      BY <1>3, Zenon
    <2> QED
      BY <2>2, <2>3, Zenon DEF Slots
  <1>9. Distinct(n, next)
    BY <1>6, Zenon DEF Distinct
  <1>10. \A j \in 1..n : next[j] # Empty => next[j] \in live
    BY <1>6, Zenon
  <1> QED
    BY <1>6, <1>7, <1>8, <1>9, <1>10, Zenon DEF Fits, next

(* Live nodes from outside the pool take holes of it, all of them if a hole is *)
(* left.                                                                       *)
LEMMA FillFits ==
    ASSUME NEW n \in Nat, NEW m \in 0..n, NEW T, NEW current, NEW live, Empty \notin live, NEW next,
           Fits(n, m, T, current, live, next),
           NEW tags, NEW rank, Ranked(tags, T, rank),
           \A t \in tags : t \in live /\ ~Has(m, current, t)
    PROVE  LET plan == FillHoles(PlanFrom(next), tags, rank) IN
           /\ plan \in Plans(n, T) /\ Sound(n, plan) /\ \A t \in plan.used : Has(n, plan.next, t)
           /\ Fits(n, m, T, current, live, plan.next)
           /\ \A t : t # Empty /\ Has(n, next, t) => Has(n, plan.next, t)
           /\ ~Full(n, plan.next) => \A t \in tags : Has(n, plan.next, t)
  <1> DEFINE before == PlanFrom(next)
             plan == FillHoles(before, tags, rank)
  <1>1. next \in Slots(n, T) /\ Distinct(n, next)
    BY Zenon DEF Fits
  <1>2. /\ before \in Plans(n, T) /\ Sound(n, before) /\ before.next = next
        /\ \A t : t \in before.used <=> t # Empty /\ \E j \in 1..n : next[j] = t
    <2>1. PlanOf(n, T, next, before)
      BY <1>1, PlanFromPool, Zenon
    <2> QED
      BY <2>1, Zenon DEF PlanOf
  <1> HIDE DEF before
  <1>3. plan \in Plans(n, T) /\ Filled(n, before, tags, plan)
    BY <1>2, FillHolesFills, Zenon
  <1> HIDE DEF plan
  <1>4. plan.next \in Slots(n, T) /\ Sound(n, plan) /\ Distinct(n, plan.next)
    BY <1>3, Zenon DEF Plans, Filled, Sound
  <1>5. \A j \in 1..n : next[j] # Empty => plan.next[j] = next[j]
    BY <1>2, <1>3, Zenon DEF Filled
  <1>6. \A j \in 1..n : next[j] = Empty =>
           (plan.next[j] = Empty /\ tags \subseteq plan.used) \/ plan.next[j] \in tags
    BY <1>2, <1>3, Zenon DEF Filled
  <1>7. \A t : t # Empty /\ Has(n, next, t) => Has(n, plan.next, t)
    BY <1>5, Zenon DEF Has
  <1>8. \A t \in plan.used : Has(n, plan.next, t)
    <2>1. \A t \in plan.used : t \in before.used \/ \E j \in 1..n : plan.next[j] = t
      BY <1>3, Zenon DEF Filled
    <2> QED
      BY <1>2, <1>7, <2>1, Zenon DEF Has
  <1>9. Fits(n, m, T, current, live, plan.next)
    <2>1. \A j \in 1..n : plan.next[j] # Empty => plan.next[j] \in live
      BY <1>5, <1>6, Zenon DEF Fits
    <2>2. \A j \in 1..n : plan.next[j] = Empty \/ (j \in 1..m /\ plan.next[j] = current[j])
                                             \/ ~Has(m, current, plan.next[j])
      BY <1>5, <1>6, Zenon DEF Fits
    <2>3. \A j \in 1..m : current[j] \in live => plan.next[j] = current[j]
      <3>1. \A j \in 1..m : j \in 1..n
        OBVIOUS
      <3>2. SUFFICES ASSUME NEW j \in 1..m, current[j] \in live PROVE plan.next[j] = current[j]
        BY Zenon
      <3>3. next[j] = current[j]
        BY <3>2, Zenon DEF Fits
      <3> QED
        BY <1>5, <3>1, <3>2, <3>3, Zenon
    <2> QED
      BY <1>4, <2>1, <2>2, <2>3, Zenon DEF Fits
  <1>10. ~Full(n, plan.next) => \A t \in tags : Has(n, plan.next, t)
    <2>1. SUFFICES ASSUME NEW j \in 1..n, plan.next[j] = Empty PROVE tags \subseteq plan.used
      BY <1>8, Zenon DEF Full
    <2>2. next[j] = Empty
      BY <1>5, <2>1, Zenon
    <2>3. Empty \notin tags
      BY Zenon DEF Ranked
    <2> QED
      BY <1>6, <2>1, <2>2, <2>3, Zenon
  <1> QED
    BY <1>3, <1>4, <1>7, <1>8, <1>9, <1>10, Zenon DEF plan, before

(* What a check may do to a full pool: a slot keeps its tag, or takes one from *)
(* outside the pool, and only if its own has not answered.                     *)
Settled(n, current, live, next) ==
    \A j \in 1..n : \/ next[j] = current[j]
                    \/ next[j] # Empty /\ ~Has(n, current, next[j]) /\ current[j] \notin live

(* A tag that has not answered is kept only if all that have are in the pool. *)
LiveFirst(n, live, next) ==
    (\E j \in 1..n : next[j] \notin live) => \A t \in live : Has(n, next, t)

(* The dead go back. *)
LEMMA KeepDeadSettles ==
    ASSUME NEW n \in Nat, NEW m \in 0..n, NEW T \in SUBSET Nat, NEW current \in Slots(m, T),
           NEW live, Empty \notin live, NEW plan \in Plans(n, T), Sound(n, plan),
           \A t \in plan.used : Has(n, plan.next, t),
           Fits(n, m, T, current, live, plan.next)
    PROVE  LET next == KeepDead(plan, current, live).next IN
           /\ next \in Slots(n, T) /\ Distinct(n, next)
           /\ m = n /\ Full(n, current) /\ Distinct(n, current) => Settled(n, current, live, next)
           /\ (~Full(n, plan.next) => \A t \in live : Has(n, plan.next, t)) => LiveFirst(n, live, next)
  <1> DEFINE res == KeepDead(plan, current, live)
  <1>1. /\ res \in Plans(n, T) /\ Sound(n, res)
        /\ \A j \in 1..n : plan.next[j] # Empty => res.next[j] = plan.next[j]
        /\ m = n /\ Full(n, current) /\ Distinct(n, current)
           /\ (\A j \in 1..n : plan.next[j] = Empty => current[j] \notin live /\ current[j] \notin plan.used)
              => \A j \in 1..n : plan.next[j] = Empty => res.next[j] = current[j]
    BY KeepDeadKeeps
  <1> HIDE DEF res
  <1>2. res.next \in Slots(n, T) /\ Distinct(n, res.next)
    BY <1>1, Zenon DEF Plans, Sound
  <1>3. ASSUME m = n, Full(n, current), Distinct(n, current) PROVE Settled(n, current, live, res.next)
    <2>1. ASSUME NEW j \in 1..n, plan.next[j] = Empty PROVE current[j] \notin live /\ current[j] \notin plan.used
      <3>1. current[j] \notin live
        BY <1>3, <2>1, Zenon DEF Fits
      <3>2. current[j] # Empty
        BY <1>3, Zenon DEF Full
      <3>3. \A i \in 1..n : plan.next[i] # current[j]
        BY <3>1, <3>2, Zenon DEF Fits
      <3> QED
        BY <3>1, <3>3, Zenon DEF Has
    <2>2. \A j \in 1..n : plan.next[j] = Empty => res.next[j] = current[j]
      BY <1>1, <1>3, <2>1, Zenon
    <2>3. ASSUME NEW j \in 1..n, plan.next[j] # Empty
          PROVE  \/ res.next[j] = current[j]
                 \/ res.next[j] # Empty /\ ~Has(n, current, res.next[j]) /\ current[j] \notin live
      <3>1. res.next[j] = plan.next[j]
        BY <1>1, <2>3, Zenon
      <3>2. plan.next[j] = current[j] \/ ~Has(n, current, plan.next[j])
        BY <1>3, <2>3, Zenon DEF Fits
      <3>3. current[j] \in live => plan.next[j] = current[j]
        BY <1>3, Zenon DEF Fits
      <3> QED
        BY <2>3, <3>1, <3>2, <3>3, Zenon
    <2> QED
      BY <2>2, <2>3, Zenon DEF Settled
  <1>4. ASSUME ~Full(n, plan.next) => \A t \in live : Has(n, plan.next, t)
        PROVE  LiveFirst(n, live, res.next)
    <2>1. SUFFICES ASSUME NEW j \in 1..n, res.next[j] \notin live, NEW t \in live PROVE Has(n, res.next, t)
      BY Zenon DEF LiveFirst
    <2>2. plan.next[j] = Empty
      BY <1>1, <2>1, Zenon DEF Fits
    <2>3. PICK i \in 1..n : plan.next[i] = t
      BY <1>4, <2>2, Zenon DEF Full, Has
    <2>4. t # Empty
      BY <2>1, Zenon
    <2> QED
      BY <1>1, <2>3, <2>4, Zenon DEF Has
  <1> QED
    BY <1>2, <1>3, <1>4, Zenon DEF res

Results(T) == [T -> Nat \cup {Dead}]

(* The nodes that have answered have their delays for rank. *)
LEMMA AliveRanked ==
    ASSUME NEW T \in SUBSET (Nat \ {Empty}), NEW results \in Results(T), NEW tags, tags \subseteq Alive(results)
    PROVE  Ranked(tags, T, results) /\ Empty \notin Alive(results) /\ Alive(results) \subseteq T
  <1>1. Alive(results) \subseteq T /\ \A t \in Alive(results) : results[t] \in Nat
    BY Zenon DEF Alive, Results
  <1> QED
    BY <1>1, Zenon DEF Ranked

(* What a check may publish after a full pool: a slot keeps its tag, or takes  *)
(* one from outside the pool, which has to be faster by more than a tolerance  *)
(* if the one that it replaces has answered.                                   *)
Orderly(n, current, results, tolerance, next) ==
    \A j \in 1..n : \/ next[j] = current[j]
                    \/ /\ next[j] # Empty /\ ~Has(n, current, next[j])
                       /\ current[j] \in Alive(results) =>
                             tolerance > 0 /\ results[next[j]] + tolerance < results[current[j]]

(* A check without tolerance keeps to that, and puts the live first. *)
LEMMA FirstLivePool ==
    ASSUME NEW n \in Nat, NEW m \in 0..n, NEW T \in SUBSET (Nat \ {Empty}),
           NEW current \in Slots(m, T), Distinct(m, current), NEW results \in Results(T)
    PROVE  LET next == planFirstLivePool(current, results, Alive(results) \ Tags(current), n) IN
           /\ next \in Slots(n, T) /\ Distinct(n, next)
           /\ m = n /\ Full(n, current) => Settled(n, current, Alive(results), next)
           /\ LiveFirst(n, Alive(results), next)
  <1> DEFINE live == Alive(results)
             fill == live \ Tags(current)
             kept == KeepLive(current, live, n)
             plan == FillHoles(PlanFrom(kept), fill, results)
             next == KeepDead(plan, current, live).next
  <1>1. Ranked(fill, T, results) /\ Empty \notin live
    BY AliveRanked, Zenon
  <1>2. \A t \in fill : t \in live /\ ~Has(m, current, t)
    <2>1. DOMAIN current = 1..m
      BY Zenon DEF Slots
    <2> QED
      BY <2>1, Zenon DEF Tags, Has
  <1>3. \A t \in live : t \in fill \/ Has(m, current, t)
    <2>1. DOMAIN current = 1..m
      BY Zenon DEF Slots
    <2> QED
      BY <2>1, Zenon DEF Tags, Has
  <1>4. planFirstLivePool(current, results, Alive(results) \ Tags(current), n) = next
    BY Zenon DEF planFirstLivePool
  <1> HIDE DEF live, fill
  <1>5. Fits(n, m, T, current, live, kept)
    BY <1>1, KeepLiveFits, Zenon
  <1> HIDE DEF kept
  <1>6. /\ plan \in Plans(n, T) /\ Sound(n, plan) /\ \A t \in plan.used : Has(n, plan.next, t)
        /\ Fits(n, m, T, current, live, plan.next)
        /\ ~Full(n, plan.next) => \A t \in fill : Has(n, plan.next, t)
    BY <1>1, <1>2, <1>5, FillFits, Zenon
  <1> HIDE DEF plan
  <1>7. ~Full(n, plan.next) => \A t \in live : Has(n, plan.next, t)
    <2>1. ASSUME NEW t \in live, Has(m, current, t) PROVE Has(n, plan.next, t)
      <3>1. PICK j \in 1..m : current[j] = t
        BY <2>1, Zenon DEF Has
      <3>2. j \in 1..n
        OBVIOUS
      <3> QED
        BY <1>6, <3>1, <3>2, Zenon DEF Fits, Has
    <2> QED
      BY <1>3, <1>6, <2>1, Zenon
  <1>8. T \in SUBSET Nat
    BY Zenon
  <1>9. /\ next \in Slots(n, T) /\ Distinct(n, next)
        /\ m = n /\ Full(n, current) /\ Distinct(n, current) => Settled(n, current, live, next)
        /\ LiveFirst(n, live, next)
    BY <1>1, <1>6, <1>7, <1>8, KeepDeadSettles, Zenon
  <1> QED
    BY <1>4, <1>9, Zenon DEF live

(* A check with a tolerance, too. *)
LEMMA TolerantPool ==
    ASSUME NEW n \in Nat, NEW m \in 0..n, NEW T \in SUBSET (Nat \ {Empty}),
           NEW current \in Slots(m, T), Distinct(m, current), NEW results \in Results(T),
           NEW tolerance \in Nat
    PROVE  LET next == planTolerantPool(current, results, n, tolerance) IN
           /\ next \in Slots(n, T) /\ Distinct(n, next)
           /\ m = n /\ Full(n, current) /\ tolerance > 0 => Orderly(n, current, results, tolerance, next)
  <1> DEFINE grown == [i \in 1..Larger(n, Len(current)) |-> IF i <= Len(current) THEN current[i] ELSE Empty]
             full == FillHoles(PlanFrom(grown), Alive(results), results)
             rivals == [i \in DOMAIN grown |-> Rivals(full.next[i], results, tolerance)]
             res == Passed(full, rivals, results)
  <1>1. Len(current) = m /\ Larger(n, Len(current)) = n
    <2>1. current \in [1..m -> T \cup {Empty}] /\ m \in Nat
      BY DEF Slots
    <2>2. Len(current) = m
      BY <2>1, SlotsAreSequences, Zenon
    <2> QED
      BY <2>2 DEF Larger
  <1>2. grown = [i \in 1..n |-> IF i <= m THEN current[i] ELSE Empty]
    BY <1>1, Zenon
  <1>3. planTolerantPool(current, results, n, tolerance) = res.next
    BY Zenon DEF planTolerantPool
  <1> HIDE DEF grown
  <1>4. grown \in Slots(n, T) /\ Distinct(n, grown)
    <2>1. \A i \in 1..n : i <= m => i \in 1..m
      OBVIOUS
    <2>2. \A i \in 1..m : current[i] \in T \cup {Empty}
      BY Zenon DEF Slots
    <2>3. grown \in Slots(n, T)
      BY <1>2, <2>1, <2>2, Zenon DEF Slots
    <2> QED
      BY <1>2, <2>1, <2>3, Zenon DEF Distinct
  <1>5. /\ PlanFrom(grown) \in Plans(n, T) /\ Sound(n, PlanFrom(grown)) /\ PlanFrom(grown).next = grown
        /\ \A t : t \in PlanFrom(grown).used <=> t # Empty /\ \E j \in 1..n : grown[j] = t
    <2>1. PlanOf(n, T, grown, PlanFrom(grown))
      BY <1>4, PlanFromPool, Zenon
    <2> QED
      BY <2>1, Zenon DEF PlanOf
  <1>6. Ranked(Alive(results), T, results)
    BY AliveRanked, Zenon
  <1>7. full \in Plans(n, T) /\ Filled(n, PlanFrom(grown), Alive(results), full)
    BY <1>5, <1>6, FillHolesFills, Zenon
  <1> HIDE DEF full
  <1>8. \A i \in 1..n : rivals[i] = Rivals(full.next[i], results, tolerance)
    BY <1>4, Zenon DEF Slots
  <1>9. \A i \in 1..n : Ranked(rivals[i], T, results)
    <2>1. \A i \in 1..n : rivals[i] \subseteq Alive(results)
      BY <1>8, Zenon DEF Rivals
    <2> HIDE DEF rivals
    <2> QED
      BY <2>1, AliveRanked, Zenon
  <1> HIDE DEF rivals
  <1>10. res \in Plans(n, T) /\ Became(n, n, full, rivals, res)
    <2>1. Sound(n, full)
      BY <1>7, Zenon DEF Filled
    <2> QED
      BY <1>7, <1>9, <2>1, PassedBecame, Zenon
  <1> HIDE DEF res
  <1>11. res.next \in Slots(n, T) /\ Distinct(n, res.next)
    BY <1>10, Zenon DEF Plans, Became, Sound
  <1>12. ASSUME m = n, Full(n, current), tolerance > 0 PROVE Orderly(n, current, results, tolerance, res.next)
    <2>1. \A i \in 1..n : grown[i] = current[i] /\ current[i] # Empty
      BY <1>2, <1>12 DEF Full
    <2>2. \A i \in 1..n : full.next[i] = current[i]
      BY <1>5, <1>7, <2>1, Zenon DEF Filled
    <2>3. \A i \in 1..n : current[i] \in full.used
      BY <1>5, <1>7, <2>1, Zenon DEF Filled
    <2>4. ASSUME NEW j \in 1..n, res.next[j] # current[j]
          PROVE  /\ res.next[j] # Empty /\ ~Has(n, current, res.next[j])
                 /\ current[j] \in Alive(results) => results[res.next[j]] + tolerance < results[current[j]]
      <3>1. res.next[j] \in rivals[j] \ full.used
        BY <1>10, <2>2, <2>4, Zenon DEF Became
      <3>2. res.next[j] # Empty
        BY <1>9, <3>1, Zenon DEF Ranked
      <3>3. ~Has(n, current, res.next[j])
        BY <2>3, <3>1, Zenon DEF Has
      <3>4. res.next[j] \in Rivals(current[j], results, tolerance)
        BY <1>8, <2>2, <3>1, Zenon
      <3>5. slotDelay(current[j], results) = results[current[j]]
        BY <2>1, Zenon DEF slotDelay
      <3>6. current[j] \in Alive(results) => results[current[j]] # Dead
        BY Zenon DEF Alive
      <3>7. current[j] \in Alive(results) => results[res.next[j]] + tolerance < results[current[j]]
        BY <3>4, <3>5, <3>6, Zenon DEF Rivals
      <3> QED
        BY <3>2, <3>3, <3>7, Zenon
    <2> QED
      BY <1>12, <2>4, Zenon DEF Orderly
  <1> QED
    BY <1>3, <1>11, <1>12, Zenon

(* n slots with a hole do not hold the tags of a longer list without repetition. *)
LEMMA HoleMisses ==
    ASSUME NEW n \in Nat, NEW s, NEW h \in 1..n, s[h] = Empty,
           NEW len \in Nat, n <= len, NEW list,
           \A i \in 1..len : list[i] # Empty,
           \A i, j \in 1..len : list[i] = list[j] => i = j
    PROVE  \E i \in 1..len : ~Has(n, s, list[i])
  <1>1. SUFFICES ASSUME \A i \in 1..len : Has(n, s, list[i]) PROVE FALSE
    BY Zenon
  <1> DEFINE slot == [i \in 1..len |-> CHOOSE j \in 1..n : s[j] = list[i]]
             others == (1..n) \ {h}
  <1>2. \A i \in 1..len : slot[i] \in 1..n /\ s[slot[i]] = list[i]
    BY <1>1, Zenon DEF Has
  <1>3. slot \in [1..len -> others]
    BY <1>2, Zenon
  <1>4. IsFiniteSet(others) /\ Cardinality(others) = n - 1
    <2>1. IsFiniteSet(1..n) /\ Cardinality(1..n) = n
      BY FS_Interval
    <2> QED
      BY <2>1, FS_RemoveElement, Zenon
  <1>5. IsFiniteSet(1..len) /\ Cardinality(1..len) = len
    BY FS_Interval
  <1>6. Cardinality(others) < Cardinality(1..len)
    BY <1>4, <1>5
  <1> HIDE DEF slot, others
  <1>7. PICK i, j \in 1..len : i # j /\ slot[i] = slot[j]
    BY <1>3, <1>4, <1>5, <1>6, FS_PigeonHole
  <1>8. list[i] = list[j]
    BY <1>2, <1>7, Zenon
  <1> QED
    BY <1>7, <1>8, Zenon

(* The seed fills the pool. *)
LEMMA SeedPool ==
    ASSUME NEW len \in Nat, NEW list \in [1..len -> Nat \ {Empty}],
           \A i, j \in 1..len : list[i] = list[j] => i = j,
           NEW n \in Nat, n <= len, NEW h \in Results(Tags(list))
    PROVE  LET next == seedPool(list, h, n) IN
           next \in Slots(n, Tags(list)) /\ Distinct(n, next) /\ Full(n, next)
  <1> DEFINE T == Tags(list)
             empty == [i \in 1..n |-> Empty]
             none == PlanFrom(empty)
             warm == FillHoles(none, Alive(h), h)
             full == FillHoles(warm, Occupants(list), Position(list))
  <1>1. /\ T \in SUBSET (Nat \ {Empty}) /\ T \in SUBSET Nat
        /\ Occupants(list) = T /\ \A t \in T : \E i \in 1..len : list[i] = t
        /\ \A i \in 1..len : list[i] \in T /\ list[i] # Empty
    BY Zenon DEF Tags, Occupants
  <1>2. list \in Slots(len, T)
    BY <1>1, Zenon DEF Slots
  <1>3. seedPool(list, h, n) = full.next
    BY Zenon DEF seedPool
  <1> HIDE DEF T
  <1>4. empty \in Slots(n, T) /\ Distinct(n, empty) /\ \A j \in 1..n : empty[j] = Empty
    BY Zenon DEF Slots, Distinct
  <1> HIDE DEF empty
  <1>5. none \in Plans(n, T) /\ Sound(n, none) /\ none.next = empty /\ none.used = {}
    <2>1. /\ none \in Plans(n, T) /\ Sound(n, none) /\ none.next = empty
          /\ \A t : t \in none.used <=> t # Empty /\ \E j \in 1..n : empty[j] = t
      <3>1. PlanOf(n, T, empty, none)
        BY <1>4, PlanFromPool, Zenon
      <3> QED
        BY <3>1, Zenon DEF PlanOf
    <2> HIDE DEF none
    <2> QED
      BY <1>4, <2>1, Zenon
  <1> HIDE DEF none
  <1>6. Ranked(Alive(h), T, h)
    <2>1. h \in Results(T)
      BY Zenon DEF T
    <2> QED
      BY <1>1, <2>1, AliveRanked, Zenon
  <1>7. warm \in Plans(n, T) /\ Filled(n, none, Alive(h), warm)
    BY <1>5, <1>6, FillHolesFills, Zenon
  <1> HIDE DEF warm
  <1>8. Ranked(T, T, Position(list))
    BY <1>1, <1>2, PositionRanks, Zenon
  <1>9. full \in Plans(n, T) /\ Filled(n, warm, T, full)
    <2>1. Sound(n, warm)
      BY <1>7, Zenon DEF Filled
    <2>2. full = FillHoles(warm, T, Position(list))
      BY <1>1, Zenon
    <2> HIDE DEF full
    <2> QED
      BY <1>7, <1>8, <2>1, <2>2, FillHolesFills, Zenon
  <1> HIDE DEF full
  <1>10. full.next \in Slots(n, T) /\ Distinct(n, full.next)
    BY <1>9, Zenon DEF Plans, Filled, Sound
  <1>11. \A t \in full.used : Has(n, full.next, t)
    <2>1. ASSUME NEW t \in warm.used PROVE Has(n, full.next, t)
      <3>1. PICK j \in 1..n : warm.next[j] = t
        BY <1>5, <1>7, Zenon DEF Filled
      <3>2. t # Empty
        BY <1>7, Zenon DEF Plans
      <3> QED
        BY <1>9, <3>1, <3>2, Zenon DEF Filled, Has
    <2> QED
      BY <1>9, <2>1, Zenon DEF Filled, Has
  <1>12. Full(n, full.next)
    <2>1. SUFFICES ASSUME NEW j \in 1..n, full.next[j] = Empty PROVE FALSE
      BY Zenon DEF Full
    <2>2. PICK i \in 1..len : ~Has(n, full.next, list[i])
      BY <1>1, <2>1, HoleMisses, ZenonT(30)
    <2>3. T \subseteq full.used
      <3>1. warm.next[j] = Empty
        BY <1>9, <2>1, Zenon DEF Filled
      <3> QED
        BY <1>1, <1>9, <2>1, <3>1, Zenon DEF Filled
    <2> QED
      BY <1>1, <1>11, <2>2, <2>3, Zenon
  <1> QED
    BY <1>3, <1>10, <1>12, Zenon DEF T

-----------------------------------------------------------------------------
(* The state machine. *)

Reports == [Nodes -> Delays \cup {Dead}]

(* No pool, or as many slots as the pool has. *)
Pools == {<<>>} \cup {s \in Slots(poolSize, Nodes) : Distinct(poolSize, s)}

Checks == [pc : {"none", "test", "plan", "set"}, force : BOOLEAN, cancelled : BOOLEAN,
           current : Pools, next : Pools,
           rest : SUBSET Nodes, batch : SUBSET Nodes, todo : SUBSET Nodes, result : Reports]

Types ==
    /\ setup \in Setups /\ started \in BOOLEAN /\ closed \in BOOLEAN
    /\ history \in Reports /\ slots \in Pools /\ check \in Checks

(* The published slots s: all of them from PostStart on, and without a hole. *)
SlotsOK(s, begun) ==
    begun => s # <<>> /\ (~EarlyCheck => Full(poolSize, s))

Lazy(c) == ~c.force /\ poolTolerance = 0

(* A check without tolerance tests the members first, then batches of nodes    *)
(* from outside the pool.  Those found alive so far are in the pool it builds. *)
Testing(c) ==
    LET live == Alive(c.result)
    IN  IF c.next = <<>> THEN c.batch = Occupants(c.current) /\ live \subseteq c.batch
        ELSE /\ Fits(poolSize, poolSize, Nodes, c.current, live, c.next)
             /\ \A t \in c.batch \cup c.rest : ~Has(poolSize, c.current, t)
             /\ \A t \in live : Has(poolSize, c.next, t) \/ t \in c.batch

(* A check that is about to publish, the slots being s. *)
Planned(c, s) ==
    /\ c.next # <<>>
    /\ poolTolerance = 0 => LiveFirst(poolSize, Alive(c.result), c.next)
    /\ ~EarlyCheck => Orderly(poolSize, s, c.result, poolTolerance, c.next)

CheckOK(c, s, begun) ==
    /\ c.todo \subseteq c.batch
    /\ c.pc # "none" /\ ~EarlyCheck => begun
    /\ c.pc # "none" /\ ~c.force => begun /\ c.current = s
    /\ c.pc = "test" /\ Lazy(c) => Testing(c)
    /\ c.pc = "plan" => ~Lazy(c)
    /\ c.pc = "set" => Planned(c, s)

(* The inductive invariant. *)
IInv == Types /\ SlotsOK(slots, started) /\ CheckOK(check, slots, started)

(* The group: its members are distinct, and there are no more slots than members. *)
LEMMA GroupFacts ==
    ASSUME setup \in Setups
    PROVE  /\ Len(outbounds) \in Nat /\ outbounds \in [1..Len(outbounds) -> Nat \ {Empty}]
           /\ \A i, j \in 1..Len(outbounds) : outbounds[i] = outbounds[j] => i = j
           /\ Nodes \in SUBSET (Nat \ {Empty})
           /\ poolSize \in Nat /\ poolSize > 0 /\ poolSize <= Len(outbounds)
           /\ poolTolerance \in Nat /\ Delays \subseteq Nat /\ EarlyCheck \in BOOLEAN
  <1>1. /\ setup.outbounds \in Seq(Nat \ {Empty}) /\ Len(setup.outbounds) > 0
        /\ \A i, j \in DOMAIN setup.outbounds : setup.outbounds[i] = setup.outbounds[j] => i = j
        /\ setup.pool \in Nat \ {0} /\ setup.tolerance \in Nat /\ setup.delays \subseteq Nat
        /\ setup.early \in BOOLEAN
    BY SetupAssumption, Zenon
  <1>2. /\ Len(outbounds) \in Nat /\ outbounds \in [1..Len(outbounds) -> Nat \ {Empty}]
        /\ DOMAIN outbounds = 1..Len(outbounds)
    BY <1>1 DEF outbounds
  <1>3. Nodes \in SUBSET (Nat \ {Empty})
    BY <1>2, Zenon DEF Nodes, Tags
  <1>4. poolSize \in Nat /\ poolSize > 0 /\ poolSize <= Len(outbounds)
    BY <1>1, <1>2 DEF poolSize, outbounds
  <1> QED
    BY <1>1, <1>2, <1>3, <1>4, Zenon DEF outbounds, poolTolerance, Delays, EarlyCheck

(* A step does not change the group. *)
LEMMA GroupStays ==
    ASSUME UNCHANGED setup
    PROVE  /\ outbounds' = outbounds /\ Nodes' = Nodes /\ poolSize' = poolSize
           /\ poolTolerance' = poolTolerance /\ Delays' = Delays /\ EarlyCheck' = EarlyCheck
           /\ Reports' = Reports /\ Pools' = Pools /\ Checks' = Checks
  <1>1. /\ outbounds' = outbounds /\ Nodes' = Nodes /\ poolSize' = poolSize
        /\ poolTolerance' = poolTolerance /\ Delays' = Delays /\ EarlyCheck' = EarlyCheck
    BY Zenon DEF outbounds, Nodes, poolSize, poolTolerance, Delays, EarlyCheck
  <1>2. Reports' = Reports /\ Pools' = Pools
    BY <1>1, Zenon DEF Reports, Pools
  <1> QED
    BY <1>1, <1>2, Zenon DEF Checks

(* A pool has all its slots, or none. *)
LEMMA PoolCases ==
    ASSUME setup \in Setups, NEW s \in Pools
    PROVE  \E m \in 0..poolSize :
              s \in Slots(m, Nodes) /\ Distinct(m, s) /\ (s # <<>> <=> m = poolSize)
  <1>1. poolSize \in Nat /\ poolSize > 0
    BY GroupFacts, Zenon
  <1>2. CASE s = <<>>
    <2>1. 0 \in 0..poolSize /\ s \in Slots(0, Nodes) /\ Distinct(0, s) /\ 0 # poolSize
      BY <1>1, <1>2 DEF Slots, Distinct
    <2> QED
      BY <1>2, <2>1, Zenon
  <1>3. CASE s # <<>>
    <2>1. s \in Slots(poolSize, Nodes) /\ Distinct(poolSize, s)
      BY <1>3, Zenon DEF Pools
    <2>2. poolSize \in 0..poolSize
      BY <1>1
    <2> QED
      BY <1>3, <2>1, <2>2, Zenon
  <1> QED
    BY <1>2, <1>3, Zenon

(* What has as many slots as the pool is one. *)
LEMMA WholePool ==
    ASSUME setup \in Setups, NEW s \in Slots(poolSize, Nodes), Distinct(poolSize, s)
    PROVE  s \in Pools /\ s # <<>>
  <1>1. poolSize \in Nat /\ poolSize > 0
    BY GroupFacts, Zenon
  <1>2. DOMAIN s = 1..poolSize /\ 1 \in 1..poolSize
    BY <1>1 DEF Slots
  <1>3. DOMAIN <<>> = 1..0 /\ 1 \notin 1..0
    OBVIOUS
  <1>4. s # <<>>
    BY <1>2, <1>3, Zenon
  <1> QED
    BY <1>4, Zenon DEF Pools

(* Reports are results. *)
LEMMA ReportsAreResults ==
    ASSUME setup \in Setups, NEW r \in Reports
    PROVE  r \in Results(Nodes) /\ Alive(r) \subseteq Nodes /\ Empty \notin Alive(r)
  <1>1. Nodes \in SUBSET (Nat \ {Empty}) /\ Delays \subseteq Nat
    BY GroupFacts, Zenon
  <1>2. r \in Results(Nodes)
    BY <1>1, Zenon DEF Reports, Results
  <1> QED
    BY <1>1, <1>2, AliveRanked, Zenon

(* The check before a tick or a manual test. *)
LEMMA NoCheckTyped ==
    /\ NoCheck \in Checks
    /\ NoCheck.pc = "none" /\ NoCheck.todo = {} /\ NoCheck.batch = {} /\ NoCheck.next = <<>>
    /\ NoCheck.result = [n \in Nodes |-> Dead]
  <1>1. NoResult \in Reports
    BY Zenon DEF NoResult, Reports
  <1>2. <<>> \in Pools
    BY Zenon DEF Pools
  <1> QED
    BY <1>1, <1>2, Zenon DEF NoCheck, Checks, NoResult

(* Testing nodes changes the point, the batch and what is left of it to test. *)
LEMMA TestTyped ==
    ASSUME NEW c \in Checks, NEW nodes \in SUBSET Nodes
    PROVE  /\ Test(c, nodes) \in Checks
           /\ Test(c, nodes).pc = "test" /\ Test(c, nodes).batch = nodes /\ Test(c, nodes).todo = nodes
           /\ Test(c, nodes).force = c.force /\ Test(c, nodes).current = c.current
           /\ Test(c, nodes).next = c.next /\ Test(c, nodes).rest = c.rest /\ Test(c, nodes).result = c.result
  BY Zenon DEF Test, Checks

(* The other updates of the check. *)
LEMMA UpdatesTyped ==
    ASSUME NEW c \in Checks, NEW s \in Pools, NEW t \in Pools, NEW r \in Reports, NEW S \in SUBSET Nodes,
           NEW p \in {"none", "test", "plan", "set"}
    PROVE  /\ [c EXCEPT !.current = s] \in Checks /\ [c EXCEPT !.force = TRUE] \in Checks
           /\ [c EXCEPT !.cancelled = TRUE] \in Checks /\ [c EXCEPT !.pc = p] \in Checks
           /\ [c EXCEPT !.todo = S] \in Checks /\ [c EXCEPT !.todo = S, !.result = r] \in Checks
           /\ [c EXCEPT !.next = s, !.rest = S] \in Checks /\ [c EXCEPT !.next = s] \in Checks
           /\ [c EXCEPT !.rest = S] \in Checks /\ [c EXCEPT !.pc = p, !.next = s] \in Checks
           /\ [c EXCEPT !.pc = p, !.current = s, !.result = r, !.next = t] \in Checks
  BY Zenon DEF Checks

(* The invariant after a step, in terms of the group before it. *)
LEMMA InvariantNext ==
    ASSUME setup \in Setups, UNCHANGED setup, started' \in BOOLEAN, closed' \in BOOLEAN,
           history' \in Reports, slots' \in Pools, check' \in Checks,
           SlotsOK(slots', started'), CheckOK(check', slots', started')
    PROVE  IInv'
  <1>1. /\ Nodes' = Nodes /\ poolSize' = poolSize /\ poolTolerance' = poolTolerance
        /\ EarlyCheck' = EarlyCheck /\ Reports' = Reports /\ Pools' = Pools /\ Checks' = Checks
    BY GroupStays, Zenon
  <1>2. Types'
    BY <1>1, Zenon DEF Types
  <1>3. SlotsOK(slots, started)'
    BY <1>1, Zenon DEF SlotsOK
  <1>4. (Testing(check') => Testing(check)') /\ (Planned(check', slots') => Planned(check, slots)')
        /\ (Lazy(check)' <=> Lazy(check'))
    BY <1>1, Zenon DEF Testing, Planned, Lazy
  <1>5. CheckOK(check, slots, started)'
    BY <1>1, <1>4, Zenon DEF CheckOK
  <1> QED
    BY <1>2, <1>3, <1>5, Zenon DEF IInv

(* Initially there is no pool and no check. *)
LEMMA InitIInv == Init => IInv
  <1>1. SUFFICES ASSUME Init PROVE IInv
    BY Zenon
  <1>2. Types
    BY <1>1, NoCheckTyped, Zenon DEF Init, Types, Reports, Pools
  <1>3. SlotsOK(slots, started)
    BY <1>1, Zenon DEF Init, SlotsOK
  <1>4. CheckOK(check, slots, started)
    <2>1. check.pc = "none" /\ check.todo = {}
      BY <1>1, NoCheckTyped, Zenon DEF Init
    <2> QED
      BY <2>1, Zenon DEF CheckOK
  <1> QED
    BY <1>2, <1>3, <1>4, Zenon DEF IInv

(* Another writer changes the history, Close the group's context. *)
LEMMA SurroundingsIInv ==
    ASSUME IInv, UNCHANGED setup,
           Close \/ \E n \in Nodes, d \in Delays \cup {Dead} : OtherWriter(n, d)
    PROVE  IInv'
  <1>1. slots' = slots /\ check' = check /\ started' = started
    BY Zenon DEF Close, OtherWriter
  <1>2. history' \in Reports /\ closed' \in BOOLEAN
    BY Zenon DEF Close, OtherWriter, SetHistory, IInv, Types, Reports
  <1> QED
    BY <1>1, <1>2, InvariantNext, Zenon DEF IInv, Types

(* PostStart seeds the pool. *)
LEMMA PostStartIInv ==
    ASSUME IInv, UNCHANGED setup, PostStart
    PROVE  IInv'
  <1>1. /\ Types /\ setup \in Setups /\ ~started /\ started' = TRUE /\ history' = history /\ closed' = closed
        /\ check' = check /\ slots' = seedPool(outbounds, history, poolSize)
    BY Zenon DEF IInv, Types, PostStart, setSlots
  <1>2. /\ slots' \in Slots(poolSize, Nodes) /\ Distinct(poolSize, slots') /\ Full(poolSize, slots')
    <2>1. /\ Len(outbounds) \in Nat /\ outbounds \in [1..Len(outbounds) -> Nat \ {Empty}]
          /\ \A i, j \in 1..Len(outbounds) : outbounds[i] = outbounds[j] => i = j
          /\ poolSize \in Nat /\ poolSize <= Len(outbounds)
      BY <1>1, GroupFacts, Zenon
    <2>2. history \in Results(Tags(outbounds))
      BY <1>1, ReportsAreResults, Zenon DEF Types, Nodes
    <2>3. LET next == seedPool(outbounds, history, poolSize) IN
          next \in Slots(poolSize, Tags(outbounds)) /\ Distinct(poolSize, next) /\ Full(poolSize, next)
      BY <2>1, <2>2, SeedPool, Zenon
    <2> QED
      BY <1>1, <2>3, Zenon DEF Nodes
  <1>3. slots' \in Pools /\ slots' # <<>>
    BY <1>1, <1>2, WholePool, Zenon
  <1>4. SlotsOK(slots', started')
    BY <1>2, <1>3, Zenon DEF SlotsOK
  <1>5. CheckOK(check', slots', started')
    <2>1. check.pc # "none" => EarlyCheck /\ check.force
      BY <1>1, Zenon DEF IInv, CheckOK
    <2>2. check.pc = "set" => Planned(check, slots)
      BY Zenon DEF IInv, CheckOK
    <2>3. check.pc = "set" => Planned(check, slots')
      BY <2>1, <2>2, Zenon DEF Planned
    <2> QED
      BY <1>1, <2>1, <2>3, Zenon DEF IInv, CheckOK
  <1> QED
    BY <1>1, <1>3, <1>4, <1>5, InvariantNext, Zenon DEF Types

(* The occupants of a pool are members. *)
LEMMA OccupantsAreNodes ==
    ASSUME NEW s \in Pools
    PROVE  Occupants(s) \in SUBSET Nodes
  <1>1. CASE s = <<>>
    BY <1>1 DEF Occupants, Tags
  <1>2. CASE s \in Slots(poolSize, Nodes)
    BY <1>2, Zenon DEF Occupants, Tags, Slots
  <1> QED
    BY <1>1, <1>2, Zenon DEF Pools

(* A tick begins with the members, or with every node. *)
LEMMA TickIInv ==
    ASSUME IInv, UNCHANGED setup, Tick
    PROVE  IInv'
  <1> DEFINE c == [NoCheck EXCEPT !.current = slots]
             nodes == IF poolTolerance > 0 THEN Nodes ELSE Occupants(slots)
  <1>1. /\ Types /\ started /\ check' = Test(c, nodes)
        /\ started' = started /\ closed' = closed /\ history' = history /\ slots' = slots
    BY Zenon DEF IInv, Tick
  <1>2. /\ c \in Checks /\ c.force = FALSE /\ c.current = slots /\ c.next = <<>>
        /\ c.result = [n \in Nodes |-> Dead]
    BY <1>1, NoCheckTyped, UpdatesTyped, Zenon DEF Types, NoCheck, NoResult
  <1>3. nodes \in SUBSET Nodes /\ (poolTolerance = 0 => nodes = Occupants(slots))
    <2>1. poolTolerance = 0 => ~(poolTolerance > 0)
      BY <1>1
    <2>2. Occupants(slots) \in SUBSET Nodes
      BY <1>1, OccupantsAreNodes, Zenon DEF Types
    <2> QED
      BY <2>1, <2>2, Zenon
  <1> HIDE DEF c, nodes
  <1>4. /\ check' \in Checks /\ check'.pc = "test" /\ check'.batch = nodes /\ check'.todo = nodes
        /\ check'.force = FALSE /\ check'.current = slots /\ check'.next = <<>>
        /\ check'.result = [n \in Nodes |-> Dead]
    BY <1>1, <1>2, <1>3, TestTyped, Zenon
  <1>5. Alive(check'.result) = {}
    BY <1>4, Zenon DEF Alive
  <1>6. Lazy(check') => Testing(check')
    BY <1>3, <1>4, <1>5, Zenon DEF Lazy, Testing
  <1>7. CheckOK(check', slots', started')
    BY <1>1, <1>4, <1>6, Zenon DEF CheckOK
  <1> QED
    BY <1>1, <1>4, <1>7, InvariantNext, Zenon DEF Types, IInv

(* A manual test begins with every node. *)
LEMMA URLTestIInv ==
    ASSUME IInv, UNCHANGED setup, URLTest
    PROVE  IInv'
  <1> DEFINE c == [NoCheck EXCEPT !.force = TRUE]
  <1>1. /\ Types /\ (started \/ EarlyCheck) /\ check' = Test(c, Nodes)
        /\ started' = started /\ closed' = closed /\ history' = history /\ slots' = slots
    BY Zenon DEF IInv, URLTest
  <1>2. c \in Checks /\ c.force = TRUE
    <2>1. <<>> \in Pools /\ NoResult \in Reports
      BY Zenon DEF Pools, NoResult, Reports
    <2> QED
      BY <2>1, Zenon DEF Checks, NoCheck
  <1>3. Nodes \in SUBSET Nodes
    BY Zenon
  <1> HIDE DEF c
  <1>4. /\ check' \in Checks /\ check'.pc = "test" /\ check'.batch = Nodes /\ check'.todo = Nodes
        /\ check'.force = TRUE
    BY <1>1, <1>2, <1>3, TestTyped, Zenon
  <1>5. CheckOK(check', slots', started')
    BY <1>1, <1>4, Zenon DEF CheckOK, Lazy
  <1> QED
    BY <1>1, <1>4, <1>5, InvariantNext, Zenon DEF Types, IInv

(* A probe of the batch ends.  If it has answered, the node is alive. *)
LEMMA ProbeIInv ==
    ASSUME IInv, UNCHANGED setup, NEW n \in Nodes,
           ProbeFails(n) \/ \E d \in Delays : ProbeAnswers(n, d)
    PROVE  IInv'
  <1>1. /\ Types /\ setup \in Setups /\ check \in Checks /\ check.pc = "test" /\ n \in check.todo
        /\ started' = started /\ closed' = closed /\ slots' = slots
    BY Zenon DEF IInv, Types, ProbeFails, ProbeAnswers
  <1>2. history' \in Reports
    BY Zenon DEF IInv, Types, ProbeFails, ProbeAnswers, SetHistory, Reports
  <1>3. /\ check' \in Checks /\ check'.pc = "test" /\ check'.batch = check.batch
        /\ check'.todo \subseteq check.todo /\ check'.force = check.force
        /\ check'.current = check.current /\ check'.next = check.next /\ check'.rest = check.rest
        /\ \/ check'.result = check.result
           \/ \E d \in Delays : check'.result = [check.result EXCEPT ![n] = d]
    <2>1. CASE ProbeFails(n)
      <3>1. check' = [check EXCEPT !.todo = @ \ {n}]
        BY <2>1, Zenon DEF ProbeFails
      <3> QED
        BY <1>1, <3>1, Zenon DEF Checks
    <2>2. ASSUME NEW d \in Delays, ProbeAnswers(n, d)
          PROVE  /\ check' \in Checks /\ check'.pc = "test" /\ check'.batch = check.batch
                 /\ check'.todo \subseteq check.todo /\ check'.force = check.force
                 /\ check'.current = check.current /\ check'.next = check.next /\ check'.rest = check.rest
                 /\ check'.result = [check.result EXCEPT ![n] = d]
      <3>1. check' = [check EXCEPT !.todo = @ \ {n}, !.result[n] = d]
        BY <2>2, Zenon DEF ProbeAnswers
      <3>2. [check.result EXCEPT ![n] = d] \in Reports
        BY <1>1, Zenon DEF Checks, Reports
      <3> QED
        BY <1>1, <3>1, <3>2, Zenon DEF Checks
    <2> QED
      BY <2>1, <2>2, Zenon
  <1>4. /\ Alive(check.result) \subseteq Alive(check'.result)
        /\ Alive(check'.result) \subseteq Alive(check.result) \cup {n}
    <2>1. check.result \in [Nodes -> Delays \cup {Dead}]
      BY <1>1, Zenon DEF Checks, Reports
    <2>2. \A d \in Delays : d # Dead
      <3>1. Delays \subseteq Nat
        BY <1>1, GroupFacts, Zenon
      <3> QED
        BY <3>1 DEF Dead
    <2> QED
      BY <1>3, <2>1, <2>2, Zenon DEF Alive
  <1>5. check.todo \subseteq check.batch
    BY Zenon DEF IInv, CheckOK
  <1>6. Testing(check) => Testing(check')
    <2>1. SUFFICES ASSUME Testing(check), check.next # <<>> PROVE Testing(check')
      BY <1>1, <1>3, <1>4, <1>5, Zenon DEF Testing
    <2>2. ~Has(poolSize, check.current, n)
      BY <1>1, <1>5, <2>1, Zenon DEF Testing
    <2>3. \A j \in 1..poolSize : check.current[j] \in Alive(check'.result) => check.current[j] \in Alive(check.result)
      BY <1>4, <2>2, Zenon DEF Has
    <2>4. Fits(poolSize, poolSize, Nodes, check.current, Alive(check'.result), check.next)
      BY <1>4, <2>1, <2>3, Zenon DEF Testing, Fits
    <2>5. \A t \in Alive(check'.result) : Has(poolSize, check.next, t) \/ t \in check.batch
      BY <1>1, <1>4, <1>5, <2>1, Zenon DEF Testing
    <2> QED
      BY <1>3, <2>1, <2>4, <2>5, Zenon DEF Testing
  <1>7. Lazy(check') <=> Lazy(check)
    BY <1>3, Zenon DEF Lazy
  <1>8. CheckOK(check', slots', started')
    BY <1>1, <1>3, <1>5, <1>6, <1>7, Zenon DEF IInv, CheckOK
  <1> QED
    BY <1>1, <1>2, <1>3, <1>8, InvariantNext, Zenon DEF Types, IInv

(* A manual test is cancelled. *)
LEMMA CancelIInv ==
    ASSUME IInv, UNCHANGED setup, Cancel
    PROVE  IInv'
  <1>1. /\ Types /\ setup \in Setups /\ check \in Checks /\ check.pc = "test" /\ check.force
        /\ started' = started /\ closed' = closed /\ slots' = slots /\ history' = history
        /\ check' = [check EXCEPT !.cancelled = TRUE]
    BY Zenon DEF IInv, Types, Cancel
  <1>2. /\ check' \in Checks /\ check'.pc = "test" /\ check'.force = check.force
        /\ check'.todo = check.todo /\ check'.batch = check.batch
    BY <1>1, Zenon DEF Checks
  <1>3. CheckOK(check', slots', started')
    BY <1>1, <1>2, Zenon DEF IInv, CheckOK, Lazy
  <1> QED
    BY <1>1, <1>2, <1>3, InvariantNext, Zenon DEF Types, IInv

(* A check without tolerance between two batches: if its pool has a hole, all  *)
(* that have answered are in it.                                               *)
Between(c) ==
    /\ Fits(poolSize, poolSize, Nodes, c.current, Alive(c.result), c.next)
    /\ \A t \in c.rest : ~Has(poolSize, c.current, t)
    /\ ~Full(poolSize, c.next) => \A t \in Alive(c.result) : Has(poolSize, c.next, t)

(* The same check, but for the pool it builds and the nodes it has still to test. *)
SameCheck(c, d) ==
    d \in Checks /\ d.pc = c.pc /\ d.force = c.force /\ d.current = c.current /\ d.result = c.result
    /\ d.todo = c.todo /\ d.batch = c.batch

(* So it is when the members have been tested. *)
LEMMA MembersTestedBetween ==
    ASSUME IInv, check.current # <<>>, Testing(check), check.next = <<>>
    PROVE  SameCheck(check, MembersTested) /\ Between(MembersTested)
  <1> DEFINE live == Alive(check.result)
             kept == KeepLive(check.current, live, poolSize)
             rest == Nodes \ Tags(check.current)
  <1>1. setup \in Setups /\ check \in Checks
    BY Zenon DEF IInv, Types
  <1>2. /\ poolSize \in Nat /\ poolSize \in 0..poolSize
        /\ check.current \in Slots(poolSize, Nodes) /\ Distinct(poolSize, check.current)
    <2>1. poolSize \in Nat
      BY <1>1, GroupFacts, Zenon
    <2>2. poolSize \in 0..poolSize
      BY <2>1
    <2> QED
      BY <1>1, <2>1, <2>2, Zenon DEF Checks, Pools
  <1>3. Empty \notin live
    BY <1>1, ReportsAreResults, Zenon DEF Checks
  <1>4. Fits(poolSize, poolSize, Nodes, check.current, live, kept)
    <2> HIDE DEF live
    <2> QED
      BY <1>2, <1>3, KeepLiveFits, Zenon
  <1>5. \A t : t \in Tags(check.current) <=> Has(poolSize, check.current, t)
    BY <1>2, Zenon DEF Tags, Has, Slots
  <1>6. \A t \in live : Has(poolSize, kept, t)
    <2>1. TAKE t \in live
    <2>2. t \in Occupants(check.current)
      BY Zenon DEF Testing
    <2>3. PICK j \in 1..poolSize : check.current[j] = t
      BY <1>5, <2>2, Zenon DEF Occupants, Has
    <2> HIDE DEF live, kept
    <2>4. kept[j] = t
      BY <1>4, <2>1, <2>3, Zenon DEF Fits
    <2> QED
      BY <2>4, Zenon DEF Has
  <1>7. kept \in Pools
    <2> HIDE DEF kept
    <2> QED
      BY <1>4, Zenon DEF Fits, Pools
  <1>8. MembersTested = [check EXCEPT !.next = kept, !.rest = rest]
    BY Zenon DEF MembersTested
  <1>9. \A t \in rest : ~Has(poolSize, check.current, t)
    BY <1>5, Zenon
  <1> HIDE DEF kept, rest, live
  <1>10. rest \in SUBSET Nodes
    BY Zenon DEF rest
  <1>11. /\ SameCheck(check, MembersTested)
         /\ MembersTested.next = kept /\ MembersTested.rest = rest
    BY <1>1, <1>7, <1>8, <1>10, Zenon DEF SameCheck, Checks
  <1>12. Between(MembersTested)
    <2>1. Alive(MembersTested.result) = live /\ MembersTested.current = check.current
      BY <1>11, Zenon DEF SameCheck, live
    <2> QED
      BY <1>4, <1>6, <1>9, <1>11, <2>1, Zenon DEF Between
  <1> QED
    BY <1>11, <1>12, Zenon

(* And when a batch has been tested. *)
LEMMA BatchTestedBetween ==
    ASSUME IInv, Testing(check), check.next # <<>>
    PROVE  SameCheck(check, BatchTested) /\ Between(BatchTested)
  <1> DEFINE all == Alive(check.result)
             live == check.batch \cap all
             plan == FillHoles(PlanFrom(check.next), live, Position(outbounds))
  <1>1. setup \in Setups /\ check \in Checks
    BY Zenon DEF IInv, Types
  <1>2. /\ poolSize \in Nat /\ poolSize \in 0..poolSize
    <2>1. poolSize \in Nat
      BY <1>1, GroupFacts, Zenon
    <2> QED
      BY <2>1
  <1>3. Empty \notin all /\ all \subseteq Nodes
    BY <1>1, ReportsAreResults, Zenon DEF Checks
  <1>4. Ranked(live, Nodes, Position(outbounds))
    <2>1. /\ Len(outbounds) \in Nat /\ outbounds \in [1..Len(outbounds) -> Nat \ {Empty}]
          /\ Nodes \in SUBSET (Nat \ {Empty})
      BY <1>1, GroupFacts, Zenon
    <2>2. outbounds \in Slots(Len(outbounds), Nodes)
      BY <2>1, Zenon DEF Slots, Nodes, Tags
    <2>3. live \subseteq Occupants(outbounds)
      BY <1>3, Zenon DEF Nodes, Occupants
    <2>4. Nodes \in SUBSET Nat
      BY <2>1, Zenon
    <2> HIDE DEF live
    <2> QED
      BY <2>1, <2>2, <2>3, <2>4, PositionRanks, Zenon
  <1>5. Fits(poolSize, poolSize, Nodes, check.current, all, check.next)
    BY Zenon DEF Testing
  <1>6. \A t \in live : t \in all /\ ~Has(poolSize, check.current, t)
    BY Zenon DEF Testing
  <1>7. \A t \in all : t \in live \/ Has(poolSize, check.next, t)
    BY Zenon DEF Testing
  <1>8. \A t \in check.rest : ~Has(poolSize, check.current, t)
    BY Zenon DEF Testing
  <1>9. BatchTested = [check EXCEPT !.next = plan.next]
    BY Zenon DEF BatchTested
  <1> HIDE DEF all, live
  <1>10. /\ plan \in Plans(poolSize, Nodes) /\ Fits(poolSize, poolSize, Nodes, check.current, all, plan.next)
         /\ \A t : t # Empty /\ Has(poolSize, check.next, t) => Has(poolSize, plan.next, t)
         /\ ~Full(poolSize, plan.next) => \A t \in live : Has(poolSize, plan.next, t)
    BY <1>2, <1>3, <1>4, <1>5, <1>6, FillFits, ZenonT(30)
  <1> HIDE DEF plan
  <1>11. plan.next \in Pools
    BY <1>10, Zenon DEF Fits, Pools
  <1>12. SameCheck(check, BatchTested) /\ BatchTested.next = plan.next /\ BatchTested.rest = check.rest
    BY <1>1, <1>9, <1>11, Zenon DEF SameCheck, Checks
  <1>13. ~Full(poolSize, plan.next) => \A t \in all : Has(poolSize, plan.next, t)
    BY <1>3, <1>7, <1>10, Zenon
  <1>14. Between(BatchTested)
    <2>1. Alive(BatchTested.result) = all /\ BatchTested.current = check.current
      BY <1>12, Zenon DEF SameCheck, all
    <2> QED
      BY <1>8, <1>10, <1>12, <1>13, <2>1, Zenon DEF Between
  <1> QED
    BY <1>12, <1>14, Zenon

(* Then the next batch is tested, or the pool is ready. *)
LEMMA NextBatchOK ==
    ASSUME setup \in Setups, NEW s, NEW c \in Checks, Between(c), c.pc = "test", ~c.force, c.current = s,
           c.todo \subseteq c.batch, c.current # <<>>, ~EarlyCheck => Full(poolSize, s)
    PROVE  NextBatch(c) \in Checks /\ CheckOK(NextBatch(c), s, TRUE)
  <1> DEFINE live == Alive(c.result)
  <1>1. /\ poolSize \in Nat /\ poolSize \in 0..poolSize /\ poolSize > 0
        /\ Nodes \in SUBSET (Nat \ {Empty}) /\ Nodes \in SUBSET Nat
    <2>1. poolSize \in Nat /\ poolSize > 0 /\ Nodes \in SUBSET (Nat \ {Empty})
      BY GroupFacts, Zenon
    <2> QED
      BY <2>1
  <1>2. c.current \in Slots(poolSize, Nodes) /\ Distinct(poolSize, c.current)
    BY Zenon DEF Checks, Pools
  <1>3. Empty \notin live
    BY ReportsAreResults, Zenon DEF Checks
  <1>4. Fits(poolSize, poolSize, Nodes, c.current, live, c.next)
    BY Zenon DEF Between
  <1>5. c.next \in Slots(poolSize, Nodes) /\ Distinct(poolSize, c.next)
    BY <1>4, Zenon DEF Fits
  <1>6. Empty \in Tags(c.next) <=> ~Full(poolSize, c.next)
    BY <1>5, Zenon DEF Tags, Full, Slots
  <1>7. CASE Empty \in Tags(c.next) /\ c.rest # {}
    <2> DEFINE batch == FirstFew(c.rest, poolSize, outbounds)
               d == [c EXCEPT !.rest = @ \ batch]
    <2>1. NextBatch(c) = Test(d, batch)
      BY <1>7, Zenon DEF NextBatch
    <2>2. batch \subseteq c.rest /\ batch \in SUBSET Nodes
      BY Zenon DEF FirstFew, Checks
    <2> HIDE DEF batch
    <2>3. /\ d \in Checks /\ d.force = c.force /\ d.current = c.current /\ d.next = c.next
          /\ d.result = c.result /\ d.rest = c.rest \ batch
      BY Zenon DEF Checks
    <2> HIDE DEF d
    <2> DEFINE e == Test(d, batch)
    <2>4. /\ e \in Checks /\ e.pc = "test" /\ e.batch = batch /\ e.todo = batch
          /\ e.force = c.force /\ e.current = c.current /\ e.next = c.next /\ e.result = c.result
          /\ e.rest = c.rest \ batch
      BY <2>2, <2>3, TestTyped, Zenon
    <2> HIDE DEF e
    <2>5. c.next # <<>>
      BY <1>5, WholePool, Zenon
    <2>6. \A t \in live : Has(poolSize, c.next, t)
      BY <1>6, <1>7, Zenon DEF Between
    <2>7. \A t \in e.batch \cup e.rest : ~Has(poolSize, c.current, t)
      BY <2>2, <2>4, Zenon DEF Between
    <2>8. Testing(e)
      BY <1>4, <2>4, <2>5, <2>6, <2>7, Zenon DEF Testing
    <2>9. CheckOK(e, s, TRUE)
      BY <2>4, <2>8, Zenon DEF CheckOK
    <2> QED
      BY <2>1, <2>4, <2>9, Zenon DEF e
  <1>8. CASE ~(Empty \in Tags(c.next) /\ c.rest # {})
    <2> DEFINE plan == PlanFrom(c.next)
               next == KeepDead(plan, c.current, live).next
               e == [c EXCEPT !.pc = "set", !.next = next]
    <2>1. NextBatch(c) = e
      BY <1>8, Zenon DEF NextBatch
    <2>2. /\ plan \in Plans(poolSize, Nodes) /\ Sound(poolSize, plan) /\ plan.next = c.next
          /\ \A t : t \in plan.used <=> t # Empty /\ \E j \in 1..poolSize : c.next[j] = t
      <3>1. poolSize \in Nat
        BY <1>1, Zenon
      <3>2. PlanOf(poolSize, Nodes, c.next, plan)
        BY <1>5, <3>1, PlanFromPool, Zenon
      <3> QED
        BY <3>2, Zenon DEF PlanOf
    <2> HIDE DEF plan, live
    <2>3. \A t \in plan.used : Has(poolSize, plan.next, t)
      BY <2>2, Zenon DEF Has
    <2>4. Fits(poolSize, poolSize, Nodes, c.current, live, plan.next)
      BY <1>4, <2>2, Zenon
    <2>5. /\ next \in Slots(poolSize, Nodes) /\ Distinct(poolSize, next)
          /\ Full(poolSize, c.current) => Settled(poolSize, c.current, live, next)
          /\ (~Full(poolSize, plan.next) => \A t \in live : Has(poolSize, plan.next, t))
             => LiveFirst(poolSize, live, next)
      BY <1>1, <1>2, <1>3, <2>2, <2>3, <2>4, KeepDeadSettles, Zenon
    <2> HIDE DEF next
    <2>6. next \in Pools /\ next # <<>>
      BY <2>5, WholePool, Zenon
    <2>7. /\ e \in Checks /\ e.pc = "set" /\ e.next = next /\ e.force = c.force /\ e.current = c.current
          /\ e.result = c.result /\ e.todo = c.todo /\ e.batch = c.batch
      BY <2>6, Zenon DEF Checks
    <2> HIDE DEF e
    <2>8. LiveFirst(poolSize, live, next)
      BY <2>2, <2>5, Zenon DEF Between, live
    <2>9. ~EarlyCheck => Orderly(poolSize, s, e.result, poolTolerance, next)
      <3>1. ~EarlyCheck => Settled(poolSize, s, live, next)
        BY <2>5, Zenon
      <3> QED
        BY <2>7, <3>1, Zenon DEF Settled, Orderly, live
    <2>10. Planned(e, s)
      BY <2>6, <2>7, <2>8, <2>9, Zenon DEF Planned, live
    <2> QED
      BY <2>1, <2>7, <2>10, Zenon DEF CheckOK
  <1> QED
    BY <1>7, <1>8, Zenon

(* The tests of a batch have ended. *)
LEMMA BatchEndsIInv ==
    ASSUME IInv, UNCHANGED setup, BatchEnds
    PROVE  IInv'
  <1>1. /\ Types /\ setup \in Setups /\ check \in Checks /\ check.pc = "test"
        /\ started' = started /\ closed' = closed /\ slots' = slots /\ history' = history
        /\ check' = IF ~Lazy(check) THEN [check EXCEPT !.pc = "plan"]
                    ELSE NextBatch(IF check.next = <<>> THEN MembersTested ELSE BatchTested)
    BY Zenon DEF IInv, Types, BatchEnds, LazyTick, Lazy
  <1>2. CASE ~Lazy(check)
    <2>1. check' = [check EXCEPT !.pc = "plan"]
      BY <1>1, <1>2, Zenon
    <2>2. /\ check' \in Checks /\ check'.pc = "plan" /\ check'.force = check.force
          /\ check'.todo = check.todo /\ check'.batch = check.batch /\ check'.current = check.current
      BY <1>1, <2>1, Zenon DEF Checks
    <2>3. CheckOK(check', slots', started')
      BY <1>1, <1>2, <2>2, Zenon DEF IInv, CheckOK, Lazy
    <2> QED
      BY <1>1, <2>2, <2>3, InvariantNext, Zenon DEF Types, IInv
  <1>3. CASE Lazy(check)
    <2> DEFINE c == IF check.next = <<>> THEN MembersTested ELSE BatchTested
    <2>1. check' = NextBatch(c)
      BY <1>1, <1>3, Zenon
    <2>2. /\ Testing(check) /\ ~check.force /\ started /\ check.current = slots
          /\ check.todo \subseteq check.batch
      BY <1>1, <1>3, Zenon DEF IInv, CheckOK, Lazy
    <2>3. slots # <<>> /\ (~EarlyCheck => Full(poolSize, slots))
      BY <2>2, Zenon DEF IInv, SlotsOK
    <2>4. SameCheck(check, c) /\ Between(c)
      BY <2>2, <2>3, MembersTestedBetween, BatchTestedBetween, Zenon
    <2> HIDE DEF c
    <2>5. /\ c \in Checks /\ c.pc = "test" /\ ~c.force /\ c.current = slots /\ c.current # <<>>
          /\ c.todo \subseteq c.batch
      BY <1>1, <2>2, <2>3, <2>4, Zenon DEF SameCheck
    <2>6. NextBatch(c) \in Checks /\ CheckOK(NextBatch(c), slots, TRUE)
      BY <1>1, <2>3, <2>4, <2>5, NextBatchOK, Zenon
    <2>7. check' \in Checks /\ CheckOK(check', slots', started')
      <3>1. started' = TRUE
        BY <1>1, <2>2, Zenon DEF Types
      <3> QED
        BY <1>1, <2>1, <2>6, <3>1, Zenon
    <2> QED
      BY <1>1, <2>7, InvariantNext, Zenon DEF Types, IInv
  <1> QED
    BY <1>2, <1>3, Zenon

(* What a manual test, or a tick with a tolerance, plans. *)
LEMMA NextPool ==
    ASSUME setup \in Setups, NEW s \in Pools, NEW r \in Reports
    PROVE  /\ LET next == planTolerantPool(s, r, poolSize, poolTolerance) IN
              /\ next \in Pools /\ next # <<>>
              /\ s # <<>> /\ Full(poolSize, s) /\ poolTolerance > 0
                 => Orderly(poolSize, s, r, poolTolerance, next)
           /\ LET next == planFirstLivePool(s, r, Alive(r) \ Tags(s), poolSize) IN
              /\ next \in Pools /\ next # <<>> /\ LiveFirst(poolSize, Alive(r), next)
              /\ s # <<>> /\ Full(poolSize, s) => Orderly(poolSize, s, r, poolTolerance, next)
  <1>1. /\ poolSize \in Nat /\ Nodes \in SUBSET (Nat \ {Empty}) /\ poolTolerance \in Nat
    BY GroupFacts, Zenon
  <1>2. r \in Results(Nodes)
    BY ReportsAreResults, Zenon
  <1>3. PICK m \in 0..poolSize : s \in Slots(m, Nodes) /\ Distinct(m, s) /\ (s # <<>> <=> m = poolSize)
    BY PoolCases, Zenon
  <1> DEFINE tolerant == planTolerantPool(s, r, poolSize, poolTolerance)
             first == planFirstLivePool(s, r, Alive(r) \ Tags(s), poolSize)
  <1>4. /\ tolerant \in Slots(poolSize, Nodes) /\ Distinct(poolSize, tolerant)
        /\ m = poolSize /\ Full(poolSize, s) /\ poolTolerance > 0 => Orderly(poolSize, s, r, poolTolerance, tolerant)
    BY <1>1, <1>2, <1>3, TolerantPool, Zenon
  <1>5. /\ first \in Slots(poolSize, Nodes) /\ Distinct(poolSize, first)
        /\ m = poolSize /\ Full(poolSize, s) => Settled(poolSize, s, Alive(r), first)
        /\ LiveFirst(poolSize, Alive(r), first)
    BY <1>1, <1>2, <1>3, FirstLivePool, Zenon
  <1> HIDE DEF tolerant, first
  <1>6. Settled(poolSize, s, Alive(r), first) => Orderly(poolSize, s, r, poolTolerance, first)
    BY Zenon DEF Settled, Orderly
  <1>7. tolerant \in Pools /\ tolerant # <<>> /\ first \in Pools /\ first # <<>>
    BY <1>4, <1>5, WholePool, Zenon
  <1> QED
    BY <1>3, <1>4, <1>5, <1>6, <1>7, Zenon DEF tolerant, first

(* The next pool is planned from the slots as they are. *)
LEMMA PlanIInv ==
    ASSUME IInv, UNCHANGED setup, Plan
    PROVE  IInv'
  <1> DEFINE r == IF check.force THEN history ELSE check.result
             next == IF check.force THEN rebuildPool(slots) ELSE balancePoolTolerant(slots)
  <1>1. /\ Types /\ setup \in Setups /\ check \in Checks /\ check.pc = "plan" /\ slots \in Pools
        /\ started' = started /\ closed' = closed /\ slots' = slots /\ history' = history
        /\ check' = [check EXCEPT !.pc = "set", !.current = slots, !.result = r, !.next = next]
    BY Zenon DEF IInv, Types, Plan
  <1>2. r \in Reports
    BY <1>1, Zenon DEF Types, Checks
  <1>3. poolTolerance \in Nat
    BY <1>1, GroupFacts, Zenon
  <1>4. (poolTolerance > 0 \/ poolTolerance = 0) /\ ~(poolTolerance > 0 /\ poolTolerance = 0)
    BY <1>3
  <1>5. \/ poolTolerance > 0 /\ next = planTolerantPool(slots, r, poolSize, poolTolerance)
        \/ poolTolerance = 0 /\ next = planFirstLivePool(slots, r, Alive(r) \ Tags(slots), poolSize)
    <2>1. ~check.force => poolTolerance # 0
      BY <1>1, Zenon DEF IInv, CheckOK, Lazy
    <2> QED
      BY <1>4, <2>1, Zenon DEF rebuildPool, balancePoolTolerant
  <1> HIDE DEF r, next
  <1>6. /\ next \in Pools /\ next # <<>>
        /\ poolTolerance = 0 => LiveFirst(poolSize, Alive(r), next)
        /\ slots # <<>> /\ Full(poolSize, slots) => Orderly(poolSize, slots, r, poolTolerance, next)
    BY <1>1, <1>2, <1>4, <1>5, NextPool, Zenon
  <1>7. /\ check' \in Checks /\ check'.pc = "set" /\ check'.force = check.force /\ check'.next = next
        /\ check'.todo = check.todo /\ check'.batch = check.batch /\ check'.current = slots
        /\ check'.result = r
    BY <1>1, <1>2, <1>6, Zenon DEF Checks
  <1>8. ~EarlyCheck => slots # <<>> /\ Full(poolSize, slots)
    BY <1>1, Zenon DEF IInv, CheckOK, SlotsOK
  <1>9. Planned(check', slots')
    BY <1>1, <1>6, <1>7, <1>8, Zenon DEF Planned
  <1>10. CheckOK(check', slots', started')
    BY <1>1, <1>7, <1>9, Zenon DEF IInv, CheckOK
  <1> QED
    BY <1>1, <1>7, <1>10, InvariantNext, Zenon DEF Types, IInv

(* The planned pool is published. *)
LEMMA PublishIInv ==
    ASSUME IInv, UNCHANGED setup, Publish
    PROVE  IInv'
  <1>1. /\ Types /\ setup \in Setups /\ check \in Checks /\ check.pc = "set" /\ slots' = check.next
        /\ started' = started /\ closed' = closed /\ history' = history /\ check' = NoCheck
    BY Zenon DEF IInv, Types, Publish, setSlots
  <1>2. Planned(check, slots)
    BY <1>1, Zenon DEF IInv, CheckOK
  <1>3. slots' \in Pools /\ slots' # <<>>
    BY <1>1, <1>2, Zenon DEF Checks, Planned
  <1>4. started /\ ~EarlyCheck => Full(poolSize, slots')
    BY <1>1, <1>2, Zenon DEF IInv, SlotsOK, Planned, Orderly, Full
  <1>5. SlotsOK(slots', started')
    BY <1>1, <1>3, <1>4, Zenon DEF SlotsOK
  <1>6. check' \in Checks /\ check'.pc = "none" /\ check'.todo = {}
    BY <1>1, NoCheckTyped, Zenon
  <1>7. CheckOK(check', slots', started')
    BY <1>6, Zenon DEF CheckOK
  <1> QED
    BY <1>1, <1>3, <1>5, <1>6, <1>7, InvariantNext, Zenon DEF Types

-----------------------------------------------------------------------------
(* Every step preserves the invariant. *)
LEMMA NextIInv == IInv /\ [Next]_vars => IInv'
  <1>1. ASSUME IInv, Next PROVE IInv'
    <2>1. UNCHANGED setup
      BY <1>1, Zenon DEF Next
    <2>2. CASE PostStart
      BY <1>1, <2>1, <2>2, PostStartIInv, Zenon
    <2>3. CASE Close \/ \E n \in Nodes, d \in Delays \cup {Dead} : OtherWriter(n, d)
      BY <1>1, <2>1, <2>3, SurroundingsIInv, Zenon
    <2>4. CASE Tick
      BY <1>1, <2>1, <2>4, TickIInv, Zenon
    <2>5. CASE URLTest
      BY <1>1, <2>1, <2>5, URLTestIInv, Zenon
    <2>6. ASSUME NEW n \in Nodes, ProbeFails(n) \/ \E d \in Delays : ProbeAnswers(n, d) PROVE IInv'
      BY <1>1, <2>1, <2>6, ProbeIInv, Zenon
    <2>7. CASE Cancel
      BY <1>1, <2>1, <2>7, CancelIInv, Zenon
    <2>8. CASE BatchEnds
      BY <1>1, <2>1, <2>8, BatchEndsIInv, Zenon
    <2>9. CASE Plan
      BY <1>1, <2>1, <2>9, PlanIInv, Zenon
    <2>10. CASE Publish
      BY <1>1, <2>1, <2>10, PublishIInv, Zenon
    <2> QED
      BY <1>1, <2>2, <2>3, <2>4, <2>5, <2>6, <2>7, <2>8, <2>9, <2>10, Zenon DEF Next
  <1>2. ASSUME IInv, UNCHANGED vars PROVE IInv'
    BY <1>2, InvariantNext, Zenon DEF vars, IInv, Types
  <1> QED
    BY <1>1, <1>2, Zenon

(* The invariant holds in every reachable state, whatever the group, the order *)
(* of answers, and the other writers of the history.                           *)
THEOREM Invariance == Spec => []IInv
  BY InitIInv, NextIInv, PTL DEF Spec

(* Every variable has its type. *)
THEOREM TypesHold == Spec => []TypeOK
  <1>1. IInv => TypeOK
    <2>1. SUFFICES ASSUME IInv PROVE TypeOK
      BY Zenon
    <2>2. slots \in Seq(Nodes \cup {Empty}) /\ Len(slots) <= poolSize
      <3>1. setup \in Setups /\ slots \in Pools
        BY <2>1, Zenon DEF IInv, Types
      <3>2. PICK m \in 0..poolSize : slots \in Slots(m, Nodes)
        BY <3>1, PoolCases, Zenon
      <3>3. m \in Nat /\ m <= poolSize
        BY <3>1, GroupFacts
      <3>4. slots \in Seq(Nodes \cup {Empty}) /\ Len(slots) = m
        BY <3>2, <3>3, SlotsAreSequences, Zenon DEF Slots
      <3> QED
        BY <3>3, <3>4, Zenon
    <2> QED
      BY <2>1, <2>2, Zenon DEF IInv, Types, TypeOK, Checks, Reports
  <1> QED
    BY <1>1, Invariance, PTL

(* No node occupies two slots of the published pool, through members kept,     *)
(* batches, evictions, dead members put back and manual tests alike.           *)
THEOREM SlotsAreDistinct == Spec => []DistinctSlots
  <1>1. IInv => DistinctSlots
    <2>1. SUFFICES ASSUME IInv PROVE DistinctSlots
      BY Zenon
    <2>2. PICK m \in 0..poolSize : slots \in Slots(m, Nodes) /\ Distinct(m, slots)
      BY <2>1, PoolCases, Zenon DEF IInv, Types
    <2>3. DOMAIN slots = 1..m
      BY <2>2, Zenon DEF Slots
    <2> QED
      BY <2>2, <2>3, Zenon DEF Distinct, DistinctSlots
  <1> QED
    BY <1>1, Invariance, PTL

(* From PostStart on the pool has all its slots and no hole: the seed fills it *)
(* and no check, whatever dies, publishes less.                                *)
THEOREM PoolStaysFull == Spec => []SlotsStayFull
  <1>1. IInv => SlotsStayFull
    <2>1. SUFFICES ASSUME IInv, started, ~EarlyCheck
                   PROVE  Len(slots) = poolSize /\ Empty \notin Tags(slots)
      BY Zenon DEF SlotsStayFull
    <2>2. setup \in Setups /\ slots \in Pools /\ slots # <<>> /\ Full(poolSize, slots)
      BY <2>1, Zenon DEF IInv, Types, SlotsOK
    <2>3. slots \in [1..poolSize -> Nodes \cup {Empty}]
      BY <2>2, Zenon DEF Pools, Slots
    <2>4. poolSize \in Nat
      BY <2>2, GroupFacts, Zenon
    <2>5. Len(slots) = poolSize /\ DOMAIN slots = 1..poolSize
      BY <2>3, <2>4, SlotsAreSequences, Zenon
    <2> QED
      BY <2>2, <2>5, Zenon DEF Full, Tags
  <1> QED
    BY <1>1, Invariance, PTL

(* No other step ends a check that is about to publish. *)
LEMMA OnlyPublishPublishes ==
    ASSUME IInv, Next, Publishing
    PROVE  Publish
  <1>1. check.pc = "set" /\ check'.pc = "none" /\ check \in Checks
    BY Zenon DEF Publishing, IInv, Types
  <1>2. check' # check
    BY <1>1, Zenon
  <1>3. ~Tick /\ ~URLTest /\ ~Cancel /\ ~BatchEnds /\ ~Plan
    BY <1>1, Zenon DEF Tick, URLTest, Cancel, BatchEnds, Plan
  <1>4. \A n \in Nodes : ~ProbeFails(n) /\ \A d \in Delays : ~ProbeAnswers(n, d)
    BY <1>1, Zenon DEF ProbeFails, ProbeAnswers
  <1>5. ~PostStart /\ ~Close /\ \A n \in Nodes, d \in Delays \cup {Dead} : ~OtherWriter(n, d)
    BY <1>2, Zenon DEF PostStart, Close, OtherWriter
  <1> QED
    BY <1>3, <1>4, <1>5, Zenon DEF Next

(* What a step does to a full pool: only Publish touches it, and keeps to order. *)
LEMMA StepsAreOrderly ==
    ASSUME IInv, Next, started, ~EarlyCheck
    PROVE  /\ DOMAIN slots = 1..poolSize /\ DOMAIN slots' = 1..poolSize
           /\ Full(poolSize, slots) /\ Distinct(poolSize, slots)
           /\ \/ slots' = slots /\ ~Publishing
              \/ Orderly(poolSize, slots, check.result, poolTolerance, slots')
  <1>1. setup \in Setups /\ slots \in Pools /\ slots # <<>> /\ Full(poolSize, slots)
    BY Zenon DEF IInv, Types, SlotsOK
  <1>2. slots \in Slots(poolSize, Nodes) /\ Distinct(poolSize, slots)
    BY <1>1, Zenon DEF Pools
  <1>3. CASE Publish
    <2>1. check.next # <<>> /\ Orderly(poolSize, slots, check.result, poolTolerance, check.next)
      BY <1>3, Zenon DEF IInv, CheckOK, Planned, Publish
    <2>2. slots' = check.next /\ check \in Checks
      BY <1>3, Zenon DEF Publish, setSlots, IInv, Types
    <2>3. DOMAIN slots' = 1..poolSize
      BY <2>1, <2>2, Zenon DEF Checks, Pools, Slots
    <2> QED
      BY <1>1, <1>2, <2>1, <2>2, <2>3, Zenon DEF Slots
  <1>4. CASE ~Publish
    <2>1. slots' = slots
      BY <1>4, Zenon DEF Next, PostStart, Close, OtherWriter, Tick, URLTest, ProbeAnswers, ProbeFails,
                         Cancel, BatchEnds, Plan
    <2>2. ~Publishing
      BY <1>4, OnlyPublishPublishes, Zenon
    <2> QED
      BY <1>1, <1>2, <2>1, <2>2, Zenon DEF Slots
  <1> QED
    BY <1>3, <1>4, Zenon

(* A node the check found alive loses its slot only to one that is faster by   *)
(* more than the tolerance, and never without a tolerance.                     *)
THEOREM LiveNodesKeepTheirSlots == Spec => LiveKeepsSlot
  <1>1. ASSUME IInv, Next, started, ~EarlyCheck, Publishing, NEW i \in DOMAIN slots,
               slots[i] # slots'[i], slots[i] \in Alive(check.result)
        PROVE  /\ poolTolerance > 0
               /\ check.result[slots'[i]] + poolTolerance < check.result[slots[i]]
    <2>1. DOMAIN slots = 1..poolSize /\ Orderly(poolSize, slots, check.result, poolTolerance, slots')
      BY <1>1, StepsAreOrderly, Zenon
    <2> QED
      BY <1>1, <2>1, Zenon DEF Orderly
  <1>2. IInv /\ [Next]_vars => [ started /\ ~EarlyCheck /\ Publishing => \A i \in DOMAIN slots :
          slots[i] # slots'[i] /\ slots[i] \in Alive(check.result) =>
             /\ poolTolerance > 0
             /\ check.result[slots'[i]] + poolTolerance < check.result[slots[i]] ]_vars
    BY <1>1, Zenon
  <1> QED
    BY <1>2, Invariance, PTL DEF Spec, LiveKeepsSlot

(* No step moves a node from one slot to another. *)
THEOREM NodesStayInTheirSlots == Spec => NoRelocation
  <1>1. ASSUME IInv, Next, started, ~EarlyCheck, NEW i \in DOMAIN slots, NEW j \in DOMAIN slots',
               slots[i] = slots'[j], slots[i] # Empty
        PROVE  i = j
    <2>1. /\ DOMAIN slots = 1..poolSize /\ DOMAIN slots' = 1..poolSize /\ Distinct(poolSize, slots)
          /\ slots' = slots \/ Orderly(poolSize, slots, check.result, poolTolerance, slots')
      BY <1>1, StepsAreOrderly, Zenon
    <2>2. slots'[j] = slots[j] \/ ~Has(poolSize, slots, slots'[j])
      BY <2>1, Zenon DEF Orderly
    <2>3. slots'[j] = slots[j]
      BY <1>1, <2>1, <2>2, Zenon DEF Has
    <2> QED
      BY <1>1, <2>1, <2>3, Zenon DEF Distinct
  <1>2. IInv /\ [Next]_vars => [ started /\ ~EarlyCheck => \A i \in DOMAIN slots, j \in DOMAIN slots' :
          slots[i] = slots'[j] /\ slots[i] # Empty => i = j ]_vars
    BY <1>1, Zenon
  <1> QED
    BY <1>2, Invariance, PTL DEF Spec, NoRelocation

(* Without a tolerance a check leaves a dead node in a slot only when every    *)
(* node it found alive has a slot, however many batches it took.               *)
THEOREM LiveNodesComeFirst == Spec => FullOfLive
  <1>1. ASSUME IInv, Next, poolTolerance = 0, Publishing, Tags(slots') \ Alive(check.result) # {}
        PROVE  Alive(check.result) \subseteq Tags(slots')
    <2>1. Publish /\ check.pc = "set" /\ slots' = check.next
      BY <1>1, OnlyPublishPublishes, Zenon DEF Publish, setSlots
    <2>2. check.next # <<>> /\ LiveFirst(poolSize, Alive(check.result), check.next)
      BY <1>1, <2>1, Zenon DEF IInv, CheckOK, Planned
    <2>3. DOMAIN check.next = 1..poolSize
      BY <1>1, <2>2, Zenon DEF IInv, Types, Checks, Pools, Slots
    <2> QED
      BY <1>1, <2>1, <2>2, <2>3, Zenon DEF LiveFirst, Tags, Has
  <1>2. IInv /\ [Next]_vars =>
          [ poolTolerance = 0 /\ Publishing /\ Tags(slots') \ Alive(check.result) # {} =>
              Alive(check.result) \subseteq Tags(slots') ]_vars
    BY <1>1, Zenon
  <1> QED
    BY <1>2, Invariance, PTL DEF Spec, FullOfLive
=============================================================================
