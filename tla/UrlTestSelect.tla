--------------------------- MODULE UrlTestSelect ---------------------------
(***************************************************************************)
(* How an urltest group in mode least_test or failover chooses a member    *)
(* (src/protocol/group/urltest.go, urltest_penalty_lx.go and               *)
(* urltest_failover_lx.go), as functions of the history h, the penalties   *)
(* and the present selection.  Members are leaves.                         *)
(***************************************************************************)
EXTENDS Integers, Sequences

CONSTANTS
    outbounds,          \* the members, in the order of the configuration
    Networks,           \* "tcp", "udp"
    Supports,           \* the networks of each member
    None,               \* no member
    tolerance,          \* hysteresis of least_test
    DelayModulus,       \* delays are 16 bits wide
    penaltyThreshold    \* penalties of the fastest node that start the emergency mode

Nodes == {outbounds[i] : i \in DOMAIN outbounds}

ASSUME MembersAssumption == /\ outbounds \in Seq(Nodes) /\ Len(outbounds) > 0
                            /\ Supports \in [Nodes -> SUBSET Networks] /\ None \notin Nodes
ASSUME NumbersAssumption == /\ DelayModulus \in Nat /\ tolerance \in 0..(DelayModulus - 1)
                            /\ penaltyThreshold \in Nat \ {0}

Dead == -1      \* no history: not tested, or the last test or dial failed

Members(net) == {n \in Nodes : net \in Supports[n]}

Candidates(net, h) == {n \in Members(net) : h[n] # Dead}

(* The member of S that the configuration names first. *)
First(S) ==
    IF S = {} THEN None
    ELSE outbounds[CHOOSE i \in DOMAIN outbounds :
                      /\ outbounds[i] \in S
                      /\ \A j \in DOMAIN outbounds : outbounds[j] \in S => i <= j]

Present(selected, h) ==
    IF selected # None /\ h[selected] # Dead THEN [node |-> selected, delay |-> h[selected]]
    ELSE [node |-> None, delay |-> 0]

(* A mutant: only the lack of a node lets another in. *)
Better_noneYet(best, n, net, h) ==
    IF n \in Candidates(net, h) /\ best.delay = 0 THEN [node |-> n, delay |-> h[n]] ELSE best

(* A mutant: any faster node is taken, without the tolerance. *)
Better_noTolerance(best, n, net, h) ==
    IF n \in Candidates(net, h) /\ (best.delay = 0 \/ best.delay > h[n])
      THEN [node |-> n, delay |-> h[n]] ELSE best

(* The best so far and the next member: it is taken if there is none yet, or   *)
(* if it is faster by more than the tolerance.                                 *)
Better(best, n, net, h) ==
    IF n \in Candidates(net, h) /\ (best.delay = 0 \/ best.delay > (h[n] + tolerance) % DelayModulus)
      THEN [node |-> n, delay |-> h[n]] ELSE best

(* The best after each member, in the order of the configuration. *)
Scan(net, selected, h) ==
    LET best[i \in 0..Len(outbounds)] ==
            IF i = 0 THEN Present(selected, h) ELSE Better(best[i - 1], outbounds[i], net, h)
    IN  best

(* Upstream's choice: the present one unless another is faster by more than  *)
(* the tolerance; without any history the first member.                      *)
Select(net, selected, h) ==
    LET best == Scan(net, selected, h)[Len(outbounds)].node
    IN  [node |-> IF best = None THEN First(Members(net)) ELSE best, exists |-> best # None]

(* The elements of S with the least value. *)
Least(S, value) == {n \in S : \A m \in S : value[n] <= value[m]}

fastestByDelay(net, h) == First(Least(Candidates(net, h), h))

penaltyEmergency(net, h, penalties) ==
    LET fastest == fastestByDelay(net, h)
    IN  fastest # None /\ penalties[fastest] >= penaltyThreshold

(* Fewest penalties first, then the smallest delay.                          *)
penaltyBest(net, exclude, h, penalties) ==
    First(Least(Least(Candidates(net, h) \ {exclude}, penalties), h))

penaltyTotal(net, h, penalties) ==
    /\ Candidates(net, h) # {}
    /\ \A n \in Candidates(net, h) : penalties[n] >= penaltyThreshold

slowerBy(delay, than, num, den) == delay * den > than * num

(* A held node is suspect if it is over twice as slow as the fastest other   *)
(* node of a network it is held for.                                         *)
failoverDegraded(node, selected, h) ==
    /\ h[node] # Dead
    /\ \E net \in Networks :
          /\ selected[net] = node
          /\ \E n \in Candidates(net, h) \ {node} : slowerBy(h[node], h[n], 2, 1)

(* A mutant: a node that is not confirmed slow yields to a faster one. *)
failoverSelect_eager(net, reselect, selected, slow, h) ==
    LET fastest == fastestByDelay(net, h)
        moves == /\ fastest # None /\ fastest # selected
                 /\ slowerBy(h[selected], h[fastest], 3, 2)
    IN  IF ~reselect /\ selected # None /\ h[selected] # Dead
          THEN [node |-> IF moves THEN fastest ELSE selected, exists |-> TRUE]
          ELSE IF fastest # None THEN [node |-> fastest, exists |-> TRUE]
          ELSE Select(net, selected, h)

failoverSelect(net, reselect, selected, slow, h) ==
    LET fastest == fastestByDelay(net, h)
        moves == /\ selected \in slow /\ fastest # None /\ fastest # selected
                 /\ slowerBy(h[selected], h[fastest], 3, 2)
    IN  IF ~reselect /\ selected # None /\ h[selected] # Dead
          THEN [node |-> IF moves THEN fastest ELSE selected, exists |-> TRUE]
          ELSE IF fastest # None THEN [node |-> fastest, exists |-> TRUE]
          ELSE Select(net, selected, h)

(* In the emergency mode both policies rank by penalties.                    *)
selectForUpdate(failover, net, reselect, selected, slow, h, penalties) ==
    IF penaltyEmergency(net, h, penalties)
      THEN [node |-> penaltyBest(net, None, h, penalties), exists |-> TRUE]
      ELSE IF failover THEN failoverSelect(net, reselect, selected, slow, h)
      ELSE Select(net, selected, h)

(* A dial takes the present selection, in the emergency mode the best node.  *)
pickForDialNode(net, selected, h, penalties) ==
    IF penaltyEmergency(net, h, penalties) THEN penaltyBest(net, None, h, penalties)
    ELSE IF selected # None THEN selected ELSE Select(net, selected, h).node
=============================================================================
