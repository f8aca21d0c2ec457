---------------------------- MODULE UrlTestGroup ----------------------------
(***************************************************************************)
(* An urltest group in mode least_test or failover                         *)
(* (src/protocol/group/urltest.go, urltest_failover_lx.go,                 *)
(* urltest_penalty_lx.go): health checks, the update of the selection,     *)
(* connections with their penalties and the one fallback dial, and the     *)
(* forced retest.                                                          *)
(*                                                                         *)
(* checking admits one health check.  An update of the selection holds     *)
(* updateAccess, but a connection that moves the selection takes another   *)
(* lock: choosing a node and writing it are separate steps of an update.   *)
(* The ticker, Close and cancellation are not modelled here.               *)
(***************************************************************************)
EXTENDS UrlTestSelect

CONSTANTS
    Modes,          \* modes of the group: "least_test", "failover"
    NetworkOrder,   \* the networks in the order an update takes them
    Delays,         \* what a probe can measure
    NodesChange,    \* do nodes come and go, so that each try may find either
    OtherWriters,   \* do other parties write the shared history
    BlockedSites,   \* does a dial through a live node fail like one through a dead node
    Dials,          \* identities of concurrent connections
    MaxPenalty      \* bound on the penalties of a node

ASSUME ModeAssumption == /\ Modes \subseteq {"least_test", "failover"}
                         /\ NodesChange \in BOOLEAN /\ OtherWriters \in BOOLEAN /\ BlockedSites \in BOOLEAN
                         /\ NetworkOrder \in Seq(Networks)
                         /\ \A net \in Networks : \E i \in DOMAIN NetworkOrder : NetworkOrder[i] = net
                         /\ Networks \subseteq {"tcp", "udp"}
                         /\ Delays \subseteq 0..(DelayModulus - 1) /\ MaxPenalty \in Nat

VARIABLES
    failover,    \* mode failover, else least_test
    up,          \* members that answer, if they stay as they are
    history,     \* URL test history: delay or Dead
    fresh,       \* members whose history may be younger than the last tick run
    selected,    \* selectedOutboundTCP and selectedOutboundUDP
    penalties,   \* failed dials since the last proof of life
    slow,        \* failoverSlow
    check,       \* the health check that holds checking, if any
    update,      \* the update that holds updateAccess, if any
    dial,        \* each connection
    valve,       \* the forced retest: closed, asked, running, or resting for its gap
    doubt        \* history: networks whose selection has failed or proved slow

vars == <<failover, up, history, fresh, selected, penalties, slow, check, update, dial, valve, doubt>>

NoCheck == [pc |-> "none", force |-> FALSE, byValve |-> FALSE, phase |-> "all",
            todo |-> {}, rest |-> <<>>, failed |-> {}, slow |-> {}]
NoUpdate == [pc |-> "free", reselect |-> FALSE, byCheck |-> FALSE, nets |-> <<>>,
             node |-> None, exists |-> FALSE]
NoDial == [pc |-> "idle", net |-> "tcp", packet |-> FALSE, probe |-> FALSE, node |-> None]

TypeOK ==
    /\ failover \in BOOLEAN
    /\ up \subseteq Nodes /\ fresh \subseteq Nodes /\ slow \subseteq Nodes
    /\ history \in [Nodes -> Delays \cup {Dead}]
    /\ selected \in [Networks -> Nodes \cup {None}]
    /\ \A net \in Networks : selected[net] # None => net \in Supports[selected[net]]
    /\ penalties \in [Nodes -> Nat]
    /\ check.pc \in {"none", "test", "judge", "mark", "update", "wait", "end"} /\ check.todo \subseteq Nodes
    /\ update.pc \in {"free", "choose", "write"}
    /\ \A d \in Dials : dial[d].pc \in {"idle", "dial", "punish", "fallback"}
    /\ valve \in {"closed", "asked", "running", "rest"}
    /\ doubt \subseteq Networks

Init ==
    /\ failover \in {mode = "failover" : mode \in Modes}
    /\ up \in IF NodesChange THEN {Nodes} ELSE SUBSET Nodes
    /\ history \in [Nodes -> Delays \cup {Dead}]
    /\ fresh \in SUBSET {n \in Nodes : history[n] # Dead}
    /\ selected = [net \in Networks |-> None]
    /\ penalties = [n \in Nodes |-> 0]
    /\ slow = {} /\ check = NoCheck /\ update = NoUpdate
    /\ dial = [d \in Dials |-> NoDial]
    /\ valve = "closed"
    /\ doubt = {}

-----------------------------------------------------------------------------
(* The history and what it costs a node to lose it.                          *)

StoreHistory(n, delay) ==
    /\ history' = [history EXCEPT ![n] = delay]
    /\ UNCHANGED doubt

DeleteHistory(n) ==
    /\ history' = [history EXCEPT ![n] = Dead]
    /\ fresh' = fresh \ {n}
    /\ doubt' = doubt \cup {net \in Networks : selected[net] = n}

(* A node that is tried answers, or does not.                                *)
Answers(n) == NodesChange \/ n \in up

Refuses(n) == NodesChange \/ n \notin up

penaltyReset(n) == penalties' = [penalties EXCEPT ![n] = 0]

penaltyAdd(n) == penalties' = [penalties EXCEPT ![n] = @ + 1]

(* A node that is selected without history, or while a check that found it   *)
(* slow is still going on, is in doubt from the start.                       *)
DoubtAt(net, node) == IF history[node] = Dead \/ node \in check.slow THEN doubt \cup {net} ELSE doubt \ {net}

(* A manual test of one node, or another group, writes the shared history    *)
(* and leaves this group's penalties alone.                                  *)
OtherWriter(n) ==
    /\ OtherWriters
    /\ \/ /\ Answers(n) /\ \E delay \in Delays : StoreHistory(n, delay)
          /\ fresh' = fresh \cup {n}
       \/ DeleteHistory(n)
    /\ UNCHANGED <<up, selected, penalties, slow, check, update, dial, valve>>

-----------------------------------------------------------------------------
(* The health check. *)

Held == {selected[net] : net \in Networks} \ {None}

(* failoverHeld: the held nodes in the order TCP, UDP, each once.            *)
HeldOrder ==
    [i \in DOMAIN NetworkOrder |->
        LET node == selected[NetworkOrder[i]]
        IN  IF \E j \in 1..(i - 1) : selected[NetworkOrder[j]] = node THEN None ELSE node]

(* A run that is not forced skips the nodes whose history is young enough:   *)
(* fresh ones, for the window never exceeds the interval.                    *)
Test(c, nodes, phase, young) ==
    [c EXCEPT !.pc = "test", !.phase = phase, !.todo = IF c.force THEN nodes ELSE nodes \ young]

Tick ==
    /\ check.pc = "none"
    /\ \E young \in SUBSET fresh :
         check' = IF ~failover THEN Test(NoCheck, Nodes, "all", young)
                  ELSE IF Held = {} THEN Test(NoCheck, Nodes, "others", young)
                  ELSE Test([NoCheck EXCEPT !.rest = HeldOrder], Held, "held", young)
    /\ UNCHANGED <<up, history, fresh, selected, penalties, slow, update, dial, valve, doubt>>

(* A manual test or an interface update.                                     *)
URLTest ==
    /\ check.pc = "none"
    /\ check' = Test([NoCheck EXCEPT !.force = TRUE], Nodes, "all", {})
    /\ UNCHANGED <<up, history, fresh, selected, penalties, slow, update, dial, valve, doubt>>

ProbeAnswers(n, delay) ==
    /\ check.pc = "test" /\ n \in check.todo /\ Answers(n)
    /\ penaltyReset(n)
    /\ StoreHistory(n, delay)
    /\ fresh' = fresh \cup {n}
    /\ check' = [check EXCEPT !.todo = @ \ {n}]
    /\ UNCHANGED <<up, selected, slow, update, dial, valve>>

(* A mutant: a failed probe keeps the old history. *)
ProbeFails_keepsHistory(n) ==
    /\ check.pc = "test" /\ n \in check.todo /\ Refuses(n)
    /\ UNCHANGED <<history, fresh, doubt>>
    /\ check' = [check EXCEPT !.todo = @ \ {n}]
    /\ UNCHANGED <<up, selected, penalties, slow, update, dial, valve>>

ProbeFails(n) ==
    /\ check.pc = "test" /\ n \in check.todo /\ Refuses(n)
    /\ DeleteHistory(n)
    /\ check' = [check EXCEPT !.todo = @ \ {n}]
    /\ UNCHANGED <<up, selected, penalties, slow, update, dial, valve>>

(* The probes are done.  A tick run makes all history stale.  The nodes that *)
(* were held when the check began are judged, whatever is held now.          *)
ProbesEnd ==
    LET gone == {n \in Nodes : history[n] = Dead /\ \E i \in DOMAIN check.rest : check.rest[i] = n}
    IN  /\ check.pc = "test" /\ check.todo = {}
        /\ fresh' = IF check.force \/ check.phase = "confirm" THEN fresh ELSE {}
        /\ check' = CASE check.phase = "held" ->
                           [check EXCEPT !.pc = "judge", !.failed = gone]
                      [] check.phase = "confirm" ->
                           LET n == Head(check.rest) IN
                           [check EXCEPT !.pc = "judge", !.rest = Tail(@),
                                !.failed = IF history[n] = Dead THEN @ \cup {n} ELSE @,
                                !.slow = IF failoverDegraded(n, selected, history) THEN @ \cup {n} ELSE @]
                      [] OTHER -> [check EXCEPT !.pc = IF check.slow = {} THEN "update" ELSE "mark"]
        /\ doubt' = IF check.phase = "confirm" /\ failoverDegraded(Head(check.rest), selected, history)
                      THEN doubt \cup {net \in Networks : selected[net] = Head(check.rest)} ELSE doubt
        /\ UNCHANGED <<up, history, selected, penalties, slow, update, dial, valve>>

(* A suspect is probed once more.  If all the held nodes are well the check  *)
(* is over; otherwise the others are tested too.                             *)
Judge ==
    /\ check.pc = "judge"
    /\ IF check.rest # <<>>
         THEN check' = IF /\ Head(check.rest) \notin check.failed \cup {None}
                          /\ failoverDegraded(Head(check.rest), selected, history)
                         THEN Test(check, {Head(check.rest)}, "confirm", {})
                         ELSE [check EXCEPT !.rest = Tail(@)]
         ELSE \E young \in SUBSET fresh :
                check' = IF check.failed \cup check.slow = {} THEN NoCheck
                         ELSE Test([check EXCEPT !.failed = {}], Nodes \ (check.failed \cup check.slow), "others", young)
    /\ UNCHANGED <<up, history, fresh, selected, penalties, slow, update, dial, valve, doubt>>

-----------------------------------------------------------------------------
(* The slow nodes are known to every update from before the check's own      *)
(* update until after it.                                                    *)
MarkSlow ==
    /\ check.pc = "mark"
    /\ check' = [check EXCEPT !.pc = "update"]
    /\ slow' = check.slow
    /\ UNCHANGED <<up, history, fresh, selected, penalties, update, dial, valve, doubt>>

(* performSelectionUpdate, under updateAccess. *)

(* A mutant: a check updates the first network only. *)
UpdateByCheck_tcpOnly ==
    /\ check.pc = "update" /\ update.pc = "free"
    /\ check' = [check EXCEPT !.pc = "wait"]
    /\ update' = [NoUpdate EXCEPT !.pc = "choose", !.reselect = check.force, !.byCheck = TRUE,
                                  !.nets = <<Head(NetworkOrder)>>]
    /\ UNCHANGED <<up, history, fresh, selected, penalties, slow, dial, valve, doubt>>

UpdateByCheck ==
    /\ check.pc = "update" /\ update.pc = "free"
    /\ check' = [check EXCEPT !.pc = "wait"]
    /\ update' = [NoUpdate EXCEPT !.pc = "choose", !.reselect = check.force, !.byCheck = TRUE,
                                  !.nets = NetworkOrder]
    /\ UNCHANGED <<up, history, fresh, selected, penalties, slow, dial, valve, doubt>>

(* The Clash API asks for an update after its own test of a node.            *)
performUpdateCheck ==
    /\ OtherWriters /\ update.pc = "free"
    /\ update' = [NoUpdate EXCEPT !.pc = "choose", !.nets = NetworkOrder]
    /\ UNCHANGED <<up, history, fresh, selected, penalties, slow, check, dial, valve, doubt>>

ChooseNode ==
    /\ update.pc = "choose" /\ update.nets # <<>>
    /\ LET net == Head(update.nets)
           best == selectForUpdate(failover, net, update.reselect, selected[net], slow, history, penalties)
       IN  update' = [update EXCEPT !.pc = "write", !.node = best.node, !.exists = best.exists]
    /\ UNCHANGED <<up, history, fresh, selected, penalties, slow, check, dial, valve, doubt>>

(* The first selection is taken in any case, a later one only with history.  *)
WriteNode ==
    LET net == Head(update.nets)
        writes == /\ update.node # None
                  /\ selected[net] = None \/ (update.exists /\ update.node # selected[net])
    IN  /\ update.pc = "write"
        /\ selected' = IF writes THEN [selected EXCEPT ![net] = update.node] ELSE selected
        /\ doubt' = IF writes THEN DoubtAt(net, update.node) ELSE doubt
        /\ update' = [update EXCEPT !.pc = "choose", !.nets = Tail(@), !.node = None, !.exists = FALSE]
        /\ UNCHANGED <<up, history, fresh, penalties, slow, check, dial, valve>>

UpdateEnds ==
    /\ update.pc = "choose" /\ update.nets = <<>>
    /\ update' = NoUpdate
    /\ check' = IF update.byCheck THEN [check EXCEPT !.pc = "end"] ELSE check
    /\ UNCHANGED <<up, history, fresh, selected, penalties, slow, dial, valve, doubt>>

(* The check is over, and with it a forced retest.                           *)
CheckEnds ==
    /\ check.pc = "end"
    /\ check' = NoCheck /\ slow' = {}
    /\ valve' = IF check.byValve THEN "rest" ELSE valve
    /\ UNCHANGED <<up, history, fresh, selected, penalties, update, dial, doubt>>

-----------------------------------------------------------------------------
(* The forced retest. *)

(* A failed dial opens the valve when every candidate is penalised.  The     *)
(* arguments are the history and the penalties after that dial.              *)
maybeForceRetest(h, p) ==
    valve' = IF valve = "closed" /\ penaltyTotal("tcp", h, p) THEN "asked" ELSE valve

(* Its goroutine runs a forced check, or finds one in progress.              *)
ForcedRetest ==
    /\ valve = "asked"
    /\ IF check.pc = "none"
         THEN /\ check' = Test([NoCheck EXCEPT !.force = TRUE, !.byValve = TRUE], Nodes, "all", {})
              /\ valve' = "running"
         ELSE /\ valve' = "rest" /\ UNCHANGED check
    /\ UNCHANGED <<up, history, fresh, selected, penalties, slow, update, dial, doubt>>

(* penaltyForcedRetestGap has passed since the end of the retest.            *)
GapPasses ==
    /\ valve = "rest" /\ valve' = "closed"
    /\ UNCHANGED <<up, history, fresh, selected, penalties, slow, check, update, dial, doubt>>

-----------------------------------------------------------------------------
(* A connection. *)

(* packet: ListenPacket, which knows neither penalties nor a fallback.       *)
DialBegins(d, net, packet, probe) ==
    LET node == pickForDialNode(net, selected[net], history, penalties)
    IN  /\ dial[d].pc = "idle" /\ node # None /\ (packet => net = "udp")
        /\ \A n \in Nodes : penalties[n] < MaxPenalty
        /\ dial' = [dial EXCEPT ![d] = [pc |-> "dial", net |-> net, packet |-> packet, probe |-> probe,
                                        node |-> node]]
        /\ UNCHANGED <<up, history, fresh, selected, penalties, slow, check, update, valve, doubt>>

DialSucceeds(d) ==
    /\ dial[d].pc = "dial" /\ Answers(dial[d].node)
    /\ IF dial[d].probe \/ dial[d].packet THEN UNCHANGED penalties ELSE penaltyReset(dial[d].node)
    /\ dial' = [dial EXCEPT ![d] = NoDial]
    /\ UNCHANGED <<up, history, fresh, selected, slow, check, update, valve, doubt>>

(* The dial fails: the history goes.  Only an error that says the path is    *)
(* dead leads on; a refusal comes through a live node.                       *)
DialFails(d, pathDead) ==
    /\ dial[d].pc = "dial"
    /\ IF pathDead THEN Refuses(dial[d].node) \/ BlockedSites ELSE Answers(dial[d].node) /\ BlockedSites
    /\ IF dial[d].probe THEN UNCHANGED <<history, fresh, doubt>> ELSE DeleteHistory(dial[d].node)
    /\ dial' = [dial EXCEPT ![d] = IF pathDead /\ ~dial[d].packet
                                          THEN [@ EXCEPT !.pc = "punish"] ELSE NoDial]
    /\ UNCHANGED <<up, selected, penalties, slow, check, update, valve>>

(* penaltyFailoverDial up to its own dial.                                   *)
Punish(d) ==
    LET me == dial[d]
    IN  /\ me.pc = "punish"
        /\ IF me.probe THEN UNCHANGED <<penalties, valve>>
           ELSE penaltyAdd(me.node) /\ maybeForceRetest(history, penalties')
        /\ LET fallback == penaltyBest(me.net, me.node, history, penalties')
           IN  dial' = [dial EXCEPT ![d] = IF fallback = None THEN NoDial
                          ELSE [me EXCEPT !.pc = "fallback", !.node = fallback]]
        /\ UNCHANGED <<up, history, fresh, selected, slow, check, update, doubt>>

moveSelection(net, node) ==
    /\ selected' = [selected EXCEPT ![net] = node]
    /\ doubt' = IF selected[net] = node THEN doubt ELSE DoubtAt(net, node)

FallbackSucceeds(d) ==
    /\ dial[d].pc = "fallback" /\ Answers(dial[d].node)
    /\ IF dial[d].probe THEN UNCHANGED <<penalties, selected, doubt>>
       ELSE penaltyReset(dial[d].node) /\ moveSelection(dial[d].net, dial[d].node)
    /\ dial' = [dial EXCEPT ![d] = NoDial]
    /\ UNCHANGED <<up, history, fresh, slow, check, update, valve>>

(* A mutant: the failed fallback of a test connection is held against the node. *)
FallbackFails_probeToo(d, pathDead) ==
    LET n == dial[d].node
    IN  /\ dial[d].pc = "fallback"
        /\ IF pathDead THEN Refuses(n) \/ BlockedSites ELSE Answers(n) /\ BlockedSites
        /\ DeleteHistory(n)
        /\ IF pathDead THEN penaltyAdd(n) /\ maybeForceRetest(history', penalties')
           ELSE UNCHANGED <<penalties, valve>>
        /\ dial' = [dial EXCEPT ![d] = NoDial]
        /\ UNCHANGED <<up, selected, slow, check, update>>

FallbackFails(d, pathDead) ==
    LET n == dial[d].node
    IN  /\ dial[d].pc = "fallback"
        /\ IF pathDead THEN Refuses(n) \/ BlockedSites ELSE Answers(n) /\ BlockedSites
        /\ IF dial[d].probe THEN UNCHANGED <<history, fresh, doubt, penalties, valve>>
           ELSE /\ DeleteHistory(n)
                /\ IF pathDead THEN penaltyAdd(n) /\ maybeForceRetest(history', penalties')
                   ELSE UNCHANGED <<penalties, valve>>
        /\ dial' = [dial EXCEPT ![d] = NoDial]
        /\ UNCHANGED <<up, selected, slow, check, update>>

-----------------------------------------------------------------------------
Probe == \E n \in Nodes : ProbeFails(n) \/ \E delay \in Delays : ProbeAnswers(n, delay)

Check == Probe \/ ProbesEnd \/ Judge \/ MarkSlow \/ UpdateByCheck \/ CheckEnds

Update == ChooseNode \/ WriteNode \/ UpdateEnds

Dial(d) ==
    \/ DialSucceeds(d) \/ Punish(d) \/ FallbackSucceeds(d)
    \/ \E pathDead \in BOOLEAN : DialFails(d, pathDead) \/ FallbackFails(d, pathDead)

Next ==
    /\ UNCHANGED failover
    /\ \/ Tick \/ URLTest \/ Check \/ performUpdateCheck \/ Update
       \/ ForcedRetest \/ GapPasses
       \/ \E n \in Nodes : OtherWriter(n)
       \/ \E d \in Dials :
            Dial(d) \/ \E net \in Networks, packet, probe \in BOOLEAN : DialBegins(d, net, packet, probe)

Spec == Init /\ [][Next]_vars

(* The ticker ticks, probes end by their timeout and nobody holds            *)
(* updateAccess for ever.                                                    *)
SteadySpec ==
    /\ Spec
    /\ WF_vars(UNCHANGED failover /\ Tick)
    /\ WF_vars(UNCHANGED failover /\ Check)
    /\ WF_vars(UNCHANGED failover /\ Update)

-----------------------------------------------------------------------------
(* In mode failover an update that is not forced chooses another node for a    *)
(* network only after the node it holds has lost its history since it was      *)
(* selected, or a check has found it slow by two probes, or in the emergency   *)
(* mode.                                                                       *)
HoldsLiveNode ==
    [][ LET net == Head(update.nets)
        IN  /\ failover /\ update.pc = "choose" /\ update'.pc = "write" /\ ~update.reselect
            /\ update'.exists /\ selected[net] \notin {None, update'.node}
            => net \in doubt \/ penaltyEmergency(net, history, penalties) ]_vars

(* A test connection, with all its failures and its fallback, changes nothing  *)
(* of the group: no penalty, no history, no selection, no retest.              *)
TestConnectionLeavesNoTrace ==
    [][ \A d \in Dials : dial[d].probe /\ dial'[d] # dial[d] =>
          UNCHANGED <<history, selected, penalties, valve>> ]_vars

(* What Select, the policy of least_test, promises of its choice in every      *)
(* state.  A delay below a millisecond counts as none, and the sum with the    *)
(* tolerance is 16 bits wide: the laws hold for delays that avoid both edges.  *)
Chosen(net) == Select(net, selected[net], history)

Measurable ==
    \A n \in Nodes : history[n] # Dead => history[n] > 0 /\ history[n] + tolerance < DelayModulus

(* The node least_test selects is slower than no other node by more than the   *)
(* tolerance, wherever it and the present one stand in the configuration.      *)
ChosenWithinTolerance ==
    \A net \in Networks :
        Measurable /\ Chosen(net).exists =>
            \A n \in Candidates(net, history) : history[Chosen(net).node] <= history[n] + tolerance

(* As long as the delays stay the choice stays: least_test does not move from  *)
(* node to node without a new measurement.                                     *)
ChoiceIsStable ==
    \A net \in Networks :
        Measurable /\ Chosen(net).exists => Select(net, Chosen(net).node, history) = Chosen(net)

(* A present node that still answers is left only for one that is faster by    *)
(* more than the tolerance.                                                    *)
PresentIsKept ==
    \A net \in Networks :
        Measurable /\ selected[net] # None /\ history[selected[net]] # Dead /\ Chosen(net).node # selected[net] =>
            history[selected[net]] > history[Chosen(net).node] + tolerance

(* Among nodes that stay as they are, on each network that has one that        *)
(* answers, the group ends up holding none that is dead, and stays so.         *)
LeavesDeadNodes ==
    \A net \in Networks :
        (\E n \in up : net \in Supports[n]) ~> [](selected[net] \in up \cup {None})

(* In mode least_test each network that has a node that answers ends up with a *)
(* selection of its own.  A failover group that a connection has given a TCP   *)
(* node before the first check tests only that node and may never select for   *)
(* UDP.                                                                        *)
EachNetworkIsHeld ==
    \A net \in Networks :
        ~failover /\ (\E n \in up : net \in Supports[n]) ~> [](selected[net] # None)
=============================================================================
