----------------------------- MODULE DnsGroup -----------------------------
(***************************************************************************)
(* The group DNS server (src/dns/transport/group): several servers behind  *)
(* one tag, chosen by two tables of expiring records.  A failed exchange   *)
(* writes an error and erases the server's wins; a success erases its      *)
(* errors; the first success of a fan-out wins (mode fastest).             *)
(*                                                                         *)
(* Queries run concurrently.  Each critical section of access is one       *)
(* action, and so is each exchange with a server.  A fan has two           *)
(* goroutines: the query (pc) waits for the winner, its collector (col)    *)
(* goes on until the last participant has answered.                        *)
(*                                                                         *)
(* A record is its age in ticks and disappears at its time to live: the    *)
(* code prunes dead records when it reads.  Of the generation only the     *)
(* comparison with a query's own is kept (sel[q].fresh).  Round-trip times,*)
(* traces and the hosts layer, which touches no record, are left out.      *)
(***************************************************************************)
EXTENDS Naturals, Sequences, FiniteSets

CONSTANTS
    Members,             \* tags of the servers
    NoMember,            \* no tag
    Queries,             \* identities of concurrent queries
    Modes,               \* modes a group may be configured with
    ErrorTTL, WinTTL,    \* time to live of the records, in ticks
    MaxRecords           \* maxRecords

ASSUME MemberAssumption == NoMember \notin Members
ASSUME ModeAssumption == Modes \subseteq {"stable", "fastest", "parallel"}
ASSUME TTLAssumption == /\ ErrorTTL \in Nat \ {0} /\ WinTTL \in Nat \ {0}
                        /\ MaxRecords \in Nat \ {0}

VARIABLES
    mode,            \* the configured mode
    members,         \* servers that Start has appended so far
    errors, wins,    \* records: ages of the live errors and wins, oldest first
    current,         \* the sticky target
    election,        \* an election fan is in flight
    pc, sel,         \* each query: its point and its selection
    ctx,             \* is the request context alive
    col,             \* each query's collectFan: its point
    probes,          \*   participants whose result it has not consumed
    got,             \*   the participant whose success it is handling
    delivered,       \*   has a success been delivered
    winnerCh,        \*   the channel of capacity 1 to the query
    probed           \* history: servers asked by a selection since the last Reset

tables == <<errors, wins, current>>
collector == <<col, probes, got, delivered, winnerCh>>
vars == <<mode, members, tables, election, pc, sel, ctx, collector, probed>>

SelType == [target : Members \cup {NoMember}, provisional : BOOLEAN, election : BOOLEAN,
            fresh : BOOLEAN]

NoSel == [target |-> NoMember, provisional |-> FALSE, election |-> FALSE, fresh |-> FALSE]

TypeOK ==
    /\ mode \in Modes
    /\ members \in SUBSET Members
    /\ errors \in [Members -> Seq(0..(ErrorTTL - 1))]
    /\ wins \in [Members -> Seq(0..(WinTTL - 1))]
    /\ \A m \in Members : Len(errors[m]) <= MaxRecords /\ Len(wins[m]) <= MaxRecords
    /\ current \in members \cup {NoMember}
    /\ election \in BOOLEAN
    /\ pc \in [Queries -> {"idle", "set", "single", "survival", "rescue", "fan"}]
    /\ sel \in [Queries -> SelType]
    /\ ctx \in [Queries -> BOOLEAN]
    /\ col \in [Queries -> {"off", "collect", "success", "sticky", "send", "fail"}]
    /\ probes \in [Queries -> SUBSET Members]
    /\ got \in [Queries -> Members \cup {NoMember}]
    /\ delivered \in [Queries -> BOOLEAN]
    /\ winnerCh \in [Queries -> {"empty", "answer", "failure"}]
    /\ probed \in SUBSET Members

Init ==
    /\ mode \in Modes
    /\ members = {}
    /\ errors = [m \in Members |-> <<>>] /\ wins = [m \in Members |-> <<>>]
    /\ current = NoMember
    /\ election = FALSE
    /\ pc = [q \in Queries |-> "idle"]
    /\ sel = [q \in Queries |-> NoSel]
    /\ ctx = [q \in Queries |-> FALSE]
    /\ col = [q \in Queries |-> "off"]
    /\ probes = [q \in Queries |-> {}]
    /\ got = [q \in Queries |-> NoMember]
    /\ delivered = [q \in Queries |-> FALSE]
    /\ winnerCh = [q \in Queries |-> "empty"]
    /\ probed = {}

-----------------------------------------------------------------------------
(* Start appends the servers one at a time, and does not hold access. *)
Start(m) ==
    /\ m \notin members
    /\ members' = members \cup {m}
    /\ UNCHANGED <<tables, election, pc, sel, ctx, collector, probed>>

(* Time passes: records age, the dead ones drop out of every count. *)
Older(times) == [i \in DOMAIN times |-> times[i] + 1]

pruneTimes(times, ttl) ==
    LET firstLive == CHOOSE i \in 1..(Len(times) + 1) :
                        /\ \A j \in 1..(i - 1) : times[j] >= ttl
                        /\ i <= Len(times) => times[i] < ttl
    IN SubSeq(times, firstLive, Len(times))

Tick ==
    /\ errors' = [m \in Members |-> pruneTimes(Older(errors[m]), ErrorTTL)]
    /\ wins' = [m \in Members |-> pruneTimes(Older(wins[m]), WinTTL)]
    /\ UNCHANGED <<members, current, election, pc, sel, ctx, collector, probed>>

(* A mutant: the election starts anew as well. *)
Reset_election ==
    /\ errors' = [m \in Members |-> <<>>] /\ wins' = [m \in Members |-> <<>>]
    /\ current' = NoMember
    /\ sel' = [q \in Queries |-> [sel[q] EXCEPT !.fresh = FALSE]]
    /\ election' = FALSE
    /\ probed' = {}
    /\ UNCHANGED <<members, pc, ctx, collector>>

(* A network change: both tables and the target are dropped, and a new     *)
(* generation begins.  The election stays with the fan that holds it.      *)
Reset ==
    /\ errors' = [m \in Members |-> <<>>] /\ wins' = [m \in Members |-> <<>>]
    /\ current' = NoMember
    /\ sel' = [q \in Queries |-> [sel[q] EXCEPT !.fresh = FALSE]]
    /\ probed' = {}
    /\ UNCHANGED <<members, election, pc, ctx, collector>>

-----------------------------------------------------------------------------
(* The records, all behind the comparison of generations. *)
appendCapped(times, age) ==
    LET all == Append(times, age)
    IN IF Len(all) > MaxRecords THEN SubSeq(all, Len(all) - MaxRecords + 1, Len(all)) ELSE all

noteError(q, m) ==
    IF sel[q].fresh
    THEN /\ errors' = [errors EXCEPT ![m] = appendCapped(@, 0)]
         /\ wins' = [wins EXCEPT ![m] = <<>>]
    ELSE UNCHANGED <<errors, wins>>

noteSuccess(q, m) ==
    IF sel[q].fresh THEN errors' = [errors EXCEPT ![m] = <<>>] ELSE UNCHANGED errors

(* A mutant: the records are kept whole, without the cap. *)
noteWin_uncapped(q, m) ==
    IF sel[q].fresh THEN wins' = [wins EXCEPT ![m] = Append(@, 0)] ELSE UNCHANGED wins

noteWin(q, m) ==
    IF sel[q].fresh THEN wins' = [wins EXCEPT ![m] = appendCapped(@, 0)] ELSE UNCHANGED wins

(* A mutant: a fan that began before the Reset still elects. *)
setCurrent_anyGeneration(q, m) == current' = m

setCurrent(q, m) == IF sel[q].fresh THEN current' = m ELSE UNCHANGED current

-----------------------------------------------------------------------------
(* selectTarget and its pickers. *)
Clean == {m \in members : errors[m] = <<>>}

MostWins(S) == {m \in S : \A n \in S : Len(wins[n]) <= Len(wins[m])}

stickyPick(candidates) == IF current \in candidates THEN {current} ELSE candidates

(* Fewest live errors, then the oldest last one. *)
LastAge(m) == errors[m][Len(errors[m])]
leastDirty ==
    {m \in members : \A n \in members :
        \/ Len(errors[m]) < Len(errors[n])
        \/ Len(errors[m]) = Len(errors[n]) /\ LastAge(m) >= LastAge(n)}

(* A query with a single target: the least dirty server when none is clean *)
(* (survival), else the one the mode chooses.  A query that arrives while  *)
(* an election is on takes any clean server, provisionally.                *)
SelectSingle(q) ==
    /\ members # {}
    /\ pc[q] = "idle" /\ col[q] = "off"
    /\ \E m \in members, provisional \in BOOLEAN :
         /\ \/ Clean = {} /\ m \in leastDirty /\ ~provisional /\ pc' = [pc EXCEPT ![q] = "survival"]
            \/ /\ mode = "stable" /\ m \in stickyPick(Clean) /\ ~provisional
               /\ pc' = [pc EXCEPT ![q] = "set"]
            \/ /\ mode = "fastest" /\ m \in stickyPick(MostWins(Clean)) /\ wins[m] # <<>>
               /\ ~provisional
               /\ pc' = [pc EXCEPT ![q] = "set"]
            \/ /\ mode = "fastest" /\ m \in Clean /\ \A n \in Clean : wins[n] = <<>>
               /\ election /\ provisional
               /\ pc' = [pc EXCEPT ![q] = "single"]
         /\ sel' = [sel EXCEPT ![q] = [target |-> m, provisional |-> provisional,
                                       election |-> FALSE, fresh |-> TRUE]]
         /\ probed' = probed \cup {m}
    /\ ctx' = [ctx EXCEPT ![q] = TRUE]
    /\ UNCHANGED <<members, tables, election, collector>>

(* fan: all the participants are asked at once. *)
Fan(q, participants) ==
    /\ pc' = [pc EXCEPT ![q] = "fan"]
    /\ col' = [col EXCEPT ![q] = "collect"]
    /\ probes' = [probes EXCEPT ![q] = participants]
    /\ got' = [got EXCEPT ![q] = NoMember]
    /\ delivered' = [delivered EXCEPT ![q] = FALSE]
    /\ winnerCh' = [winnerCh EXCEPT ![q] = "empty"]

(* A query that fans out at once: every query in mode parallel, and the    *)
(* one that opens an election in mode fastest.                             *)
SelectFan(q) ==
    /\ pc[q] = "idle" /\ col[q] = "off"
    /\ Clean # {}
    /\ \/ mode = "parallel" /\ UNCHANGED election
       \/ /\ mode = "fastest" /\ \A m \in Clean : wins[m] = <<>>
          /\ ~election /\ election' = TRUE
    /\ sel' = [sel EXCEPT ![q] = [NoSel EXCEPT !.election = (mode = "fastest"), !.fresh = TRUE]]
    /\ ctx' = [ctx EXCEPT ![q] = TRUE]
    /\ Fan(q, Clean)
    /\ probed' = probed \cup Clean
    /\ UNCHANGED <<members, tables>>

-----------------------------------------------------------------------------
(* exchangeSingle: the target becomes the current server ... *)
SetTarget(q) ==
    /\ pc[q] = "set"
    /\ setCurrent(q, sel[q].target)
    /\ pc' = [pc EXCEPT ![q] = "single"]
    /\ UNCHANGED <<members, errors, wins, election, sel, ctx, collector, probed>>

(* ... and answers or fails; so does the one attempt of survival. *)
SingleSucceeds(q) ==
    /\ pc[q] \in {"single", "survival"}
    /\ noteSuccess(q, sel[q].target)
    /\ pc' = [pc EXCEPT ![q] = "idle"]
    /\ sel' = [sel EXCEPT ![q] = NoSel]
    /\ UNCHANGED <<members, wins, current, election, ctx, collector, probed>>

SingleFails(q) ==
    /\ pc[q] \in {"single", "survival"}
    /\ noteError(q, sel[q].target)
    /\ IF pc[q] = "survival"
       THEN pc' = [pc EXCEPT ![q] = "idle"] /\ sel' = [sel EXCEPT ![q] = NoSel]
       ELSE pc' = [pc EXCEPT ![q] = "rescue"] /\ UNCHANGED sel
    /\ UNCHANGED <<members, current, election, ctx, collector, probed>>

(* cleanExcept: the rescue fan goes to the servers that are clean by now. *)
Rescue(q) ==
    /\ pc[q] = "rescue"
    /\ LET rescuers == Clean \ {sel[q].target} IN
         IF rescuers = {}
         THEN /\ pc' = [pc EXCEPT ![q] = "idle"] /\ sel' = [sel EXCEPT ![q] = NoSel]
              /\ UNCHANGED <<collector, probed>>
         ELSE /\ Fan(q, rescuers)
              /\ probed' = IF sel[q].fresh THEN probed \cup rescuers ELSE probed
              /\ UNCHANGED sel
    /\ UNCHANGED <<members, tables, election, ctx>>

(* The query takes the winner, or its context ends first. *)
FanReturns(q) ==
    /\ pc[q] = "fan"
    /\ \/ winnerCh[q] # "empty" /\ winnerCh' = [winnerCh EXCEPT ![q] = "empty"]
       \/ ~ctx[q] /\ UNCHANGED winnerCh
    /\ pc' = [pc EXCEPT ![q] = "idle"]
    /\ UNCHANGED <<members, tables, election, sel, ctx, col, probes, got, delivered, probed>>

(* The request's budget is used up, or the caller cancels. *)
CtxEnds(q) ==
    /\ ctx[q]
    /\ pc[q] # "idle" \/ col[q] # "off"
    /\ ctx' = [ctx EXCEPT ![q] = FALSE]
    /\ UNCHANGED <<members, tables, election, pc, sel, collector, probed>>

-----------------------------------------------------------------------------
(* collectFan.  A failure counts only while the context is alive. *)
CollectFailure(q) ==
    /\ col[q] = "collect"
    /\ \E m \in probes[q] :
         /\ probes' = [probes EXCEPT ![q] = @ \ {m}]
         /\ IF ctx[q] THEN noteError(q, m) ELSE UNCHANGED <<errors, wins>>
    /\ UNCHANGED <<members, current, election, pc, sel, ctx, col, got, delivered, winnerCh, probed>>

(* A success always heals the server ... *)
CollectSuccess(q) ==
    /\ col[q] = "collect"
    /\ \E m \in probes[q] :
         /\ probes' = [probes EXCEPT ![q] = @ \ {m}]
         /\ got' = [got EXCEPT ![q] = m]
         /\ noteSuccess(q, m)
    /\ col' = [col EXCEPT ![q] = "success"]
    /\ UNCHANGED <<members, wins, current, election, pc, sel, ctx, delivered, winnerCh, probed>>

(* ... and the first one of a living request wins ... *)
FirstSuccess(q) ==
    /\ col[q] = "success"
    /\ IF ctx[q] /\ ~delivered[q]
       THEN /\ delivered' = [delivered EXCEPT ![q] = TRUE]
            /\ IF mode = "fastest" THEN noteWin(q, got[q]) ELSE UNCHANGED wins
            /\ col' = [col EXCEPT ![q] = IF mode = "parallel" THEN "send" ELSE "sticky"]
            /\ UNCHANGED got
       ELSE /\ col' = [col EXCEPT ![q] = "collect"] /\ got' = [got EXCEPT ![q] = NoMember]
            /\ UNCHANGED <<delivered, wins>>
    /\ UNCHANGED <<members, errors, current, election, pc, sel, ctx, probes, winnerCh, probed>>

(* ... becomes the current server ... *)
StickWinner(q) ==
    /\ col[q] = "sticky"
    /\ setCurrent(q, got[q])
    /\ col' = [col EXCEPT ![q] = "send"]
    /\ UNCHANGED <<members, errors, wins, election, pc, sel, ctx, probes, got, delivered, winnerCh,
                   probed>>

(* ... and answers the query. *)
SendWinner(q) ==
    /\ col[q] = "send"
    /\ winnerCh[q] = "empty"
    /\ winnerCh' = [winnerCh EXCEPT ![q] = "answer"]
    /\ col' = [col EXCEPT ![q] = "collect"]
    /\ got' = [got EXCEPT ![q] = NoMember]
    /\ UNCHANGED <<members, tables, election, pc, sel, ctx, probes, delivered, probed>>

(* The collector is done and its state with it. *)
CollectorEnds(q) ==
    /\ col' = [col EXCEPT ![q] = "off"]
    /\ sel' = [sel EXCEPT ![q] = NoSel]
    /\ delivered' = [delivered EXCEPT ![q] = FALSE]

(* A mutant: the flag is released only by a fan that delivered. *)
LastParticipant_winnersOnly(q) ==
    /\ col[q] = "collect" /\ probes[q] = {}
    /\ election' = IF sel[q].election /\ delivered[q] THEN FALSE ELSE election
    /\ IF delivered[q] THEN CollectorEnds(q)
                       ELSE col' = [col EXCEPT ![q] = "fail"] /\ UNCHANGED <<sel, delivered>>
    /\ UNCHANGED <<members, tables, pc, ctx, probes, got, winnerCh, probed>>

(* After the last participant the election is over. *)
LastParticipant(q) ==
    /\ col[q] = "collect" /\ probes[q] = {}
    /\ election' = IF sel[q].election THEN FALSE ELSE election
    /\ IF delivered[q] THEN CollectorEnds(q)
                       ELSE col' = [col EXCEPT ![q] = "fail"] /\ UNCHANGED <<sel, delivered>>
    /\ UNCHANGED <<members, tables, pc, ctx, probes, got, winnerCh, probed>>

(* A mutant: a fan without a winner tells nobody. *)
SendFailure_silent(q) ==
    /\ col[q] = "fail"
    /\ CollectorEnds(q)
    /\ UNCHANGED <<members, tables, election, pc, ctx, probes, got, winnerCh, probed>>

SendFailure(q) ==
    /\ col[q] = "fail"
    /\ winnerCh[q] = "empty"
    /\ winnerCh' = [winnerCh EXCEPT ![q] = "failure"]
    /\ CollectorEnds(q)
    /\ UNCHANGED <<members, tables, election, pc, ctx, probes, got, probed>>

-----------------------------------------------------------------------------
Exchange(q) ==
    \/ SetTarget(q) \/ SingleSucceeds(q) \/ SingleFails(q) \/ Rescue(q) \/ FanReturns(q)

collectFan(q) ==
    \/ CollectFailure(q) \/ CollectSuccess(q) \/ FirstSuccess(q) \/ StickWinner(q)
    \/ SendWinner(q) \/ LastParticipant(q) \/ SendFailure(q)

Next ==
    /\ UNCHANGED mode
    /\ \/ \E m \in Members : Start(m)
       \/ Tick
       \/ Reset
       \/ \E q \in Queries :
            SelectSingle(q) \/ SelectFan(q) \/ Exchange(q) \/ CtxEnds(q) \/ collectFan(q)

Spec == Init /\ [][Next]_vars

(* Every goroutine keeps running, and every exchange ends: all of them run *)
(* under the request's deadline.                                           *)
FairSpec == Spec /\ \A q \in Queries : /\ WF_vars(UNCHANGED mode /\ Exchange(q))
                                        /\ WF_vars(UNCHANGED mode /\ collectFan(q))

-----------------------------------------------------------------------------
(* The flag of selectTarget is single-flight: it is up exactly while one   *)
(* election fan has participants to wait for, however Reset, deadlines and *)
(* returning callers interleave with its collector.                        *)
Elects(q) == sel[q].election /\ col[q] \notin {"off", "fail"}
ElectionOwned ==
    /\ election <=> \E q \in Queries : Elects(q)
    /\ \A q, r \in Queries : Elects(q) /\ Elects(r) => q = r

(* Reset is an amnesty: a server shows a record, or is the current one,    *)
(* only if a query of the new network has asked it.  Probes and fans that  *)
(* the Reset overtook leave no trace.                                      *)
AmnestyHolds ==
    \A m \in Members :
        errors[m] # <<>> \/ wins[m] # <<>> \/ current = m => m \in probed

(* In mode parallel no server is ever current, and only mode fastest       *)
(* records wins: what GroupState reports.                                  *)
ModeRecords ==
    /\ mode = "parallel" => current = NoMember
    /\ mode # "fastest" => \A m \in Members : wins[m] = <<>>

(* Every query returns: the collector always has an answer or a failure    *)
(* for it, whatever the participants do.                                   *)
QueryReturns == \A q \in Queries : pc[q] # "idle" ~> pc[q] = "idle"

(* No election lasts for ever, so one dead fan cannot keep the group from  *)
(* electing again.                                                         *)
ElectionEnds == election ~> ~election
=============================================================================
