--------------------------- MODULE DnsGroupProofs ---------------------------
(***************************************************************************)
(* What the DNS group guarantees for any servers, any number of concurrent *)
(* queries and any times to live.                                          *)
(*                                                                         *)
(* OwnInv carries the election flag through selection and collection;      *)
(* FreshInv follows the servers that a selection of this generation has    *)
(* asked; both rest on ShapeInv, the types without the records.  The       *)
(* records are typed because they are ordered: RecordsLive.                *)
(***************************************************************************)
EXTENDS DnsGroup, SequenceTheorems, WellFoundedInduction, TLAPS

USE SMTT(30), ZenonT(20)

SinglePCs == {"set", "single", "survival", "rescue"}

(* The state of the queries and their collectors is typed, and a query     *)
(* with a single target has no collector and no election.                  *)
ShapeInv ==
    /\ pc \in [Queries -> SinglePCs \cup {"idle", "fan"}]
    /\ sel \in [Queries -> SelType]
    /\ col \in [Queries -> {"off", "collect", "success", "sticky", "send", "fail"}]
    /\ probes \in [Queries -> SUBSET Members]
    /\ got \in [Queries -> Members \cup {NoMember}]
    /\ members \in SUBSET Members
    /\ \A q \in Queries :
         /\ pc[q] \in SinglePCs => /\ col[q] = "off" /\ ~sel[q].election
                                   /\ sel[q].target \in Members
         /\ col[q] \in {"success", "sticky"} => got[q] \in Members

OwnInv == election \in BOOLEAN /\ ElectionOwned

(* A query of this generation asks and handles only servers in probed. *)
FreshInv ==
    /\ errors = [m \in Members |-> errors[m]] /\ wins = [m \in Members |-> wins[m]]
    /\ AmnestyHolds
    /\ \A q \in Queries : sel[q].fresh =>
         /\ pc[q] \in SinglePCs => sel[q].target \in probed
         /\ col[q] # "off" => probes[q] \subseteq probed
         /\ col[q] \in {"success", "sticky"} => got[q] \in probed

(* What each mode leaves alone. *)
ModeInv ==
    /\ ModeRecords
    /\ mode = "parallel" => \A q \in Queries : pc[q] # "set" /\ col[q] # "sticky"

-----------------------------------------------------------------------------
(* Time brings no record back: the empty table stays empty. *)
LEMMA NothingToPrune == \A ttl : pruneTimes(Older(<<>>), ttl) = <<>>
<1> TAKE ttl
<1>1. Older(<<>>) = <<>>
  BY DEF Older
<1> DEFINE first == CHOOSE i \in 1..(Len(<<>>) + 1) :
                        /\ \A j \in 1..(i - 1) : <<>>[j] >= ttl
                        /\ i <= Len(<<>>) => <<>>[i] < ttl
<1>2. first = 1
  <2>1. Len(<<>>) = 0
    BY Zenon
  <2>2. \A i \in 1..(Len(<<>>) + 1) : i = 1
    BY <2>1
  <2>3. /\ 1 \in 1..(Len(<<>>) + 1)
        /\ \A j \in 1..(1 - 1) : <<>>[j] >= ttl
        /\ 1 <= Len(<<>>) => <<>>[1] < ttl
    BY <2>1
  <2> QED
    BY <2>2, <2>3, Zenon
<1>3. pruneTimes(<<>>, ttl) = SubSeq(<<>>, first, Len(<<>>))
  BY Zenon DEF pruneTimes
<1>4. SubSeq(<<>>, 1, 0) = <<>>
  BY SubSeqEmpty
<1> QED
  BY <1>1, <1>2, <1>3, <1>4, Zenon

(* Reset takes nothing from a selection but its freshness. *)
LEMMA ResetSelections ==
    ASSUME sel \in [Queries -> SelType], Reset
    PROVE  /\ sel' \in [Queries -> SelType]
           /\ \A q \in Queries : /\ sel'[q].target = sel[q].target
                                 /\ sel'[q].election = sel[q].election
                                 /\ ~sel'[q].fresh
<1>1. \A s \in SelType : LET t == [s EXCEPT !.fresh = FALSE]
                         IN /\ t \in SelType /\ t.target = s.target
                            /\ t.election = s.election /\ t.fresh = FALSE
  BY Zenon DEF SelType
<1>2. sel' = [q \in Queries |-> [sel[q] EXCEPT !.fresh = FALSE]]
  BY Zenon DEF Reset
<1> QED
  BY <1>1, <1>2, Zenon

(* Every step keeps the shape. *)
LEMMA ShapeStep ==
    ASSUME ShapeInv, [Next]_vars
    PROVE  ShapeInv'
<1> USE DEF tables, collector
<1>1. ASSUME NEW m \in Members, Start(m) PROVE ShapeInv'
  BY <1>1, Zenon DEF Start, ShapeInv, SinglePCs, SelType, NoSel, Clean
<1>2. CASE Tick
  BY <1>2, Zenon DEF Tick, ShapeInv, SinglePCs, SelType, NoSel, Clean
<1>3. CASE Reset
  <2>1. /\ sel' \in [Queries -> SelType]
        /\ \A q \in Queries : /\ sel'[q].target = sel[q].target
                              /\ sel'[q].election = sel[q].election
                              /\ ~sel'[q].fresh
    BY <1>3, ResetSelections, Zenon DEF ShapeInv
  <2> QED
    BY <1>3, <2>1, Zenon DEF Reset, ShapeInv
<1>4. ASSUME NEW q \in Queries, SelectSingle(q) PROVE ShapeInv'
  <2>1. /\ pc' \in {[pc EXCEPT ![q] = p] : p \in SinglePCs}
        /\ col[q] = "off" /\ UNCHANGED <<members, collector>>
    BY <1>4, Zenon DEF SelectSingle, SinglePCs
  <2>2. \E m \in Members, provisional \in BOOLEAN :
          sel' = [sel EXCEPT ![q] = [target |-> m, provisional |-> provisional,
                                     election |-> FALSE, fresh |-> TRUE]]
    BY <1>4, Zenon DEF SelectSingle, ShapeInv
  <2>3. /\ sel' \in [Queries -> SelType]
        /\ ~sel'[q].election /\ sel'[q].target \in Members
        /\ \A r \in Queries \ {q} : sel'[r] = sel[r]
    BY <2>2 DEF ShapeInv, SelType
  <2> QED
    BY <2>1, <2>3, Zenon DEF ShapeInv
<1>5. ASSUME NEW q \in Queries, SelectFan(q) PROVE ShapeInv'
  BY <1>5, Zenon DEF SelectFan, Fan, ShapeInv, SinglePCs, SelType, NoSel, Clean
<1>6. ASSUME NEW q \in Queries, SetTarget(q) PROVE ShapeInv'
  BY <1>6, Zenon DEF SetTarget, setCurrent, ShapeInv, SinglePCs, SelType, NoSel, Clean
<1>7. ASSUME NEW q \in Queries, SingleSucceeds(q) PROVE ShapeInv'
  BY <1>7, Zenon DEF SingleSucceeds, noteSuccess, ShapeInv, SinglePCs, SelType, NoSel, Clean
<1>8. ASSUME NEW q \in Queries, SingleFails(q) PROVE ShapeInv'
  <2>1. NoSel \in SelType
    BY Zenon DEF NoSel, SelType
  <2>2. CASE pc[q] = "survival"
    BY <1>8, <2>1, <2>2 DEF SingleFails, ShapeInv, SinglePCs
  <2>3. CASE pc[q] # "survival"
    BY <1>8, <2>3, Zenon DEF SingleFails, ShapeInv, SinglePCs
  <2> QED
    BY <2>2, <2>3, Zenon
<1>9. ASSUME NEW q \in Queries, Rescue(q) PROVE ShapeInv'
  <2>1. NoSel \in SelType
    BY Zenon DEF NoSel, SelType
  <2> DEFINE rescuers == Clean \ {sel[q].target}
  <2>2. CASE rescuers = {}
    BY <1>9, <2>1, <2>2 DEF Rescue, ShapeInv, SinglePCs
  <2>3. CASE rescuers # {}
    <3>1. rescuers \in SUBSET Members /\ Fan(q, rescuers) /\ UNCHANGED <<sel, members>>
      BY <1>9, <2>3, Zenon DEF Rescue, Clean, ShapeInv
    <3> HIDE DEF rescuers
    <3> QED
      BY <3>1, Zenon DEF Fan, ShapeInv, SinglePCs
  <2> QED
    BY <2>2, <2>3, Zenon
<1>10. ASSUME NEW q \in Queries, FanReturns(q) PROVE ShapeInv'
  BY <1>10, Zenon DEF FanReturns, ShapeInv, SinglePCs, SelType, NoSel, Clean
<1>11. ASSUME NEW q \in Queries, CtxEnds(q) PROVE ShapeInv'
  BY <1>11, Zenon DEF CtxEnds, ShapeInv, SinglePCs, SelType, NoSel, Clean
<1>12. ASSUME NEW q \in Queries, CollectFailure(q) PROVE ShapeInv'
  BY <1>12 DEF CollectFailure, noteError, ShapeInv, SinglePCs, SelType, NoSel, Clean
<1>13. ASSUME NEW q \in Queries, CollectSuccess(q) PROVE ShapeInv'
  BY <1>13 DEF CollectSuccess, noteSuccess, ShapeInv, SinglePCs, SelType, NoSel, Clean
<1>14. ASSUME NEW q \in Queries, FirstSuccess(q) PROVE ShapeInv'
  <2>1. UNCHANGED <<pc, sel, probes, members>> /\ col[q] = "success" /\ got[q] \in Members
    BY <1>14, Zenon DEF FirstSuccess, ShapeInv
  <2>2. \/ /\ col' = [col EXCEPT ![q] = "collect"] /\ got' = [got EXCEPT ![q] = NoMember]
        \/ /\ \/ col' = [col EXCEPT ![q] = "send"]
              \/ col' = [col EXCEPT ![q] = "sticky"]
           /\ got' = got
    BY <1>14, Zenon DEF FirstSuccess
  <2> QED
    BY <2>1, <2>2 DEF ShapeInv, SinglePCs
<1>15. ASSUME NEW q \in Queries, StickWinner(q) PROVE ShapeInv'
  BY <1>15, Zenon DEF StickWinner, setCurrent, ShapeInv, SinglePCs, SelType, NoSel, Clean
<1>16. ASSUME NEW q \in Queries, SendWinner(q) PROVE ShapeInv'
  BY <1>16, Zenon DEF SendWinner, ShapeInv, SinglePCs, SelType, NoSel, Clean
<1>17. ASSUME NEW q \in Queries, LastParticipant(q) PROVE ShapeInv'
  <2>1. NoSel \in SelType
    BY Zenon DEF NoSel, SelType
  <2>2. CASE delivered[q]
    BY <1>17, <2>1, <2>2 DEF LastParticipant, CollectorEnds, ShapeInv, SinglePCs
  <2>3. CASE ~delivered[q]
    BY <1>17, <2>3 DEF LastParticipant, ShapeInv, SinglePCs
  <2> QED
    BY <2>2, <2>3, Zenon
<1>18. ASSUME NEW q \in Queries, SendFailure(q) PROVE ShapeInv'
  BY <1>18, Zenon DEF SendFailure, CollectorEnds, ShapeInv, SinglePCs, SelType, NoSel, Clean
<1>19. CASE UNCHANGED vars
  BY <1>19, Zenon DEF vars, ShapeInv, SinglePCs, SelType, NoSel, Clean
<1> QED
  BY <1>1, <1>2, <1>3, <1>4, <1>5, <1>6, <1>7, <1>8, <1>9, <1>10, <1>11, <1>12, <1>13, <1>14,
     <1>15, <1>16, <1>17, <1>18, <1>19
     DEF Next, Exchange, collectFan

(* Every step hands the election flag on correctly. *)
LEMMA OwnStep ==
    ASSUME ShapeInv, OwnInv, [Next]_vars
    PROVE  OwnInv'
<1> USE DEF tables, collector
<1>1. ASSUME NEW m \in Members, Start(m) PROVE OwnInv'
  BY <1>1, Zenon DEF Start, ShapeInv, SinglePCs, OwnInv, ElectionOwned, Elects, SelType, NoSel
<1>2. CASE Tick
  BY <1>2, Zenon DEF Tick, ShapeInv, SinglePCs, OwnInv, ElectionOwned, Elects, SelType, NoSel
<1>3. CASE Reset
  <2>1. /\ sel' \in [Queries -> SelType]
        /\ \A q \in Queries : /\ sel'[q].target = sel[q].target
                              /\ sel'[q].election = sel[q].election
                              /\ ~sel'[q].fresh
    BY <1>3, ResetSelections, Zenon DEF ShapeInv
  <2> QED
    BY <1>3, <2>1, Zenon DEF Reset, OwnInv, ElectionOwned, Elects
<1>4. ASSUME NEW q \in Queries, SelectSingle(q) PROVE OwnInv'
  BY <1>4 DEF SelectSingle, ShapeInv, SinglePCs, OwnInv, ElectionOwned, Elects, SelType, NoSel
<1>5. ASSUME NEW q \in Queries, SelectFan(q) PROVE OwnInv'
  <2>1. /\ \A r \in Queries \ {q} : sel'[r] = sel[r] /\ col'[r] = col[r]
        /\ col[q] = "off" /\ col'[q] = "collect"
        /\ sel'[q].election = (mode = "fastest")
    BY <1>5, Zenon DEF SelectFan, Fan, NoSel, ShapeInv
  <2>2. CASE mode = "parallel" /\ UNCHANGED election
    BY <2>1, <2>2, Zenon DEF OwnInv, ElectionOwned, Elects
  <2>3. CASE mode = "fastest" /\ ~election /\ election' = TRUE
    <3>1. \A r \in Queries : ~Elects(r)
      BY <2>3, Zenon DEF OwnInv, ElectionOwned
    <3>2. Elects(q)'
      BY <2>1, <2>3, Zenon DEF Elects
    <3>3. \A r \in Queries : Elects(r)' => r = q
      BY <2>1, <3>1, Zenon DEF Elects
    <3> QED
      BY <2>3, <3>2, <3>3, Zenon DEF OwnInv, ElectionOwned
  <2> QED
    BY <1>5, <2>2, <2>3, Zenon DEF SelectFan
<1>6. ASSUME NEW q \in Queries, SetTarget(q) PROVE OwnInv'
  BY <1>6, Zenon DEF SetTarget, setCurrent, ShapeInv, SinglePCs, OwnInv, ElectionOwned, Elects,
         SelType, NoSel
<1>7. ASSUME NEW q \in Queries, SingleSucceeds(q) PROVE OwnInv'
  BY <1>7 DEF SingleSucceeds, noteSuccess, ShapeInv, SinglePCs, OwnInv, ElectionOwned,
     Elects, SelType, NoSel
<1>8. ASSUME NEW q \in Queries, SingleFails(q) PROVE OwnInv'
  BY <1>8, Zenon DEF SingleFails, noteError, ShapeInv, SinglePCs, OwnInv, ElectionOwned, Elects,
     SelType, NoSel
<1>9. ASSUME NEW q \in Queries, Rescue(q) PROVE OwnInv'
  <2>1. pc[q] = "rescue" /\ ~sel[q].election /\ col[q] = "off" /\ election' = election
    BY <1>9, Zenon DEF Rescue, ShapeInv, SinglePCs
  <2>2. sel'[q].election = FALSE /\ \A r \in Queries \ {q} : sel'[r] = sel[r] /\ col'[r] = col[r]
    BY <1>9, <2>1 DEF Rescue, Fan, collector, ShapeInv, NoSel
  <2>3. \A r \in Queries : Elects(r)' <=> Elects(r)
    BY <2>1, <2>2, Zenon DEF Elects
  <2> QED
    BY <2>1, <2>3, Zenon DEF OwnInv, ElectionOwned
<1>10. ASSUME NEW q \in Queries, FanReturns(q) PROVE OwnInv'
  BY <1>10, Zenon DEF FanReturns, ShapeInv, SinglePCs, OwnInv, ElectionOwned, Elects, SelType,
         NoSel
<1>11. ASSUME NEW q \in Queries, CtxEnds(q) PROVE OwnInv'
  BY <1>11, Zenon DEF CtxEnds, ShapeInv, SinglePCs, OwnInv, ElectionOwned, Elects, SelType, NoSel
<1>12. ASSUME NEW q \in Queries, CollectFailure(q) PROVE OwnInv'
  BY <1>12, Zenon DEF CollectFailure, noteError, ShapeInv, SinglePCs, OwnInv, ElectionOwned,
         Elects, SelType, NoSel
<1>13. ASSUME NEW q \in Queries, CollectSuccess(q) PROVE OwnInv'
  BY <1>13 DEF CollectSuccess, noteSuccess, ShapeInv, SinglePCs, OwnInv, ElectionOwned,
     Elects, SelType, NoSel
<1>14. ASSUME NEW q \in Queries, FirstSuccess(q) PROVE OwnInv'
  BY <1>14 DEF FirstSuccess, noteWin, ShapeInv, SinglePCs, OwnInv, ElectionOwned, Elects,
     SelType, NoSel
<1>15. ASSUME NEW q \in Queries, StickWinner(q) PROVE OwnInv'
  BY <1>15 DEF StickWinner, setCurrent, ShapeInv, SinglePCs, OwnInv, ElectionOwned, Elects,
     SelType, NoSel
<1>16. ASSUME NEW q \in Queries, SendWinner(q) PROVE OwnInv'
  BY <1>16 DEF SendWinner, ShapeInv, SinglePCs, OwnInv, ElectionOwned, Elects, SelType, NoSel
<1>17. ASSUME NEW q \in Queries, LastParticipant(q) PROVE OwnInv'
  <2>1. CASE delivered[q]
    BY <1>17, <2>1, ZenonT(40) DEF LastParticipant, CollectorEnds, NoSel, ShapeInv, OwnInv,
       ElectionOwned, Elects
  <2>2. CASE ~delivered[q]
    BY <1>17, <2>2, Zenon DEF LastParticipant, ShapeInv, OwnInv, ElectionOwned, Elects
  <2> QED
    BY <2>1, <2>2, Zenon
<1>18. ASSUME NEW q \in Queries, SendFailure(q) PROVE OwnInv'
  BY <1>18 DEF SendFailure, CollectorEnds, ShapeInv, SinglePCs, OwnInv, ElectionOwned,
     Elects, SelType, NoSel
<1>19. CASE UNCHANGED vars
  BY <1>19, Zenon DEF vars, ShapeInv, SinglePCs, OwnInv, ElectionOwned, Elects, SelType, NoSel
<1> QED
  BY <1>1, <1>2, <1>3, <1>4, <1>5, <1>6, <1>7, <1>8, <1>9, <1>10, <1>11, <1>12, <1>13, <1>14,
     <1>15, <1>16, <1>17, <1>18, <1>19
     DEF Next, Exchange, collectFan

(* No step lets a probe of an older generation touch the tables. *)
LEMMA FreshStep ==
    ASSUME ShapeInv, FreshInv, [Next]_vars
    PROVE  FreshInv'
<1> USE DEF tables, collector
<1>1. ASSUME NEW m \in Members, Start(m) PROVE FreshInv'
  BY <1>1, Zenon DEF Start, ShapeInv, SinglePCs, FreshInv, AmnestyHolds, SelType, NoSel
<1>2. CASE Tick
  <2>1. \A m \in Members : /\ errors[m] = <<>> => errors'[m] = <<>>
                           /\ wins[m] = <<>> => wins'[m] = <<>>
    BY <1>2, NothingToPrune, Zenon DEF Tick
  <2>2. /\ errors' = [m \in Members |-> errors'[m]]
        /\ wins' = [m \in Members |-> wins'[m]]
    BY <1>2, Zenon DEF Tick
  <2> QED
    BY <1>2, <2>1, <2>2, Zenon DEF Tick, FreshInv, AmnestyHolds
<1>3. CASE Reset
  <2>1. /\ sel' \in [Queries -> SelType]
        /\ \A q \in Queries : /\ sel'[q].target = sel[q].target
                              /\ sel'[q].election = sel[q].election
                              /\ ~sel'[q].fresh
    BY <1>3, ResetSelections, Zenon DEF ShapeInv
  <2>2. AmnestyHolds'
    BY <1>3, MemberAssumption, Zenon DEF Reset, AmnestyHolds
  <2>3. /\ errors' = [m \in Members |-> errors'[m]]
        /\ wins' = [m \in Members |-> wins'[m]]
    BY <1>3, Zenon DEF Reset
  <2> QED
    BY <2>1, <2>2, <2>3, Zenon DEF FreshInv
<1>4. ASSUME NEW q \in Queries, SelectSingle(q) PROVE FreshInv'
  BY <1>4 DEF SelectSingle, ShapeInv, SinglePCs, FreshInv, AmnestyHolds, SelType, NoSel
<1>5. ASSUME NEW q \in Queries, SelectFan(q) PROVE FreshInv'
  BY <1>5, Zenon DEF SelectFan, Fan, ShapeInv, SinglePCs, FreshInv, AmnestyHolds, SelType, NoSel
<1>6. ASSUME NEW q \in Queries, SetTarget(q) PROVE FreshInv'
  BY <1>6 DEF SetTarget, setCurrent, ShapeInv, SinglePCs, FreshInv, AmnestyHolds, SelType,
     NoSel
<1>7. ASSUME NEW q \in Queries, SingleSucceeds(q) PROVE FreshInv'
  BY <1>7, Zenon DEF SingleSucceeds, noteSuccess, ShapeInv, SinglePCs, FreshInv, AmnestyHolds,
         SelType, NoSel
<1>8. ASSUME NEW q \in Queries, SingleFails(q) PROVE FreshInv'
  <2>1. sel[q].target \in Members /\ col[q] = "off"
    BY <1>8, Zenon DEF SingleFails, ShapeInv, SinglePCs
  <2>2. AmnestyHolds' /\ (errors' = [m \in Members |-> errors'[m]])
        /\ (wins' = [m \in Members |-> wins'[m]])
    BY <1>8, <2>1, Zenon DEF SingleFails, noteError, FreshInv, AmnestyHolds, SinglePCs
  <2>3. CASE pc[q] = "survival"
    BY <1>8, <2>1, <2>2, <2>3 DEF SingleFails, FreshInv, ShapeInv, SinglePCs, NoSel
  <2>4. CASE pc[q] # "survival"
    BY <1>8, <2>1, <2>2, <2>4, Zenon DEF SingleFails, FreshInv, ShapeInv, SinglePCs
  <2> QED
    BY <2>3, <2>4, Zenon
<1>9. ASSUME NEW q \in Queries, Rescue(q) PROVE FreshInv'
  <2> DEFINE rescuers == Clean \ {sel[q].target}
  <2>1. UNCHANGED tables
    BY <1>9, Zenon DEF Rescue
  <2>2. CASE rescuers = {}
    BY <1>9, <2>1, <2>2 DEF Rescue, FreshInv, AmnestyHolds, ShapeInv, SinglePCs, NoSel
  <2>3. CASE rescuers # {}
    <3>1. /\ Fan(q, rescuers) /\ UNCHANGED sel
          /\ probed' = IF sel[q].fresh THEN probed \cup rescuers ELSE probed
      BY <1>9, <2>3, Zenon DEF Rescue
    <3> HIDE DEF rescuers
    <3>2. probed \subseteq probed' /\ (sel[q].fresh => rescuers \subseteq probed')
      BY <3>1, Zenon
    <3> QED
      BY <2>1, <3>1, <3>2 DEF Fan, FreshInv, AmnestyHolds, ShapeInv, SinglePCs
  <2> QED
    BY <2>2, <2>3, Zenon
<1>10. ASSUME NEW q \in Queries, FanReturns(q) PROVE FreshInv'
  BY <1>10, Zenon DEF FanReturns, ShapeInv, SinglePCs, FreshInv, AmnestyHolds, SelType, NoSel
<1>11. ASSUME NEW q \in Queries, CtxEnds(q) PROVE FreshInv'
  BY <1>11, Zenon DEF CtxEnds, ShapeInv, SinglePCs, FreshInv, AmnestyHolds, SelType, NoSel
<1>12. ASSUME NEW q \in Queries, CollectFailure(q) PROVE FreshInv'
  BY <1>12 DEF CollectFailure, noteError, ShapeInv, SinglePCs, FreshInv, AmnestyHolds,
     SelType, NoSel
<1>13. ASSUME NEW q \in Queries, CollectSuccess(q) PROVE FreshInv'
  BY <1>13 DEF CollectSuccess, noteSuccess, ShapeInv, SinglePCs, FreshInv, AmnestyHolds,
     SelType, NoSel
<1>14. ASSUME NEW q \in Queries, FirstSuccess(q) PROVE FreshInv'
  <2>1. CASE ctx[q] /\ ~delivered[q]
    <3>1. /\ AmnestyHolds' /\ (wins' = [m \in Members |-> wins'[m]])
      BY <1>14, <2>1 DEF FirstSuccess, noteWin, FreshInv, AmnestyHolds, ShapeInv
    <3> QED
      BY <1>14, <2>1, <3>1 DEF FirstSuccess, FreshInv, ShapeInv, SinglePCs
  <2>2. CASE ~(ctx[q] /\ ~delivered[q])
    BY <1>14, <2>2 DEF FirstSuccess, FreshInv, AmnestyHolds, ShapeInv, SinglePCs
  <2> QED
    BY <2>1, <2>2, Zenon
<1>15. ASSUME NEW q \in Queries, StickWinner(q) PROVE FreshInv'
  BY <1>15 DEF StickWinner, setCurrent, ShapeInv, SinglePCs, FreshInv, AmnestyHolds, SelType,
     NoSel
<1>16. ASSUME NEW q \in Queries, SendWinner(q) PROVE FreshInv'
  BY <1>16, Zenon DEF SendWinner, ShapeInv, SinglePCs, FreshInv, AmnestyHolds, SelType, NoSel
<1>17. ASSUME NEW q \in Queries, LastParticipant(q) PROVE FreshInv'
  <2>1. CASE delivered[q]
    BY <1>17, <2>1 DEF LastParticipant, CollectorEnds, NoSel, FreshInv, AmnestyHolds,
       ShapeInv, SinglePCs
  <2>2. CASE ~delivered[q]
    BY <1>17, <2>2 DEF LastParticipant, FreshInv, AmnestyHolds, ShapeInv, SinglePCs
  <2> QED
    BY <2>1, <2>2, Zenon
<1>18. ASSUME NEW q \in Queries, SendFailure(q) PROVE FreshInv'
  BY <1>18, Zenon DEF SendFailure, CollectorEnds, ShapeInv, SinglePCs, FreshInv, AmnestyHolds,
         SelType, NoSel
<1>19. CASE UNCHANGED vars
  BY <1>19, Zenon DEF vars, ShapeInv, SinglePCs, FreshInv, AmnestyHolds, SelType, NoSel
<1> QED
  BY <1>1, <1>2, <1>3, <1>4, <1>5, <1>6, <1>7, <1>8, <1>9, <1>10, <1>11, <1>12, <1>13, <1>14,
     <1>15, <1>16, <1>17, <1>18, <1>19
     DEF Next, Exchange, collectFan

(* No step leaves its mode. *)
LEMMA ModeStep ==
    ASSUME ShapeInv, FreshInv, ModeInv, [Next]_vars
    PROVE  ModeInv'
<1> USE DEF tables, collector
<1>0. UNCHANGED mode
  BY Zenon DEF Next, vars
<1> USE <1>0
<1>1. ASSUME NEW m \in Members, Start(m) PROVE ModeInv'
  BY <1>1, Zenon DEF Start, ShapeInv, SinglePCs, ModeInv, ModeRecords
<1>2. CASE Tick
  <2>1. \A m \in Members : wins[m] = <<>> => wins'[m] = <<>>
    BY <1>2, NothingToPrune, Zenon DEF Tick
  <2> QED
    BY <1>2, <2>1, Zenon DEF Tick, ModeInv, ModeRecords
<1>3. CASE Reset
  BY <1>3, Zenon DEF Reset, ShapeInv, SinglePCs, ModeInv, ModeRecords
<1>4. ASSUME NEW q \in Queries, SelectSingle(q) PROVE ModeInv'
  BY <1>4, Zenon DEF SelectSingle, ShapeInv, SinglePCs, ModeInv, ModeRecords
<1>5. ASSUME NEW q \in Queries, SelectFan(q) PROVE ModeInv'
  BY <1>5, Zenon DEF SelectFan, Fan, ShapeInv, SinglePCs, ModeInv, ModeRecords
<1>6. ASSUME NEW q \in Queries, SetTarget(q) PROVE ModeInv'
  BY <1>6, Zenon DEF SetTarget, setCurrent, ShapeInv, SinglePCs, ModeInv, ModeRecords
<1>7. ASSUME NEW q \in Queries, SingleSucceeds(q) PROVE ModeInv'
  BY <1>7, Zenon DEF SingleSucceeds, noteSuccess, ShapeInv, SinglePCs, ModeInv, ModeRecords
<1>8. ASSUME NEW q \in Queries, SingleFails(q) PROVE ModeInv'
  <2>1. \A m \in Members : wins[m] = <<>> => wins'[m] = <<>>
    BY <1>8, Zenon DEF SingleFails, noteError, FreshInv
  <2>2. UNCHANGED <<current, col>> /\ pc' \in {[pc EXCEPT ![q] = "idle"], [pc EXCEPT ![q] = "rescue"]}
    BY <1>8, Zenon DEF SingleFails
  <2> QED
    BY <2>1, <2>2, Zenon DEF ModeInv, ModeRecords, ShapeInv
<1>9. ASSUME NEW q \in Queries, Rescue(q) PROVE ModeInv'
  BY <1>9 DEF Rescue, Fan, ShapeInv, SinglePCs, ModeInv, ModeRecords
<1>10. ASSUME NEW q \in Queries, FanReturns(q) PROVE ModeInv'
  BY <1>10, Zenon DEF FanReturns, ShapeInv, SinglePCs, ModeInv, ModeRecords
<1>11. ASSUME NEW q \in Queries, CtxEnds(q) PROVE ModeInv'
  BY <1>11, Zenon DEF CtxEnds, ShapeInv, SinglePCs, ModeInv, ModeRecords
<1>12. ASSUME NEW q \in Queries, CollectFailure(q) PROVE ModeInv'
  <2>1. \A m \in Members : wins[m] = <<>> => wins'[m] = <<>>
    BY <1>12, Zenon DEF CollectFailure, noteError, FreshInv
  <2>2. UNCHANGED <<current, col, pc>>
    BY <1>12, Zenon DEF CollectFailure
  <2> QED
    BY <2>1, <2>2, Zenon DEF ModeInv, ModeRecords
<1>13. ASSUME NEW q \in Queries, CollectSuccess(q) PROVE ModeInv'
  BY <1>13, Zenon DEF CollectSuccess, noteSuccess, ShapeInv, SinglePCs, ModeInv, ModeRecords
<1>14. ASSUME NEW q \in Queries, FirstSuccess(q) PROVE ModeInv'
  BY <1>14, Zenon DEF FirstSuccess, noteWin, ShapeInv, SinglePCs, ModeInv, ModeRecords
<1>15. ASSUME NEW q \in Queries, StickWinner(q) PROVE ModeInv'
  BY <1>15, Zenon DEF StickWinner, setCurrent, ShapeInv, SinglePCs, ModeInv, ModeRecords
<1>16. ASSUME NEW q \in Queries, SendWinner(q) PROVE ModeInv'
  BY <1>16, Zenon DEF SendWinner, ShapeInv, SinglePCs, ModeInv, ModeRecords
<1>17. ASSUME NEW q \in Queries, LastParticipant(q) PROVE ModeInv'
  BY <1>17, Zenon DEF LastParticipant, CollectorEnds, ShapeInv, SinglePCs, ModeInv, ModeRecords
<1>18. ASSUME NEW q \in Queries, SendFailure(q) PROVE ModeInv'
  BY <1>18, Zenon DEF SendFailure, CollectorEnds, ShapeInv, SinglePCs, ModeInv, ModeRecords
<1>19. CASE UNCHANGED vars
  BY <1>19, Zenon DEF vars, ShapeInv, SinglePCs, ModeInv, ModeRecords
<1> QED
  BY <1>1, <1>2, <1>3, <1>4, <1>5, <1>6, <1>7, <1>8, <1>9, <1>10, <1>11, <1>12, <1>13, <1>14,
     <1>15, <1>16, <1>17, <1>18, <1>19
     DEF Next, Exchange, collectFan

-----------------------------------------------------------------------------
(* The invariants hold together. *)
THEOREM GroupInvariant == Spec => [](ShapeInv /\ OwnInv /\ FreshInv /\ ModeInv)
<1>1. Init => ShapeInv /\ OwnInv /\ FreshInv /\ ModeInv
  <2> SUFFICES ASSUME Init PROVE ShapeInv /\ OwnInv /\ FreshInv /\ ModeInv
    BY Zenon
  <2>1. ShapeInv
    BY Zenon DEF Init, ShapeInv, SinglePCs, NoSel, SelType
  <2>2. OwnInv
    BY Zenon DEF Init, OwnInv, ElectionOwned, Elects
  <2>3. FreshInv
    <3>1. /\ errors = [m \in Members |-> errors[m]]
          /\ wins = [m \in Members |-> wins[m]]
      BY Zenon DEF Init
    <3>2. AmnestyHolds
      BY MemberAssumption, Zenon DEF Init, AmnestyHolds
    <3> QED
      BY <3>1, <3>2, Zenon DEF Init, FreshInv, NoSel
  <2>4. ModeInv
    BY Zenon DEF Init, ModeInv, ModeRecords
  <2> QED
    BY <2>1, <2>2, <2>3, <2>4, Zenon
<1>2. ShapeInv /\ OwnInv /\ FreshInv /\ ModeInv /\ [Next]_vars
         => (ShapeInv /\ OwnInv /\ FreshInv /\ ModeInv)'
  BY ShapeStep, OwnStep, FreshStep, ModeStep, Zenon
<1> QED
  BY <1>1, <1>2, PTL DEF Spec

(* selectTarget opens an election only when the flag is down, and the last *)
(* participant of that fan, nobody else, takes it down: for any number of  *)
(* concurrent queries.                                                     *)
THEOREM SingleFlight == Spec => []ElectionOwned
<1>1. OwnInv => ElectionOwned
  BY Zenon DEF OwnInv
<1> QED
  BY <1>1, GroupInvariant, PTL

(* The comparison of generations in noteError, noteSuccess, noteWin and    *)
(* setCurrent makes Reset an amnesty.                                      *)
THEOREM ResetIsAmnesty == Spec => []AmnestyHolds
<1>1. FreshInv => AmnestyHolds
  BY Zenon DEF FreshInv
<1> QED
  BY <1>1, GroupInvariant, PTL

(* Parallel groups have no current server; only fastest groups have wins.  *)
THEOREM ModesKeepToTheirRecords == Spec => []ModeRecords
<1>1. ModeInv => ModeRecords
  BY Zenon DEF ModeInv
<1> QED
  BY <1>1, GroupInvariant, PTL

-----------------------------------------------------------------------------
(* Every set of numbers that is not empty has a least one: induction. *)
LEMMA LeastNumber ==
    ASSUME NEW T \in SUBSET Nat, T # {}
    PROVE  \E m \in T : \A n \in T : m <= n
<1>1. PICK m \in T : \A n \in T : ~ (<<n, m>> \in OpToRel(<, Nat))
  BY NatLessThanWellFounded, WFMin, Zenon
<1>2. \A n \in T : ~(n < m)
  BY <1>1, Zenon DEF OpToRel
<1> QED
  BY <1>2

(* What a record holds: at most MaxRecords ages, all below the time to     *)
(* live, oldest first.                                                     *)
Live(times, ttl) ==
    /\ times \in Seq(0..(ttl - 1))
    /\ Len(times) <= MaxRecords
    /\ \A i, j \in 1..Len(times) : i <= j => times[j] <= times[i]

(* A server without records. *)
LEMMA NoRecordsLive ==
    ASSUME NEW ttl \in Nat \ {0}
    PROVE  Live(<<>>, ttl)
BY TTLAssumption DEF Live

(* Any consecutive part of a record is one. *)
LEMMA PartLive ==
    ASSUME NEW ttl \in Nat \ {0}, NEW times \in Seq(Nat), NEW first \in 1..(Len(times) + 1),
           \A i \in first..Len(times) : times[i] <= ttl - 1,
           Len(times) - first + 1 <= MaxRecords,
           \A i, j \in 1..Len(times) : i <= j => times[j] <= times[i]
    PROVE  Live(SubSeq(times, first, Len(times)), ttl)
<1> DEFINE part == SubSeq(times, first, Len(times))
<1>1. Len(times) \in Nat /\ times \in [1..Len(times) -> Nat]
  BY LenProperties, Zenon
<1>2. \A i \in first..Len(times) : times[i] \in 0..(ttl - 1)
  BY <1>1
<1>3. first \in Int /\ Len(times) \in Int
  BY <1>1
<1>4. /\ part \in Seq(0..(ttl - 1))
      /\ Len(part) = IF first <= Len(times) THEN Len(times) - first + 1 ELSE 0
      /\ \A i \in 1..(Len(times) - first + 1) : part[i] = times[first + i - 1]
  BY <1>2, <1>3, SubSeqProperties
<1> HIDE DEF part
<1>5. Len(part) <= MaxRecords
  BY <1>4, <1>1, TTLAssumption
<1>6. \A i, j \in 1..Len(part) : i <= j => part[j] <= part[i]
  <2> SUFFICES ASSUME NEW i \in 1..Len(part), NEW j \in 1..Len(part), i <= j
               PROVE  part[j] <= part[i]
    BY Zenon
  <2>1. first + i - 1 \in 1..Len(times) /\ first + j - 1 \in 1..Len(times)
        /\ first + i - 1 <= first + j - 1
    BY <1>4, <1>1
  <2>2. part[i] = times[first + i - 1] /\ part[j] = times[first + j - 1]
    BY <1>4, <1>1
  <2>3. times[first + j - 1] <= times[first + i - 1]
    BY <2>1, Zenon
  <2> QED
    BY <2>2, <2>3
<1> QED
  BY <1>4, <1>5, <1>6, Zenon DEF Live, part

(* pruneTimes after a tick: the records that reached their time to live    *)
(* are the first ones, and they are what it drops.                         *)
LEMMA TickLive ==
    ASSUME NEW ttl \in Nat \ {0}, NEW times, Live(times, ttl)
    PROVE  Live(pruneTimes(Older(times), ttl), ttl)
<1> DEFINE aged == Older(times)
           n == Len(times)
<1>1. n \in Nat /\ times \in [1..n -> 0..(ttl - 1)] /\ n <= MaxRecords
  BY LenProperties, Zenon DEF Live
<1>2. aged \in Seq(Nat) /\ Len(aged) = n /\ aged \in [1..n -> 1..ttl]
      /\ \A i \in 1..n : aged[i] = times[i] + 1
  BY <1>1 DEF Older
<1>3. \A i, j \in 1..n : i <= j => aged[j] <= aged[i]
  BY <1>1, <1>2 DEF Live
<1> HIDE DEF aged, n
<1> DEFINE Cut(i) == /\ \A j \in 1..(i - 1) : aged[j] >= ttl
                     /\ i <= Len(aged) => aged[i] < ttl
           first == CHOOSE i \in 1..(Len(aged) + 1) : Cut(i)
<1>4. \E i \in 1..(Len(aged) + 1) : Cut(i)
  <2> DEFINE Fresh == {i \in 1..n : aged[i] < ttl}
  <2>1. CASE Fresh = {}
    <3>1. \A j \in 1..n : aged[j] >= ttl
      BY <2>1, <1>1, <1>2
    <3>2. Cut(n + 1)
      BY <3>1, <1>1, <1>2
    <3> QED
      BY <3>2, <1>1, <1>2
  <2>2. CASE Fresh # {}
    <3>1. Fresh \in SUBSET Nat
      BY <1>1
    <3>2. PICK m \in Fresh : \A k \in Fresh : m <= k
      BY <3>1, <2>2, LeastNumber, Zenon
    <3>3. \A j \in 1..(m - 1) : aged[j] >= ttl
      BY <3>2, <1>1, <1>2
    <3>4. Cut(m) /\ m \in 1..(Len(aged) + 1)
      BY <3>2, <3>3, <1>1, <1>2
    <3> QED
      BY <3>4, Zenon
  <2> QED
    BY <2>1, <2>2, Zenon
<1>5. first \in 1..(Len(aged) + 1) /\ Cut(first)
  BY <1>4, Zenon
<1>6. pruneTimes(aged, ttl) = SubSeq(aged, first, Len(aged))
  BY Zenon DEF pruneTimes
<1> HIDE DEF first
<1>7. \A i \in first..Len(aged) : aged[i] <= ttl - 1
  BY <1>1, <1>2, <1>3, <1>5
<1>8. Len(aged) - first + 1 <= MaxRecords
  BY <1>1, <1>2, <1>5, TTLAssumption
<1> HIDE DEF Cut
<1>9. Live(SubSeq(aged, first, Len(aged)), ttl)
  BY <1>2, <1>3, <1>5, <1>7, <1>8, PartLive
<1> QED
  BY <1>6, <1>9, Zenon DEF aged

(* appendCapped: the newest record goes last and the oldest makes room. *)
LEMMA AppendLive ==
    ASSUME NEW ttl \in Nat \ {0}, NEW times, Live(times, ttl)
    PROVE  Live(appendCapped(times, 0), ttl)
<1> DEFINE all == Append(times, 0)
           n == Len(times)
<1>1. n \in Nat /\ times \in [1..n -> 0..(ttl - 1)] /\ n <= MaxRecords /\ times \in Seq(0..(ttl - 1))
  BY LenProperties, Zenon DEF Live
<1>2. 0 \in 0..(ttl - 1)
  OBVIOUS
<1>3. /\ all \in Seq(0..(ttl - 1)) /\ Len(all) = n + 1
      /\ \A i \in 1..n : all[i] = times[i]
      /\ all[n + 1] = 0
  BY <1>1, <1>2, AppendProperties
<1> HIDE DEF all, n
<1>4. all \in [1..(n + 1) -> 0..(ttl - 1)]
  BY <1>3, LenProperties, Zenon
<1>5. \A i, j \in 1..Len(all) : i <= j => all[j] <= all[i]
  <2> SUFFICES ASSUME NEW i \in 1..Len(all), NEW j \in 1..Len(all), i <= j
               PROVE  all[j] <= all[i]
    BY Zenon
  <2>1. CASE j = n + 1
    BY <2>1, <1>1, <1>3, <1>4
  <2>2. CASE j # n + 1
    <3>1. i \in 1..n /\ j \in 1..n
      BY <2>2, <1>1, <1>3
    <3>2. times[j] <= times[i]
      BY <3>1, Zenon DEF Live, n
    <3> QED
      BY <3>1, <3>2, <1>3
  <2> QED
    BY <2>1, <2>2, Zenon
<1>6. appendCapped(times, 0) = IF Len(all) > MaxRecords
                               THEN SubSeq(all, Len(all) - MaxRecords + 1, Len(all)) ELSE all
  BY Zenon DEF appendCapped, all
<1>7. CASE Len(all) > MaxRecords
  <2> DEFINE first == Len(all) - MaxRecords + 1
  <2>1. first \in 1..(Len(all) + 1) /\ Len(all) - first + 1 <= MaxRecords
    BY <1>7, <1>1, <1>3, TTLAssumption
  <2> HIDE DEF first
  <2>2. all \in Seq(Nat)
    BY <1>1, <1>3, <1>4
  <2>3. \A i \in first..Len(all) : all[i] <= ttl - 1
    BY <2>1, <1>1, <1>3, <1>4
  <2>4. Live(SubSeq(all, first, Len(all)), ttl)
    BY <2>1, <2>2, <2>3, <1>5, PartLive
  <2> QED
    BY <1>6, <1>7, <2>4, Zenon DEF first
<1>8. CASE ~(Len(all) > MaxRecords)
  <2>1. Len(all) <= MaxRecords
    BY <1>8, <1>1, <1>3, TTLAssumption
  <2> QED
    BY <1>6, <1>8, <2>1, <1>3, <1>5, Zenon DEF Live
<1> QED
  BY <1>7, <1>8, Zenon

(* Every server's records are live, and they are functions of the servers. *)
RecordsLive ==
    /\ errors = [m \in Members |-> errors[m]] /\ wins = [m \in Members |-> wins[m]]
    /\ \A m \in Members : Live(errors[m], ErrorTTL) /\ Live(wins[m], WinTTL)

(* noteError appends to the errors and erases the wins. *)
LEMMA ErrorLive ==
    ASSUME RecordsLive, NEW q \in Queries, NEW m \in Members, noteError(q, m)
    PROVE  RecordsLive'
<1>1. Live(appendCapped(errors[m], 0), ErrorTTL) /\ Live(<<>>, WinTTL)
  BY AppendLive, NoRecordsLive, TTLAssumption, Zenon DEF RecordsLive
<1> QED
  BY <1>1, Zenon DEF noteError, RecordsLive

(* noteSuccess erases the errors. *)
LEMMA SuccessLive ==
    ASSUME RecordsLive, NEW q \in Queries, NEW m \in Members, noteSuccess(q, m), UNCHANGED wins
    PROVE  RecordsLive'
<1>1. Live(<<>>, ErrorTTL)
  BY NoRecordsLive, TTLAssumption, Zenon
<1> QED
  BY <1>1, Zenon DEF noteSuccess, RecordsLive

(* noteWin appends to the wins. *)
LEMMA WinLive ==
    ASSUME RecordsLive, NEW q \in Queries, NEW m \in Members, noteWin(q, m), UNCHANGED errors
    PROVE  RecordsLive'
<1>1. Live(appendCapped(wins[m], 0), WinTTL)
  BY AppendLive, TTLAssumption, Zenon DEF RecordsLive
<1> QED
  BY <1>1, Zenon DEF noteWin, RecordsLive

(* No step leaves a record that is dead, too long or out of order. *)
LEMMA RecordsStep ==
    ASSUME ShapeInv, RecordsLive, [Next]_vars
    PROVE  RecordsLive'
<1> USE DEF tables, collector
<1>1. ASSUME NEW m \in Members, Start(m) PROVE RecordsLive'
  BY <1>1, Zenon DEF Start, RecordsLive
<1>2. CASE Tick
  <2>1. \A m \in Members : /\ Live(pruneTimes(Older(errors[m]), ErrorTTL), ErrorTTL)
                            /\ Live(pruneTimes(Older(wins[m]), WinTTL), WinTTL)
    BY TickLive, TTLAssumption, Zenon DEF RecordsLive
  <2> QED
    BY <1>2, <2>1, Zenon DEF Tick, RecordsLive
<1>3. CASE Reset
  BY <1>3, NoRecordsLive, TTLAssumption, Zenon DEF Reset, RecordsLive
<1>4. ASSUME NEW q \in Queries, SelectSingle(q) PROVE RecordsLive'
  BY <1>4, Zenon DEF SelectSingle, RecordsLive
<1>5. ASSUME NEW q \in Queries, SelectFan(q) PROVE RecordsLive'
  BY <1>5, Zenon DEF SelectFan, Fan, RecordsLive
<1>6. ASSUME NEW q \in Queries, SetTarget(q) PROVE RecordsLive'
  BY <1>6, Zenon DEF SetTarget, setCurrent, RecordsLive
<1>7. ASSUME NEW q \in Queries, SingleSucceeds(q) PROVE RecordsLive'
  <2>1. sel[q].target \in Members
    BY <1>7, Zenon DEF SingleSucceeds, ShapeInv, SinglePCs
  <2>2. noteSuccess(q, sel[q].target) /\ UNCHANGED wins
    BY <1>7, Zenon DEF SingleSucceeds
  <2> QED
    BY <2>1, <2>2, SuccessLive, Zenon
<1>8. ASSUME NEW q \in Queries, SingleFails(q) PROVE RecordsLive'
  <2>1. sel[q].target \in Members
    BY <1>8, Zenon DEF SingleFails, ShapeInv, SinglePCs
  <2>2. noteError(q, sel[q].target)
    BY <1>8, Zenon DEF SingleFails
  <2> QED
    BY <2>1, <2>2, ErrorLive, Zenon
<1>9. ASSUME NEW q \in Queries, Rescue(q) PROVE RecordsLive'
  BY <1>9, Zenon DEF Rescue, Fan, RecordsLive
<1>10. ASSUME NEW q \in Queries, FanReturns(q) PROVE RecordsLive'
  BY <1>10, Zenon DEF FanReturns, RecordsLive
<1>11. ASSUME NEW q \in Queries, CtxEnds(q) PROVE RecordsLive'
  BY <1>11, Zenon DEF CtxEnds, RecordsLive
<1>12. ASSUME NEW q \in Queries, CollectFailure(q) PROVE RecordsLive'
  <2>1. \/ \E m \in Members : noteError(q, m)
        \/ UNCHANGED <<errors, wins>>
    BY <1>12, Zenon DEF CollectFailure, ShapeInv
  <2>2. CASE \E m \in Members : noteError(q, m)
    BY <2>2, ErrorLive, Zenon
  <2>3. CASE UNCHANGED <<errors, wins>>
    BY <2>3, Zenon DEF RecordsLive
  <2> QED
    BY <2>1, <2>2, <2>3, Zenon
<1>13. ASSUME NEW q \in Queries, CollectSuccess(q) PROVE RecordsLive'
  <2>1. UNCHANGED wins /\ \E m \in Members : noteSuccess(q, m)
    BY <1>13, Zenon DEF CollectSuccess, ShapeInv
  <2> QED
    BY <2>1, SuccessLive, Zenon
<1>14. ASSUME NEW q \in Queries, FirstSuccess(q) PROVE RecordsLive'
  <2>1. UNCHANGED errors /\ (UNCHANGED wins \/ noteWin(q, got[q]))
    BY <1>14, Zenon DEF FirstSuccess
  <2>2. got[q] \in Members
    BY <1>14, Zenon DEF FirstSuccess, ShapeInv
  <2>3. CASE UNCHANGED wins
    BY <2>1, <2>3, Zenon DEF RecordsLive
  <2>4. CASE noteWin(q, got[q])
    BY <2>1, <2>2, <2>4, WinLive, Zenon
  <2> QED
    BY <2>1, <2>3, <2>4, Zenon
<1>15. ASSUME NEW q \in Queries, StickWinner(q) PROVE RecordsLive'
  BY <1>15, Zenon DEF StickWinner, setCurrent, RecordsLive
<1>16. ASSUME NEW q \in Queries, SendWinner(q) PROVE RecordsLive'
  BY <1>16, Zenon DEF SendWinner, RecordsLive
<1>17. ASSUME NEW q \in Queries, LastParticipant(q) PROVE RecordsLive'
  BY <1>17, Zenon DEF LastParticipant, CollectorEnds, RecordsLive
<1>18. ASSUME NEW q \in Queries, SendFailure(q) PROVE RecordsLive'
  BY <1>18, Zenon DEF SendFailure, CollectorEnds, RecordsLive
<1>19. CASE UNCHANGED vars
  BY <1>19, Zenon DEF vars, RecordsLive
<1> QED
  BY <1>1, <1>2, <1>3, <1>4, <1>5, <1>6, <1>7, <1>8, <1>9, <1>10, <1>11, <1>12, <1>13, <1>14,
     <1>15, <1>16, <1>17, <1>18, <1>19, Zenon DEF Next, Exchange, collectFan

(* The rest of the types: only servers that Start has appended are asked,  *)
(* and only servers become the current one.                                *)
RestInv ==
    /\ mode \in Modes
    /\ probed \subseteq members
    /\ current \in Members \cup {NoMember}
    /\ ctx \in [Queries -> BOOLEAN]
    /\ delivered \in [Queries -> BOOLEAN]
    /\ winnerCh \in [Queries -> {"empty", "answer", "failure"}]

(* Every step keeps them. *)
LEMMA RestStep ==
    ASSUME ShapeInv, RestInv, [Next]_vars
    PROVE  RestInv'
<1> USE DEF tables, collector
<1> SUFFICES ASSUME Next PROVE RestInv'
  BY Zenon DEF vars, RestInv
<1>0. mode' \in Modes
  BY Zenon DEF Next, RestInv
<1>1. ASSUME NEW m \in Members, Start(m) PROVE RestInv'
  BY <1>0, <1>1, Zenon DEF Start, RestInv, ShapeInv, SinglePCs, Clean
<1>2. CASE Tick
  BY <1>0, <1>2, Zenon DEF Tick, RestInv, ShapeInv, SinglePCs, Clean
<1>3. CASE Reset
  BY <1>0, <1>3, Zenon DEF Reset, RestInv, ShapeInv, SinglePCs, Clean
<1>4. ASSUME NEW q \in Queries, SelectSingle(q) PROVE RestInv'
  BY <1>0, <1>4, Zenon DEF SelectSingle, RestInv, ShapeInv, SinglePCs, Clean
<1>5. ASSUME NEW q \in Queries, SelectFan(q) PROVE RestInv'
  BY <1>0, <1>5, Zenon DEF SelectFan, Fan, RestInv, ShapeInv, SinglePCs, Clean
<1>6. ASSUME NEW q \in Queries, SetTarget(q) PROVE RestInv'
  BY <1>0, <1>6, Zenon DEF SetTarget, setCurrent, RestInv, ShapeInv, SinglePCs, Clean
<1>7. ASSUME NEW q \in Queries, SingleSucceeds(q) PROVE RestInv'
  BY <1>0, <1>7, Zenon DEF SingleSucceeds, RestInv, ShapeInv, SinglePCs, Clean
<1>8. ASSUME NEW q \in Queries, SingleFails(q) PROVE RestInv'
  BY <1>0, <1>8, Zenon DEF SingleFails, RestInv, ShapeInv, SinglePCs, Clean
<1>9. ASSUME NEW q \in Queries, Rescue(q) PROVE RestInv'
  BY <1>0, <1>9, Zenon DEF Rescue, Fan, RestInv, ShapeInv, SinglePCs, Clean
<1>10. ASSUME NEW q \in Queries, FanReturns(q) PROVE RestInv'
  BY <1>0, <1>10, Zenon DEF FanReturns, RestInv, ShapeInv, SinglePCs, Clean
<1>11. ASSUME NEW q \in Queries, CtxEnds(q) PROVE RestInv'
  BY <1>0, <1>11, Zenon DEF CtxEnds, RestInv, ShapeInv, SinglePCs, Clean
<1>12. ASSUME NEW q \in Queries, CollectFailure(q) PROVE RestInv'
  BY <1>0, <1>12, Zenon DEF CollectFailure, RestInv, ShapeInv, SinglePCs, Clean
<1>13. ASSUME NEW q \in Queries, CollectSuccess(q) PROVE RestInv'
  BY <1>0, <1>13, Zenon DEF CollectSuccess, RestInv, ShapeInv, SinglePCs, Clean
<1>14. ASSUME NEW q \in Queries, FirstSuccess(q) PROVE RestInv'
  BY <1>0, <1>14, Zenon DEF FirstSuccess, RestInv, ShapeInv, SinglePCs, Clean
<1>15. ASSUME NEW q \in Queries, StickWinner(q) PROVE RestInv'
  BY <1>0, <1>15, Zenon DEF StickWinner, setCurrent, RestInv, ShapeInv, SinglePCs, Clean
<1>16. ASSUME NEW q \in Queries, SendWinner(q) PROVE RestInv'
  BY <1>0, <1>16, Zenon DEF SendWinner, RestInv, ShapeInv, SinglePCs, Clean
<1>17. ASSUME NEW q \in Queries, LastParticipant(q) PROVE RestInv'
  BY <1>0, <1>17, Zenon DEF LastParticipant, CollectorEnds, RestInv, ShapeInv, SinglePCs, Clean
<1>18. ASSUME NEW q \in Queries, SendFailure(q) PROVE RestInv'
  BY <1>0, <1>18, Zenon DEF SendFailure, CollectorEnds, RestInv, ShapeInv, SinglePCs, Clean
<1>19. CASE UNCHANGED vars
  BY <1>0, <1>19, Zenon DEF vars, RestInv, ShapeInv, SinglePCs, Clean
<1> QED
  BY <1>0, <1>1, <1>2, <1>3, <1>4, <1>5, <1>6, <1>7, <1>8, <1>9, <1>10, <1>11, <1>12, <1>13, <1>14,
     <1>15, <1>16, <1>17, <1>18, <1>19, Zenon DEF Next, Exchange, collectFan

-----------------------------------------------------------------------------
(* For any servers, queries and times to live, the tables of GroupState    *)
(* hold at most MaxRecords records of each server, none of them dead: the  *)
(* prefix pruneTimes drops is all that died, because every record goes in  *)
(* last and new.  And the current server is one that Start has appended.   *)
THEOREM RecordsAreLive == Spec => []TypeOK
<1>1. Init => RecordsLive /\ RestInv
  <2> SUFFICES ASSUME Init PROVE RecordsLive /\ RestInv
    BY Zenon
  <2>1. RecordsLive
    BY NoRecordsLive, TTLAssumption, Zenon DEF Init, RecordsLive
  <2>2. RestInv
    BY Zenon DEF Init, RestInv
  <2> QED
    BY <2>1, <2>2, Zenon
<1>2. ShapeInv /\ RecordsLive /\ RestInv /\ [Next]_vars => (RecordsLive /\ RestInv)'
  BY RecordsStep, RestStep, Zenon
<1>3. ShapeInv /\ OwnInv /\ FreshInv /\ RecordsLive /\ RestInv => TypeOK
  <2> SUFFICES ASSUME ShapeInv, OwnInv, FreshInv, RecordsLive, RestInv PROVE TypeOK
    BY Zenon
  <2>1. /\ errors \in [Members -> Seq(0..(ErrorTTL - 1))]
        /\ wins \in [Members -> Seq(0..(WinTTL - 1))]
        /\ \A m \in Members : Len(errors[m]) <= MaxRecords /\ Len(wins[m]) <= MaxRecords
    BY Zenon DEF RecordsLive, Live
  <2>2. current \in members \cup {NoMember}
    BY Zenon DEF FreshInv, AmnestyHolds, RestInv
  <2> QED
    BY <2>1, <2>2, Zenon DEF ShapeInv, SinglePCs, OwnInv, RestInv, TypeOK
<1> QED
  BY <1>1, <1>2, <1>3, GroupInvariant, PTL DEF Spec
=============================================================================
