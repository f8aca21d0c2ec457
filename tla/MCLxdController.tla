-------------------------- MODULE MCLxdController --------------------------
(* Small instances of LxdController. *)
EXTENDS LxdController, TLC

CONSTANTS k1, k2, k3, r1

TwoConfigs == {k1, k2}
ThreeConfigs == {k1, k2, k3}
OneResource == {r1}
NoResource == {}

(* k1 mentions the resource, k2 does not. *)
RefsOfK1 == [k \in {k1, k2, NoConfig} |-> IF k = k1 THEN {r1} ELSE {}]
NoRefs == [k \in Configs \cup {NoConfig} |-> {}]

Line(run, hooks, force, seed) == [run |-> run, hooks |-> hooks, force |-> force, seed |-> seed]

(* A bare daemon, one with a seed, one that is told to run, one that is    *)
(* told what to run, and one without hooks.                                *)
AllOptions ==
    {Line(FALSE, TRUE, NoConfig, NoConfig), Line(FALSE, TRUE, NoConfig, k1),
     Line(TRUE, TRUE, NoConfig, NoConfig), Line(FALSE, TRUE, k2, NoConfig),
     Line(FALSE, FALSE, NoConfig, NoConfig)}
=============================================================================
