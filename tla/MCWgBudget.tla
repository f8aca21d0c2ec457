----------------------------- MODULE MCWgBudget -----------------------------
(* Small instances of WgBudget. *)
EXTENDS WgBudget

CONSTANTS e1, e2, d1, d2

TwoEndpoints == {e1, e2}
TwoDials == {d1, d2}
Conf(lazy, max, overflow) == [lazy |-> lazy, max |-> max, overflow |-> overflow]
Caps == {Conf(FALSE, 1, "wait"), Conf(TRUE, 1, "wait"), Conf(TRUE, 1, "build")}
Eager == {Conf(FALSE, 1, "wait")}
=============================================================================
