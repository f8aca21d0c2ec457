---------------------------- MODULE MCDnsGroup ----------------------------
(* Small instances of DnsGroup. *)
EXTENDS DnsGroup, TLC

CONSTANTS m1, m2, q1, q2

TwoMembers == {m1, m2}
TwoQueries == {q1, q2}

Symmetry == Permutations(Members) \cup Permutations(Queries)
=============================================================================
