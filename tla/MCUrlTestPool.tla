--------------------------- MODULE MCUrlTestPool ---------------------------
(* Small instances of UrlTestPool. *)
EXTENDS UrlTestPool

Setup(nodes, pool, tolerance, delays, early) ==
    [outbounds |-> nodes, pool |-> pool, tolerance |-> tolerance, delays |-> delays,
     early |-> early]

(* Without a tolerance: enough nodes outside the pool for two batches, the  *)
(* second one incomplete.  With one: delays on both sides of it.  And an    *)
(* interface change before the group has started.                           *)
SmallSetups == {Setup(<<2, 1, 5, 4, 3>>, 2, 0, {1}, FALSE),
                Setup(<<2, 1, 3>>, 2, 1, {0, 1, 2}, FALSE),
                Setup(<<2, 1, 3>>, 2, 0, {1, 2}, TRUE)}
=============================================================================
