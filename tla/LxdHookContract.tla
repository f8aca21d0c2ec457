-------------------------- MODULE LxdHookContract --------------------------
(***************************************************************************)
(* What lxd's code promises the administrator's hook scripts, whatever the *)
(* daemon does inside (src/lxd/hooks.go, apply.go; the scripts themselves  *)
(* are outside).                                                           *)
(*                                                                         *)
(* The daemon announces the boundaries of the core's life.  A start that   *)
(* passes the pre_start gate is answered by exactly one post_start or      *)
(* post_stop; a running core may be announced again by post_reload and     *)
(* ends with exactly one post_stop.  The process may die anywhere; what    *)
(* post_start or post_reload changed in the system is then undone by a     *)
(* post_stop before the next core is let through the gate.                 *)
(*                                                                         *)
(* A rollback inside an apply is no event of its own.  Over a running core *)
(* it is a post_reload, as docs-lx/lxd-daemon.md says; over none it is the *)
(* post_start that answers the gate, where that page says post_reload.     *)
(***************************************************************************)
EXTENDS Naturals

VARIABLES
    last,   \* the last event of this process, "none" before the first
    turn,   \* the number of scripts run so far, modulo 2: no run is a stutter
    dirty   \* post_start or post_reload ran and no post_stop since

Events == {"none", "refused", "pre_start", "post_start", "post_reload", "post_stop"}

Running == last \in {"post_start", "post_reload"}

Init == last = "none" /\ turn = 0 /\ dirty = FALSE

(* A script is run once. *)
Run(event, leaves) ==
    /\ last' = event /\ turn' = 1 - turn
    /\ dirty' = leaves

(* The gate before a start: the script lets it pass or refuses it. *)
PreStart ==
    /\ ~Running /\ last # "pre_start"
    /\ ~dirty
    /\ Run("pre_start", FALSE) \/ Run("refused", FALSE)

PostStart == last = "pre_start" /\ Run("post_start", TRUE)

PostReload == Running /\ Run("post_reload", TRUE)

(* The core is gone, or the start that passed the gate did not come up. *)
PostStop == (Running \/ last = "pre_start") /\ Run("post_stop", FALSE)

(* The process ends; a new one has announced nothing yet. *)
ProcessEnds == last' = "none" /\ UNCHANGED <<turn, dirty>>

(* A new process answers for the one that died, before anything else.      *)
Recover == last = "none" /\ Run("post_stop", FALSE)

(* With hooks switched off it cannot: the administrator restores the       *)
(* system by hand.                                                         *)
RestoredByHand == last = "none" /\ dirty' = FALSE /\ UNCHANGED <<last, turn>>

Next ==
    \/ PreStart \/ PostStart \/ PostReload \/ PostStop
    \/ ProcessEnds \/ Recover \/ RestoredByHand

Spec == Init /\ [][Next]_<<last, turn, dirty>>
=============================================================================
