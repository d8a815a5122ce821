----------------------------- MODULE MCTriggers -----------------------------
(* Instances of Triggers for TLC. *)
EXTENDS Triggers, TLC

CONSTANTS p1, p2, t1, e1, cron

\* The crontab fires twice, after which nothing is left to fire.
MCSlots == [c \in Crons |-> {1, 3}]
=============================================================================
