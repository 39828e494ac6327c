-------------------------- MODULE MCHealthCooldown --------------------------
(* TLC instance of HealthCooldown: two goals. *)
EXTENDS HealthCooldown, TLC

CONSTANTS goal1, goal2
Goals == {goal1, goal2}
=============================================================================
