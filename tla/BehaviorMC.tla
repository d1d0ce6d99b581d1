----------------------------- MODULE BehaviorMC -----------------------------
(* One IP whose deque holds two events, and thresholds on both sides of it. *)
EXTENDS Behavior, TLC

DefaultSettings == [repeated_threshold |-> 2, escalation_delta |-> 1, cooldown_min |-> 1]
SmallLimits == [repeated_threshold |-> {1, 2, 3}, escalation_delta |-> {1}, cooldown_min |-> {1, 3}]
SmallPatches == [repeated_threshold : {1}] \cup [cooldown_min : {0, 3}]
=============================================================================
