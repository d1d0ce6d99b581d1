---------------------------- MODULE ThreatFeedMC ----------------------------
(* The threat feed with a day of four ticks. *)
EXTENDS ThreatFeed
=============================================================================
