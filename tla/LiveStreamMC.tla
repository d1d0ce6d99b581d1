---------------------------- MODULE LiveStreamMC ----------------------------
(* One browser with a few sockets. *)
EXTENDS LiveStream
=============================================================================
