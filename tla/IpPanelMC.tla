------------------------------ MODULE IpPanelMC ------------------------------
(* Two IPs, one place in the blocklist and in each cache. *)
EXTENDS IpPanel, TLC

EachKind == {{k} : k \in Kinds}
=============================================================================
