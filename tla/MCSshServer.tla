---------------------------- MODULE MCSshServer -----------------------------
(* Two connections for one slot, one listener, short timeouts. *)
EXTENDS SshServer, TLC

CONSTANTS a1, c1, c2

MCAddrs == {a1}
MCConns == {c1, c2}
=============================================================================
