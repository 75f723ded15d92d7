---------------------------- MODULE MCSftpWriter ----------------------------
(* Two uploads of the same path.  The packets: one of a step, one behind it   *)
(* that grows by less, or leaves a hole if it comes first, one past the limit. *)
EXTENDS SftpWriter, TLC

CONSTANTS h1, h2

MCHandles == {h1, h2}
MCPackets == {<<0, 2>>, <<2, 1>>, <<3, 1>>}
=============================================================================
