----------------------------- MODULE MCAntiAttack -----------------------------
(* One byte in each direction, two days, one archiving that fails, one restart. *)
EXTENDS AntiAttack, TLC
=============================================================================
