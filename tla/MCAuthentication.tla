-------------------------- MODULE MCAuthentication ---------------------------
(* Two connections of one address and one of another, whose entry fills the table; the
   limit is two attempts, so that an address reaches it, is refused and let in again, and
   that an attempt may be overtaken.  The connections meet in the limiter only: one client
   tries every method, the others send passwords. *)
EXTENDS Authentication, TLC

CONSTANTS c1, c2, c3, here, there

MCAddressOf == c1 :> here @@ c2 :> here @@ c3 :> there
MCNames == c1 :> {"root"} @@ c2 :> {"root"} @@ c3 :> {"ghost"}
MCTried == c1 :> AllMethods @@ c2 :> {"password"} @@ c3 :> {"password"}
MCMaxTries == c1 :> 2 @@ c2 :> 2 @@ c3 :> 1
=============================================================================
