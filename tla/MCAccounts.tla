----------------------------- MODULE MCAccounts ------------------------------
(* 65534, the uid of sshd, is 3 here, and 1000 is 2. *)
EXTENDS Accounts, TLC

CONSTANTS s1, s2
Symmetric == Permutations({s1, s2})
PresetValue == {[name |-> "sshd", uid |-> 3]}
SynthValue == [n \in {"sshd", "bob"} |-> 4]
=============================================================================
