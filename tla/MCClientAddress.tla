-------------------------- MODULE MCClientAddress --------------------------
(* Instances of ClientAddress for TLC. *)
EXTENDS ClientAddress, TLC

Symmetric == Permutations(Trusted) \cup Permutations(Untrusted)

=============================================================================
