---------------------------- MODULE MCRevocation ----------------------------
(* Small instances of Revocation for TLC. *)
EXTENDS Revocation, TLC

(* A valid reason, and the code that RFC 5280 leaves out. *)
ReasonValues == {4, 7}

(* Requests and serials are interchangeable. *)
Symmetry == Permutations(Requests) \cup Permutations(Serials)
=============================================================================
