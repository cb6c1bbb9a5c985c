------------------------------- MODULE MCOpaque -------------------------------
(* Small instances of Opaque for TLC. *)
EXTENDS OpaqueProperties, TLC

(* Sessions, passwords and credential identifiers are told apart only by    *)
(* equality, so the safety runs may permute them.                           *)
Symmetry ==
  Permutations(Registrations) \cup Permutations(Clients) \cup Permutations(Servers)
    \cup Permutations(Passwords) \cup Permutations(CredentialIds)
===============================================================================
