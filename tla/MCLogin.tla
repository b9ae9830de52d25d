------------------------------ MODULE MCLogin -------------------------------
(* Small instances of Login.                                                *)
EXTENDS Login, TLC

ClientSymmetry == Permutations(Client)
=============================================================================
