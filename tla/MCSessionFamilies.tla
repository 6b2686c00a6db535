------------------------- MODULE MCSessionFamilies -------------------------
(* Small instances of SessionFamilies for TLC. *)
EXTENDS SessionFamilies, TLC

CONSTANT u1

OneOwner == [f \in Families |-> u1]
Symmetry == Permutations(Requests)
FamilySymmetry == Permutations(Requests) \cup Permutations(Families)

=============================================================================
