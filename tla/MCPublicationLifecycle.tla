------------------------ MODULE MCPublicationLifecycle ------------------------
(* Finite instances of PublicationLifecycle for TLC. *)
EXTENDS PublicationLifecycle, TLC

\* Publications and readers are interchangeable in every safety property.
Symmetry == Permutations(Pubs) \cup Permutations(Readers) \cup Permutations(Operators)
=============================================================================
