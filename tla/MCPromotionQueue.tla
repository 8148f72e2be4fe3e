-------------------------- MODULE MCPromotionQueue --------------------------
EXTENDS PromotionQueue, TLC

\* Requests are interchangeable, and so are freights.
Symmetry == Permutations(Requests) \cup Permutations(Freights)
=============================================================================
