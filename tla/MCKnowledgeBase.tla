---------------------------- MODULE MCKnowledgeBase ----------------------------
(* An instance of KnowledgeBase for TLC. *)
EXTENDS KnowledgeBase, TLC

CONSTANTS v3, v4, large

MCModels == {v3, v4, large}

\* Two models whose vectors have the same length, and one with longer ones.
MCSize == [m \in MCModels |-> IF m = large THEN 2 ELSE 1]

Symmetry == Permutations(KBs)
=============================================================================
