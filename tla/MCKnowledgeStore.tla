-------------------------- MODULE MCKnowledgeStore --------------------------
(* Instance of KnowledgeStore for TLC: two similar texts and another.        *)
EXTENDS KnowledgeStore, TLC

CONSTANTS cats, kittens, tea

MCTopic == [t \in Text |-> IF t = kittens THEN cats ELSE t]
\* Nothing tells two texts of one topic apart.
MCSymmetry == Permutations({cats, kittens})
=============================================================================
