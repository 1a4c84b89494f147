---------------------------- MODULE MCEpistemicViews ----------------------------
(* Identities of one kind are interchangeable. *)
EXTENDS EpistemicViews, TLC
Symmetry == Permutations(Evidence) \cup Permutations(Claims) \cup Permutations(Groups)
            \cup Permutations(Contradictions) \cup Permutations(Corrections)
=============================================================================
