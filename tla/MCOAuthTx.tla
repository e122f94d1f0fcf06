------------------------------ MODULE MCOAuthTx ------------------------------
(* Small instances of OAuthTx for TLC. *)
EXTENDS OAuthTx, TLC

\* Keys drawn by randomHex and the workers are interchangeable.
Symmetry == Permutations(Access) \cup Permutations(Refresh) \cup Permutations(Family)
            \cup Permutations(Code) \cup Permutations(Worker)
=============================================================================
