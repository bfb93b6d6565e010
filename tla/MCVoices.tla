------------------------------ MODULE MCVoices ------------------------------
EXTENDS Voices, TLC

\* Calls in flight are interchangeable.
SessionSymmetry == Permutations(Sessions)
=============================================================================
