------------------------------- MODULE MCMemory -------------------------------
(* Small instances of Memory. *)
EXTENDS Memory, TLC

Symmetry == Permutations(Sessions) \cup Permutations(Facts) \cup Permutations(Names)

\* Of a state in which two sessions have raced, and of all after it, nothing is
\* claimed: TLC looks at it and goes no further.
NotRaced == ~raced
=============================================================================
