-------------------------- MODULE MCFencedJournal --------------------------
\* Runs r1 and r2 are of one worker, r3 of another.
EXTENDS FencedJournal, TLC

CONSTANTS s1, s2, r1, r2, r3, w1, w2

MCOwnerOf == [r \in Runs |-> IF r = r3 THEN w2 ELSE w1]

\* The two runs of one worker are interchangeable, and so are the sessions.
Symmetry == Permutations({r1, r2}) \cup Permutations(Sessions)
=============================================================================
