----------------------------- MODULE MCCCRStore -----------------------------
(* Model-checking instances of CCRStore.                                     *)
EXTENDS CCRMarkers, TLC

CONSTANTS c1, c2

\* The two originals differ in size, so that which one is removed matters.
MCSize == [c \in Content |-> IF c = c1 THEN 1 ELSE 2]

MCNumbers == -1 .. 2

TightPolicy == {[maxAge |-> 0, maxBytes |-> 1]}

\* By age alone, and by age and then size; a size limit of 2 fits either original but
\* not both.
AgePolicies == {[maxAge |-> 1, maxBytes |-> 0], [maxAge |-> 1, maxBytes |-> 2]}

\* Writers and temporary names are interchangeable.
Symmetry == Permutations(Temp) \cup Permutations(Putters)
=============================================================================
