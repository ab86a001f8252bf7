--------------------------- MODULE MCMaterialGc ---------------------------
EXTENDS MaterialGc

\* The first and the last request share a file; the interpreter of the last is
\* the file of the second.
MCRefs == [r \in Requests |-> IF r = 2 THEN {2} ELSE {1}]
MCInterp == [r \in Requests |-> IF r = 3 THEN 2 ELSE 0]
=============================================================================
