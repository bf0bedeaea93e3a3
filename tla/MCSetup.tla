------------------------------ MODULE MCSetup ------------------------------
EXTENDS Setup, TLC

CONSTANTS s1, s2, d1, d2, g1, g2, v1, v2

\* Two distributions, each with its own Core and root, and two registrations of
\* the project; the second request replaces.  One dry run.
MCRequests ==
    LET Request(d, g, replace, dry) ==
            [core |-> d, registration |-> g, root |-> d, replace |-> replace, dry_run |-> dry]
    IN  {Request(d1, g1, FALSE, FALSE), Request(d2, g2, TRUE, FALSE), Request(d1, g1, FALSE, TRUE)}

Symmetry == Permutations({s1, s2}) \cup Permutations({v1, v2})
=============================================================================
