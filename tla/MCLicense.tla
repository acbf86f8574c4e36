------------------------------- MODULE MCLicense -------------------------------
EXTENDS License

\* An online license, its successor, and one for another installation.
T(i, n, o, b) == [issued |-> i, notAfter |-> n, online |-> o, bound |-> b]
MCTokens == {T(1, 1, TRUE, TRUE), T(2, 2, TRUE, TRUE), T(2, 2, TRUE, FALSE)}
===============================================================================
