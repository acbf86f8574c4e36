----------------------------- MODULE MCSmsGateway -----------------------------
EXTENDS SmsGateway, TLC

\* Calls and names are interchangeable.
Symmetry == Permutations(Calls) \cup Permutations(Names)
===============================================================================
