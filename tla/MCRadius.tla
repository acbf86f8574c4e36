------------------------------- MODULE MCRadius -------------------------------
EXTENDS Radius, TLC

\* Packets and states are interchangeable; NewPacket chooses a user.
Symmetry == Permutations(Packets) \cup Permutations(States)
===============================================================================
