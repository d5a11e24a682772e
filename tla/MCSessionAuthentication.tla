----------------------- MODULE MCSessionAuthentication -----------------------
\* Workers and credentials are interchangeable.
EXTENDS SessionAuthentication, TLC

Symmetry == Permutations(Threads) \cup Permutations(Credentials)
=============================================================================
