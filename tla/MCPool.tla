------------------------------- MODULE MCPool -------------------------------
\* Instances of Pool for TLC.
EXTENDS PoolImplements

CONSTANTS r1, r2, r3, r4, c1, c2, c3, c4, h1, h2

MCRequest == {r1, r2, r3}
MCClient == {c1, c2, c3}
FourRequests == {r1, r2, r3, r4}
FourClients == {c1, c2, c3, c4}
MCHost == {h1, h2}
TwoRequests == {r1, r2}
TwoClients == {c1, c2}
Alike == Permutations(MCRequest) \cup Permutations(MCClient)
AlikeHosts == Alike \cup Permutations(MCHost)
AlikeFour == Permutations(FourRequests) \cup Permutations(FourClients)
AlikeFourHosts == AlikeFour \cup Permutations(MCHost)
AlikeTwo == Permutations(TwoRequests) \cup Permutations(TwoClients)
=============================================================================
