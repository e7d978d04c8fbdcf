---------------------------- MODULE MCPoolQuery ----------------------------
\* Instances of PoolQuery for TLC.
EXTENDS PoolQuery

CONSTANTS r1, r2, r3, c1, c2, c3, h1

ThreeRequests == {r1, r2, r3}
ThreeClients == {c1, c2, c3}
TwoQueries == {r1, r2}
=============================================================================
