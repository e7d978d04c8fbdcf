--------------------------- MODULE MCClientConnect ---------------------------
\* Instances of ClientConnect for TLC.
EXTENDS ClientConnect

CONSTANTS h1, h2

TwoHosts == <<h1, h2>>
AllTargets == ServerType
SomeTargets == {"any", "master", "preferSlave"}
SomeRecorded == {"CONNECT_FAIL", "CONNECT_OK", "SLAVE"}
AllRecorded == HostStatus
AllModes == {"off", "roundrobin", "shuffle"}
=============================================================================
