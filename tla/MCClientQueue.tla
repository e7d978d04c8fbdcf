--------------------------- MODULE MCClientQueue ---------------------------
\* Instances of ClientQueue for TLC.
EXTENDS ClientQueue

AllKinds == Kind
Sound == {"plain", "refused"}
Paged == {"paged"}
Plain == {"plain"}
WithUnbindable == {"plain", "unbindable"}
=============================================================================
