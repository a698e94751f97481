---------------------------- MODULE MCAutoFetch ----------------------------
(* Instances of AutoFetch for TLC.                                         *)
EXTENDS AutoFetch

CONSTANTS c1, c2

OneConn == {c1}
TwoConns == {c1, c2}

Calm == {}
Closing == {"early close"}
Hostile == EnvKinds

=============================================================================
