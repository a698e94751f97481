----------------------------- MODULE MCOtaBoot -----------------------------
(* Instances of OtaBoot for TLC: five pages in sectors of two, an image of *)
(* four of them, vectors in the second page as on the RP2040.              *)
EXTENDS OtaBoot

Sectors == [p \in 0 .. 4 |-> p \div 2]

Cut == {"power loss"}
AllFaults == FaultKinds

=============================================================================
