---------------------------- MODULE MCCardWrites ----------------------------
(* Instances of CardWrites for TLC.                                        *)
EXTENDS CardWrites

CONSTANTS p, forged, bad, short, top, img, name

MCPackages == {p, forged, bad, short}
MCSigned == {p, bad, short}
MCFiles == {top, img}

=============================================================================
