---------------------------- MODULE MCHttpServer ----------------------------
(* Instances of HttpServer for TLC.                                        *)
EXTENDS HttpServer, TLC

CONSTANTS p1, p2, p3

ThreeConns == {p1, p2, p3}
ConnSymmetry == Permutations(ThreeConns)

=============================================================================
