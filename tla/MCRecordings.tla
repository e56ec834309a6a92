---------------------------- MODULE MCRecordings ----------------------------
EXTENDS Recordings, TLC

(* The request slots are interchangeable, and so are the egress ids.        *)
Symmetry == Permutations(Request) \cup Permutations(Egress)
=============================================================================
