------------------------------ MODULE MCMotion ------------------------------
(* Moves between all points of a small cube, in every order.               *)
EXTENDS Motion

MCCoords == -2..3
=============================================================================
