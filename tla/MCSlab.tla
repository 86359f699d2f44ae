------------------------------- MODULE MCSlab -------------------------------
(* Slab with room for three packets and two values to tell them apart.      *)
EXTENDS Slab

CONSTANTS a, b

MCMaxItems == 3

MCValues == {a, b}
=============================================================================
