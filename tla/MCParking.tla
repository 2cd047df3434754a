------------------------------ MODULE MCParking ------------------------------
(* A small instance of Parking. *)
EXTENDS Parking

\* The spot as it was, one that looks different, and one that looks alike but shifted.
MCSights == {Same, [ncc |-> "low", shift |-> 0], [ncc |-> "high", shift |-> 3]}
==============================================================================
