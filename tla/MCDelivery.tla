------------------------------ MODULE MCDelivery ------------------------------
(* A small instance of Delivery: one event of each of two cameras, and three names. *)
EXTENDS Delivery, TLC

CONSTANTS n1, n2, n3, l1, l2, u1, u2

MCLeaveCamera == l1 :> u1 @@ l2 :> u2
===============================================================================
