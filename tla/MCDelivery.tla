------------------------------ MODULE MCDelivery ------------------------------
(* Instances of Delivery for TLC. *)
EXTENDS Delivery

CONSTANTS m1, m2, m3

TwoMessages == {m1, m2}
ThreeMessages == {m1, m2, m3}
TheSecond == {m2}
==============================================================================
