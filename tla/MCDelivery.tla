----------------------------- MODULE MCDelivery -----------------------------
(***************************************************************************)
(* Delivery for TLC.                                                       *)
(***************************************************************************)
EXTENDS Delivery

\* A second version of any kind, a third that may supersede it or not.
MCKindsOf == <<{"good"}, {"good", "refused", "unreadable"}, {"good", "invalid"}, {"good"}>>
=============================================================================
