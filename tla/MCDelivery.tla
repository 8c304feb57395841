----------------------------- MODULE MCDelivery -----------------------------
(* Delivery on few connections. *)
EXTENDS Delivery

(* One client connects first; it or the other one does so next. *)
TwoDials == [k \in {1, 2} |-> IF k = 1 THEN {"ann"} ELSE {"ann", "bob"}]
=============================================================================
