------------------------------ MODULE MCAccess ------------------------------
(* A small instance of AccessPolicy: four pages of the catalogue, one of     *)
(* them added by the second release.                                         *)
EXTENDS AccessPolicy

OpsAtFirst == [a \in Accts |-> "hq_ops"]
AreaOfRoles == [hq_ops |-> "hq", driver |-> "driver"]
GrowingCatalogue == <<<<"orders", "sales", "today">>, <<"orders", "sales", "products", "today">>>>
AreaOfPages == [orders |-> "hq", sales |-> "hq", products |-> "hq", today |-> "driver"]
ChosenPages == {{"orders"}, {"sales", "today"}}
ChosenOrders == {<<"sales", "gone">>}
=============================================================================
