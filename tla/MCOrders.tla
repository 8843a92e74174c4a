------------------------------- MODULE MCOrders -------------------------------
(* One run for several questions about orders: a behaviour picks one of      *)
(* Scenarios, which says what of the instance it uses.                       *)
EXTENDS MCOrderFulfilment

CONSTANTS o3, Scenarios

VARIABLE scenario

AccountStays ==
    /\ driver[d1] = [active |-> TRUE, role |-> "driver", version |-> 1]
    /\ \A p \in Procs : tx[p].step \notin AdminSteps
OneDay(o) == order[o].due <= 1
OnePrice(o) == order[o].gross # 2

(* Two prepaid orders, one of which may be sent back for changes, compete    *)
(* for two credits over two days.                                            *)
PrepaidScenario ==
    /\ scenario = "prepaid" /\ order[o3] = NoOrder /\ OnePrice(o1) /\ OnePrice(o2)
    /\ order[o2].status # "change_requested" /\ AccountStays

(* A prepaid order and one on credit are repriced.                          *)
RepricedScenario ==
    /\ scenario = "repriced" /\ order[o2] = NoOrder /\ txn[t2] = "absent"
    /\ OneDay(o1) /\ OneDay(o3) /\ today <= 1 /\ AccountStays

(* Both are assigned while the account of the driver changes.               *)
StaffScenario ==
    /\ scenario = "staff" /\ order[o2] = NoOrder /\ txn[t1] = "absent" /\ txn[t2] = "absent"
    /\ OneDay(o1) /\ OneDay(o3) /\ today <= 1 /\ OnePrice(o1) /\ OnePrice(o3)

InScenario == PrepaidScenario \/ RepricedScenario \/ StaffScenario

ScenarioInit == Init /\ scenario \in Scenarios /\ InScenario
ScenarioNext == Next /\ UNCHANGED scenario /\ InScenario'
ScenarioSpec == ScenarioInit /\ [][ScenarioNext]_<<vars, scenario>>
=============================================================================
