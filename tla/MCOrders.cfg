\* Two prepaid orders for two credits, a prepaid order and one on credit that are
\* repriced, and a driver whose account changes; two concurrent requests.
SPECIFICATION ScenarioSpec
CONSTANTS
  o1 = o1  o2 = o2  o3 = o3  t1 = t1  t2 = t2  d1 = d1  d2 = d2  p1 = p1  p2 = p2
  Orders = {o1, o2, o3}
  Prepaid = {o1, o2}
  Drivers = {d1}
  Txns = {t1, t2}
  TxnAmount <- SameAmounts
  InWindow <- AllPairs
  RefersTo <- SomePairs
  Scenarios = {"prepaid", "repriced", "staff"}
  Amounts = {1, 2}
  Procs = {p1, p2}
  Nobody = Nobody
  None = None
  MaxDay = 2
  MaxOrderVersion = 3
  MaxAuthVersion = 3
SYMMETRY ProcSymmetry
CHECK_DEADLOCK FALSE
INVARIANTS
  PrepaidLeavesOnlyPaid
  MatchIsOneToOne
  CancelledOrderHoldsNoMoney
  ShipmentFollowsApproval
  BilledAmountIsPaidAmount
  LivenessCountsDecisions
