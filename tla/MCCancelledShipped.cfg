\* Two orders on credit: cancellation against shipment creation.
SPECIFICATION Spec
CONSTANTS
  o1 = o1  o2 = o2  t1 = t1  t2 = t2  d1 = d1  d2 = d2  p1 = p1  p2 = p2
  Orders = {o1, o2}
  Prepaid = {}
  Drivers = {d1}
  Txns = {}
  TxnAmount <- NoTxns
  InWindow <- NoPairs
  RefersTo <- NoPairs
  Amounts = {1}
  Procs = {p1, p2}
  Nobody = Nobody
  None = None
  MaxDay = 1
  MaxOrderVersion = 1
  MaxAuthVersion = 3
SYMMETRY ProcSymmetry
CHECK_DEADLOCK FALSE
INVARIANT
  CancelledOrderHasNoShipment
