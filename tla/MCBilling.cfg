\* Two receipts of a prepaid monthly store, one of a store on credit that is billed
\* per delivery, one draft by hand, two runs of each event, one failure.
SPECIFICATION Spec
CONSTANTS
  s1 = s1  s2 = s2  r1 = r1  r2 = r2  r3 = r3  h1 = h1  h2 = h2
  Stores = {s1, s2}
  Monthly = {s1}
  OnCredit = {s2}
  Receipts = {r1, r2, r3}
  StoreOf <- TwoOfOneStore
  Handlers = {h1, h2}
  None = None
  DaysPerMonth = 1
  MaxTime = 4
  MaxAttempts = 2
  MaxManual = 1
  MaxFaults = 1
CHECK_DEADLOCK FALSE
SYMMETRY Symmetry
INVARIANTS
  BilledOnce
  ReviewedIsPaid
  DoneMeansBilled
