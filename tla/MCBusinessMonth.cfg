\* Two receipts of a prepaid monthly store; finance drafts nothing by hand.
SPECIFICATION Spec
CONSTANTS
  s1 = s1  s2 = s2  r1 = r1  r2 = r2  r3 = r3  h1 = h1  h2 = h2
  Stores = {s1}
  Monthly = {s1}
  OnCredit = {}
  Receipts = {r1, r2}
  StoreOf <- OneStore
  Handlers = {h1, h2}
  None = None
  DaysPerMonth = 1
  MaxTime = 4
  MaxAttempts = 2
  MaxManual = 0
  MaxFaults = 0
CHECK_DEADLOCK FALSE
INVARIANT
  BusinessMonthIsBilled
