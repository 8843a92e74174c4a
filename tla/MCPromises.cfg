\* The subsystems with a promise that something happens in the end.
SPECIFICATION PromisesSpec
CONSTANTS
  w1 = w1  w2 = w2  w3 = w3  s1 = s1  s2 = s2  kw = kw  k1 = k1  k2 = k2
  Subsystems = {"requests", "pos", "ledger", "outbox"}
  \* Requests
  Clicks = {w1, w2, w3, s1, s2}  KeyOf <- ClickKeys  RouteOf <- ClickRoutes  BodiesOf <- ClickBodies
  Screens <- ClickScreens  Servers = {v1, v2}  MaxCrashes = 1  MaxExpiries = 1
  \* PosSales
  Merchants = {"m"}  PosStores = {"s"}  PosProducts = {"p"}  WebhookEvents = {}
  NoPos = nopos  MaxPosOrders = 2  MaxPosEdits = 3
  \* LegacyLedger
  Skus = {"k", "l"}  NativeOrders = {"n"}  OldOrders = {"d"}  NoSku = nosku  NoRows = norows
  MaxSold = 1  MaxProviderSales = 1  MaxLedgerEdits = 2  MaxLedgerFaults = 1
  \* Outbox
  Events = {e1}  Workers = {a1, a2}  None = None
  MaxAttempts = 2  BatchSize = 1  MaxRequeues = 1  MaxAborts = 1
CHECK_DEADLOCK FALSE
INVARIANTS
  FormIsAppliedOnce
  AliasedIsMatched
PROPERTIES
  WaitingIsSettled
  ClosingsCatchUp
  DeliverySpec
