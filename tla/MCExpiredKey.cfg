\* One form resent twice, a day after its first request was done.
SPECIFICATION PromisesSpec
CONSTANTS
  w1 = w1  w2 = w2  w3 = w3  s1 = s1  s2 = s2  kw = kw  k1 = k1  k2 = k2
  Subsystems = {"requests"}
  \* Requests
  Clicks = {w1, w2, w3, s1, s2}  KeyOf <- ClickKeys  RouteOf <- ClickRoutes  BodiesOf <- ClickBodies
  Screens <- ClickScreens  Servers = {v1, v2}  MaxCrashes = 0  MaxExpiries = 1
  \* PosSales
  Merchants = {"m"}  PosStores = {"s"}  PosProducts = {"p"}  WebhookEvents = {}
  NoPos = nopos  MaxPosOrders = 0  MaxPosEdits = 0
  \* LegacyLedger
  Skus = {"k", "l"}  NativeOrders = {"n"}  OldOrders = {"d"}  NoSku = nosku  NoRows = norows
  MaxSold = 0  MaxProviderSales = 0  MaxLedgerEdits = 0  MaxLedgerFaults = 0
  \* Outbox
  Events = {e1}  Workers = {a1, a2}  None = None
  MaxAttempts = 2  BatchSize = 1  MaxRequeues = 0  MaxAborts = 0
CHECK_DEADLOCK FALSE
INVARIANT OncePerLife
