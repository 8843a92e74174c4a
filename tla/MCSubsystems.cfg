\* The subsystems whose promises are about what must never be.
SPECIFICATION SubsystemsSpec
CONSTANTS
  p1 = p1  p2 = p2  c1 = c1  c2 = c2  m1 = m1  u1 = u1
  shop = shop  item = item  o1 = o1  o2 = o2
  Subsystems = {"leads", "backfill", "postgres", "migrations", "import",
                "originals", "access", "memory", "runtime", "openings", "releases", "photos",
                "money", "loss", "merchants", "bank", "accounts"}
  \* Leads
  LeadIds = {"l"}  StoreIds = {"s", "t"}  FieldUsers = {p1, p2}  NoStore = nostore  NoDay = noday
  LongWait = 1  ShortWait = 0  LastDay = 1  MaxMoves = 5  MaxFieldEdits = 2
  \* LegacyBackfill
  Years = {3, 6}  OpenDay = 1  FirstToday = 4  LastToday = 6  MonthLength = 3  RevenueOn <- PowersOfTwo
  MaxRestarts = 2  MaxPosErrors = 1
  \* PostgresStore
  Sessions = {p1, p2}  Aggregates = {"a", "b", "c"}  Existing = {"a"}  StoreKeys = {"k"}  NoOwner = noowner
  StoreKeyOf <- OneKey  MaxCommits = 2  MaxChanges = 1  MaxAggVersion = 2  MaxRollbacks = 1
  \* SchemaMigrations
  Deployments = {p1, p2}  ReleaseFiles <- FilesOfReleases  MaxMigrationFailures = 1
  \* LegacyImport
  SourceStores = {shop}  SourceProducts = {item}  SourceOrders = {o1, o2}
  OrderStore <- StoreOfOrders  OrderProduct <- ProductOfOrders
  MaxContent = 2  MaxExports = 2  MaxBatches = 3
  \* Originals
  Tellings = {"statement", "invoice"}  Tellers = {p1, p2}  OriginalOf <- OriginalsOfEvents
  ChannelList <- AppAndSms  MaxRowVersion = 2  MaxTries = 2  MaxTellFailures = 1
  \* AccessPolicy
  Accts = {"a"}  AcctRoles = {"hq_ops", "driver"}  FirstRole <- OpsAtFirst  AccessDomain <- AreaOfRoles
  Catalogues <- GrowingCatalogue  PageDomain <- AreaOfPages
  PageChoices <- ChosenPages  OrderChoices <- ChosenOrders
  Savers = {p1, p2}  Unset = unset  MaxSaves = 2  MaxRoleChanges = 1
  \* MemoryStore
  MemAggregates = {"x", "y"}  MemSeeded = {}  MemKeys = {"k"}  MemNoOwner = nobody
  MemKeyOf <- OneMemKey  LockKeys = {"l"}  MemCallers = {p1, p2}  MaxMemVersion = 2  MaxMemCommits = 2
  \* WorkerRuntime
  Hosts = {p1, p2}  NoBeat = nobeat  DayLength = 2  InvoiceEvery = 1  PosEvery = 2
  BankSyncReady = TRUE  BeatTtl = 1  MaxMinute = 1  MaxRuntimeFaults = 2
  \* Openings
  Projects = {"o"}  Titles = {"own"}  Planners = {p1, p2}  StoreTypes = {"table", "takeout"}
  Template <- OpeningTemplate  AnyType = "any"  NoProject = noproject
  OpeningDays <- PlannedDays  LastOpeningDay = 1  MaxOpeningEdits = 5
  \* Releases
  MaxCommit = 1  MaxScripts = 1  MaxMishaps = 1
  \* DeliveryPhotos
  Deliveries = {"d"}  Completions = {p1, p2}  Pictures <- SomePictures  PhotoTypes = {"jpeg", "png"}
  OtherTypes = {"text"}  MaxTickets = 1  MaxUploads = 2  PhotoTtl = 1  MaxClock = 2
  \* Money
  UnitPrices = {0, 1, 2, 3, 4, 5, 6, 7, 8, 9, 10}  ItemCounts = {1}  MaxItems = 3
  \* LossReports
  Shops = {"s", "t"}  Goods = {"g", "h"}  LineQuantities = {0, 2}  Moments = {12, 14}
  MaxMonth = 0  DaysOfMonth = 2  MaxReceipts = 2  MaxSaleRows = 1
  \* PosSales
  Merchants = {"m"}  PosStores = {"s"}  PosProducts = {"p"}  WebhookEvents = {"e", "f"}
  NoPos = nopos  MaxPosOrders = 1  MaxPosEdits = 1
  \* BankSync
  Credits = {c1, c2}  Importers = {p1, p2}  LookBack = 1  LongestPeriod = 2  PageSize = 1
  LastBankDay = 1  MaxSyncs = 2  MaxImports = 2
  \* Accounts
  Actors = {m1, u1}  FirstMasters = {m1}  Emails = {"e"}  Passwords = {"a", "b"}  FirstPassword = "a"
  Callers = {p1, p2}  Nothing = nothing  LockAfter = 2  MaxRetries = 3  MaxVersion = 3  MaxActorVersion = 2
SYMMETRY Symmetry
CHECK_DEADLOCK FALSE
INVARIANTS
  OpenedLeadHasStore
  AuditTellsStore
  BackfillIsWhole
  MigratedOnce
  CutoverIsComplete
  ToldIsSent
  OriginalsAreFixed
  SavedChoicesHold
  StoreIsOfOnePiece
  ScheduleIsWhole
  StoppedIsStopped
  SyncedIsImported
  NothingLateIsReady
  ReleasedInOrder
  ProofIsWhatWasSeen
  SplitAddsUp
  LossIsWhatWasLeft
  LinkedIsNotOffered
  LiveSessionKnowsPassword
  GuessesAreBounded
PROPERTIES
  StoreIsAtomic
