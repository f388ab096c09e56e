CONSTANTS
  Customers = {u1}
  Subscriptions = {p1, p2}
  Methods = {m1, m2, m3}
  Invoices = {i1}
  Callers = {c1, c2}
  Owner <- OneOwner
  Events <- Webhooks
  MaxCalls = 4
  Faults = {"error", "lost"}
  Features = {p1, p2}
  Names = {a}
  Envs = {dev, prod}
  Rules = {r1}
  TTL = 1
  FlagPage = 1
  FlagCalls = 5
  None = None
  Channels = {p1, p2}
  Users = {u1}
  ChannelPage = 2
  Fields = {email, name}
  Life = 2
  Latency = 2
  AdminTime = 5
  AdminCalls = 3
  Params = {p}
  Jobs = {p1, p2}
  Tenants = {t}
  Anyone = Anyone
  ReportTime = 2
  Readers = {r1}
  FailedLimit = 1
  WaitingLimit = 1
  FailedConcern = 0
  WaitingConcern = 0
  Rows = {m1, m2, m3}
  ListPage = 2
SPECIFICATION ServicesSpec
SYMMETRY Symmetric
INVARIANTS ServicesTypeOK  InStep WebhookAccounted
INVARIANTS  PagesMissNothing HistoryIsOwn OnlineIsComplete  UpdatesKept  
PROPERTIES RemovalIsLocal
CHECK_DEADLOCK FALSE
