SPECIFICATION Spec
CONSTANTS
  Timeout = 2
  Grace = 1
  Links = {"CONNECTED", "CONNECTING", "DISCONNECTED"}
  LastMoment = 3
  MaxPushes = 2
  MaxCommands = 2
  Names = {"", "a", "b"}
  MaxEdits = 2
  Gateways = {"g"}
  SnapTrades = {"s"}
  Registered = {"g"}
  MaxIssued = 2
  MaxTroubles = 2
  TenantRoles = {"ADMIN", "VIEWER"}
  AccountIds = {"u1", "u2"}
  AccountCurrencies = {"BASE", "EUR", "USD"}
  MaxTurns = 2
  Contracts = {"c1", "c2"}
  Orders = {"o1"}
  MaxChanges = 3
  MaxFaults = 1
  AnswerLimit = 2
  KeepLimit = 2
  MaxRaised = 3
  MaxLineFaults = 1
  Channels = {"personal", "common"}
  Triggers = {"fills"}
  Levels = {"3"}
  MaxPosts = 2
  MaxTabs = 1
  MaxRefused = 1
INVARIANT OnlineIsStreaming
CHECK_DEADLOCK FALSE
