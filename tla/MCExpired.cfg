SPECIFICATION Spec
CONSTANTS
  Parts = {"browser"}
  h1 = h1
  h2 = h2
  h3 = h3
  h4 = h4
  Holders = {h1, h2, h3, h4}
  ReferrerOf <- Refs
  Order <- Ord
  RATE_TIERS <- Tiers
  BPS = 4
  BASIS_CAP = 3
  QUALIFY_PRINCIPAL = 2
  QualifySeconds = 1
  CapBps = 1
  GRANT_BATCH = 1
  MaxHolding = 4
  MaxGrantEpoch = 2
  MaxMoves = 1
  Guests = {g1, g2}
  Doors = {d1, d2, d3, d4, d5, d6, d7}
  OpenDoors = {d1, d2}
  DoorUses = 1
  RefOwner = g1
  Requests = {t1, t2}
  INVITE_CODE_MAX_USES = 1
  CirculationCap = 3
  RedeemGrantCount = 2
  NoGuest = NoGuest
  NoDoor = NoDoor
  Validity = 2
  MaxHeight = 6
  MaxPresses = 2
  Ttl = 1
  Latency = 2
  MaxDrift = 1
  MaxWall = 3
  MaxReads = 3
  Callers = {c1, c2}
  TickEvery = 1
  TickStale = 1
  FailingFor = 1
  IndexStale = 1
  Recent = 2
  MaxClock = 3
  MaxMints = 2
  MaxCrashes = 1
  MaxSpar = 2
  HotKey = HotKey
  LedgerKey = LedgerKey
  SquadsKey = SquadsKey
  NoAddress = NoAddress
  Debtors = {p1, p2, p3}
  Balances = {1, 2}
  BatchSize = 2
  MaxExports = 1
  MaxRound = 3
  MaxNudges = 1
  Wallets = {"a", "b"}
  MaxSwitches = 4
  MaxSubmits = 2
  RoundLen = 3
  CloseBuffer = 1
  Grace = 1
  Tolerance = 2
  Jitter = 1
  Pot = 5
  Cut = 1
  OnWinningTile = 1
  Spend = 1
  MaxRounds = 2
  MaxSleep = 1
  MaxAsked = 1
  MaxEntries = 1
  Claimants = {"x"}
  FaucetCalls = {"r", "s"}
  ClaimInterval = 2
  MaxFaucetTime = 5
  Emails = {"x", "y"}
  OldEmails = {"x"}
  Codes = {"c1", "c2", "c3"}
  Instances = {"i", "j"}
  CODE_ATTEMPTS = 2
INVARIANT PaidOnce
CHECK_DEADLOCK FALSE
