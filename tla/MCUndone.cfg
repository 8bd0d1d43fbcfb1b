SPECIFICATION ServicesSpec
CONSTANTS
  ann = ann
  bob = bob
  Depositors = {ann, bob}
  Sparring = bob
  Blocked = {}
  HouseWallet = HouseWallet
  MaxEpochs = 2
  MaxRounds = 2
  MaxAge = 6
  EpochLen = 5
  RoundLen = 2
  CloseBuf = 1
  VrfWait = 2
  RegWindow = 2
  PayWait = 2
  LaunchAge = 1
  REVEAL_SECONDS = 1
  SAFETY_INTERVAL_SECONDS = 3
  DRAWN_UNPAID_ALERT_SECONDS = 2
  MARGIN = 1
  FreshSeconds = 1
  IndexLag = 1
  BATCH_SIZE = 1
  WITHDRAW_BATCH_SIZE = 1
  WITHDRAW_FAILURE_LIMIT = 2
  Faults = {"lost", "unseen"}
  alice = alice
  r1 = r1
  Genesis <- Boots
  Owners = {alice}
  Rounds = {r1}
  TxKinds = {"deposit", "withdraw", "failed", "open", "move", "buy", "settle", "close"}
  MaxSlot = 3
  MaxPrincipal = 1
  MaxQueue = 1
  MaxCrashes = 1
  ReadLag = 1
PROPERTY KeepsNewerRows
