SPECIFICATION HistorySpec
CONSTANTS
  ann = ann
  bob = bob
  Depositors = {ann, bob}
  Sparring = bob
  Blocked = {}
  HouseWallet = HouseWallet
  MaxEpochs = 3
  MaxRounds = 1
  MaxAge = 4
  EpochLen = 3
  RoundLen = 2
  CloseBuf = 1
  VrfWait = 1
  RegWindow = 1
  PayWait = 1
  LaunchAge = 1
  REVEAL_SECONDS = 1
  SAFETY_INTERVAL_SECONDS = 3
  DRAWN_UNPAID_ALERT_SECONDS = 2
  MARGIN = 1
  FreshSeconds = 1
  IndexLag = 1
  BATCH_SIZE = 1
  WITHDRAW_BATCH_SIZE = 1
  WITHDRAW_FAILURE_LIMIT = 2
  Faults = {}
PROPERTY NobodyLeftOut
