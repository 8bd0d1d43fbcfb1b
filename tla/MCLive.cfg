SPECIFICATION AllSpec
CONSTANTS
  Owners = {a}
  House = house
  Keys = {adm, op}
  NoKey = none
  Admin0 = adm
  Operator0 = op
  Tiles = {0}
  Amounts = {1}
  Stakes = {1}
  InitParams <- MCParams
  ParamChoices = {}
  BPS_DENOMINATOR = 10
  SECONDS_PER_YEAR = 1
  MIN_VRF_TIMEOUT = 1
  MIN_PAYOUT_TIMEOUT = 1
  StartTime = 2
  MaxTime = 6
  MaxEpoch = 2
  MaxRound = 1
  MaxFunds = 2
  MaxEntries = 1
  MaxLead = 0
  ann = ann
  bob = bob
  Depositors = {ann, bob}
  Sparring = bob
  Blocked = {bob}
  HouseWallet = HouseWallet
  MaxEpochs = 2
  MaxRounds = 1
  MaxAge = 3
  EpochLen = 3
  RoundLen = 2
  CloseBuf = 1
  VrfWait = 1
  RegWindow = 1
  PayWait = 1
  LaunchAge = 1
  REVEAL_SECONDS = 1
  SAFETY_INTERVAL_SECONDS = 3
  DRAWN_UNPAID_ALERT_SECONDS = 2
  MARGIN = 1
  FreshSeconds = 1
  IndexLag = 1
  BATCH_SIZE = 1
  WITHDRAW_BATCH_SIZE = 1
  WITHDRAW_FAILURE_LIMIT = 2
  Faults = {"unseen"}
PROPERTIES WithdrawalsArePaid EpochsResolve RoundsFinish WithdrawalsDrain BoardDrains
