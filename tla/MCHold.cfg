SPECIFICATION HoldSliceSpec
CONSTANTS
  Owners = {a}
  House = house
  Keys = {adm, op}
  NoKey = none
  Admin0 = adm
  Operator0 = op
  Tiles = {0}
  Amounts = {1}
  Stakes = {1}
  InitParams <- DrawParams
  ParamChoices = {}
  BPS_DENOMINATOR = 10
  SECONDS_PER_YEAR = 1
  MIN_VRF_TIMEOUT = 1
  MIN_PAYOUT_TIMEOUT = 1
  StartTime = 2
  MaxTime = 6
  MaxEpoch = 4
  MaxRound = 0
  MaxFunds = 3
  MaxEntries = 3
  MaxLead = 0
SYMMETRY Symmetry
INVARIANT WinnerPayable
