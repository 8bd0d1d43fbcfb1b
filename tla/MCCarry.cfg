SPECIFICATION OperatedSliceSpec
CONSTANTS
  Owners = {a}
  House = house
  Keys = {adm, op}
  NoKey = none
  Admin0 = adm
  Operator0 = op
  Tiles = {0, 1}
  Amounts = {2}
  Stakes = {1}
  InitParams <- GameParams
  ParamChoices = {}
  BPS_DENOMINATOR = 10
  SECONDS_PER_YEAR = 1
  MIN_VRF_TIMEOUT = 1
  MIN_PAYOUT_TIMEOUT = 1
  StartTime = 1
  MaxTime = 7
  MaxEpoch = 2
  MaxRound = 2
  MaxFunds = 4
  MaxEntries = 3
  MaxLead = 0
SYMMETRY Symmetry

INVARIANT EntriesMatchPrincipal
