SPECIFICATION SliceSpec
CONSTANTS
  Owners = {a, b}
  House = house
  Keys = {adm, op}
  NoKey = none
  Admin0 = adm
  Operator0 = op
  Tiles = {0, 1}
  Amounts = {2}
  Stakes = {1}
  InitParams <- CustodyParams
  ParamChoices = {}
  BPS_DENOMINATOR = 10
  SECONDS_PER_YEAR = 1
  MIN_VRF_TIMEOUT = 1
  MIN_PAYOUT_TIMEOUT = 1
  StartTime = 1
  MaxTime = 5
  MaxEpoch = 3
  MaxRound = 2
  MaxFunds = 4
  MaxEntries = 3
  MaxLead = 0
SYMMETRY Symmetry
INVARIANTS TypeOK Backing RecordsAgree HatchOnlyWhenEpochLate PrincipalOutIsLent AccrualExact WinnerPayable
PROPERTIES ImplementsNoLoss GameMintsNothing
