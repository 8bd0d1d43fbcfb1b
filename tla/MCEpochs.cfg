SPECIFICATION SliceSpec
CONSTANTS
  Owners = {a, b}
  House = house
  Keys = {adm, op}
  NoKey = none
  Admin0 = adm
  Operator0 = op
  Tiles = {0}
  Amounts = {1}
  Stakes = {1}
  InitParams <- DrawParams
  ParamChoices <- RoleChoices
  BPS_DENOMINATOR = 10
  SECONDS_PER_YEAR = 1
  MIN_VRF_TIMEOUT = 1
  MIN_PAYOUT_TIMEOUT = 1
  StartTime = 2
  MaxTime = 5
  MaxEpoch = 3
  MaxRound = 0
  MaxFunds = 3
  MaxEntries = 2
  MaxLead = 0
SYMMETRY Symmetry
INVARIANTS JackpotCovered ReservedIsPromised IntervalsDisjoint TicketsTrue ProgressTrue
PROPERTIES PreviousWeightFixed ShutdownIsFinal
