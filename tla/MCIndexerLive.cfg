SPECIFICATION LiveSliceSpec
CONSTANTS
  alice = alice
  r1 = r1
  Genesis <- LiveBoot
  Owners = {alice}
  Rounds = {r1}
  TxKinds = {"deposit", "withdraw", "move", "buy", "settle", "close"}
  MaxSlot = 3
  MaxPrincipal = 2
  MaxQueue = 1
  MaxCrashes = 0
  ReadLag = 0
PROPERTY Converges
