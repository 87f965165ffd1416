SPECIFICATION CustodySpec
CONSTANTS
  u1 = u1
  u2 = u2
  i1 = i1
  Users = {u1, u2}
  Items = {i1}
  W = 16
  BaseSupply = 3
  Amounts = {1, 2}
  Reads = {0}
  CoinAmounts = {0}
  RewardSupplies = {0}
  Slots = {1}
  MaxVotes = 1
  OnChain = {"create", "lock", "fresh", "spl"}
  Layer = {"refund"}
PROPERTY SurplusOnly
