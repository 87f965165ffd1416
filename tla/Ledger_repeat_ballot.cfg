SPECIFICATION Spec
CONSTANTS
  u1 = u1
  u2 = u2
  u3 = u3
  i1 = i1
  i2 = i2
  Users = {u1}
  Items = {i1}
  W = 16
  BaseSupply = 3
  Amounts = {1, 2}
  Reads = {0, 1, 2}
  CoinAmounts = {1, 2}
  RewardSupplies = {2}
  Slots = {2, 4}
  MaxVotes = 2
  OnChain = {"create", "lock", "spl"}
INVARIANT TalliesAreBallots
