SPECIFICATION ProgramsSpec
CONSTANTS
  u1 = u1
  u2 = u2
  i1 = i1
  Accounts = {u1, u2}
  Holders = {0}
  W = 4
  P = 2
  CountW = 3
  BitmapW = 1
  BaseSupply = 0
  MAX_VAULT_TVL = 3
  MAX_POSITION_ABS_Q = 1
  min_initial_deposit = 2
  min_nonzero_im_req = 1
  liquidation_fee_bps = 2
  liquidation_fee_cap = 1
  BPS = 4
  Amounts = {0}
  Prices = {0, 1}
  Sizes = {1}
  Fees = {1}
  Slots = {1}
  Rates = {0}
  Outside = {"spl"}
  MaxOverdrawn = 0
  Items = {i1}
  Bonds = {0, 3}
  Reads = {0, 1, 3}
  Coins = {1, 3}
  RewardSupplies = {2}
  LedgerSlots = {3}
  MaxVotes = 1
  OnChain = {"create"}
  CoinW = 16
  Delays = {0, 2, 4}
  CoinSlots = {0, 2, 3, 14}
  Terms = {1}
  Credits = {1}
  Quotes = {1}
  Stakes = {1}
  Hedges = {1}
  MarketSlots = {1}
  PerpSlots = {0, 1, 2}
SYMMETRY Symm
INVARIANTS LedgerTypeOK PrincipalConserved PositionsSolvent PhasesConsistent DelayServed SettledSinceOpened
PROPERTIES PhasesFinal ImplementsEscrow TradesZeroSum AcceptedWithinBounds TradeForecast
