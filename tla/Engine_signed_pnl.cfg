SPECIFICATION Spec
CONSTANTS
  a1 = a1
  a2 = a2
  h1 = h1
  h2 = h2
  Accounts = {a1, a2}
  Holders = {h1}
  W = 16
  P = 4
  CountW = 3
  BitmapW = 1
  BaseSupply = 5
  MAX_VAULT_TVL = 4
  MAX_POSITION_ABS_Q = 8
  min_initial_deposit = 2
  min_nonzero_im_req = 1
  liquidation_fee_bps = 2
  liquidation_fee_cap = 1
  BPS = 4
  Amounts = {1, 3}
  Prices = {1, 2}
  Sizes = {2}
  Fees = {0}
  Slots = {1}
  Rates = {0}
  Outside = {"spl"}
  MaxOverdrawn = 0
PROPERTY TradePnlSigned
