---------------------------- MODULE EngineForecast ----------------------------
(***************************************************************************)
(* The risk engine against what the MCP server forecasts of it.            *)
(***************************************************************************)
EXTENDS RiskEngine

Tool == INSTANCE Forecast

(* No word overflows in the liquidation of v by l.                         *)
LiquidationFits(v, l) ==
  /\ acct[v].capital * liquidation_fee_bps < W
  /\ risk.insurance_fund + liquidation_fee_cap < W
  /\ acct[l].reserved_pnl + acct[v].capital + acct[v].reserved_pnl < W

(* simulate_liquidation, whose text says that the fee is clamped: the fund *)
(* gets the fee told or the cap.  The liquidator never gets less than he   *)
(* is told, and exactly that just when the cap spared nothing and the      *)
(* victim had no reserve, which the body hands over and the tool leaves    *)
(* out.                                                                    *)
LiquidationForecast ==
  [][\A v, l \in Accounts :
       v # l /\ liquidate_at_oracle(v, l) /\ LiquidationFits(v, l) =>
         LET told == Tool!simulate_liquidation(acct[v].capital,
                                               liquidation_fee_bps, BPS)
             credit == acct'[l].reserved_pnl - acct[l].reserved_pnl
         IN  /\ risk'.insurance_fund = risk.insurance_fund
                   + WMin(told.insurance_fund, liquidation_fee_cap)
             /\ credit >= told.liquidator_credit
             /\ credit = told.liquidator_credit <=>
                  /\ told.insurance_fund <= liquidation_fee_cap
                  /\ acct[v].reserved_pnl = 0]_vars

(* simulate_crank, asked with the market's slot, tells the state after a   *)
(* crank it expects to be accepted, whatever settles have done to the      *)
(* clock before.                                                           *)
CrankForecast ==
  [][\A n \in Slots, p \in Prices, r \in Rates : keeper_crank(n, p, r) =>
       LET told == Tool!simulate_crank(n, p, r, risk.current_slot)
       IN  told.accepted =>
             /\ status' = 0
             /\ \A f \in DOMAIN told \ {"accepted"} : risk'[f] = told[f]]_vars

(* simulate_trade, asked with both positions, tells whether the trade is   *)
(* accepted, and of an accepted one where positions, fee credits and PnL   *)
(* end up: signed arithmetic against the body's bit patterns.  Of the PnL  *)
(* this is said where the oracle is not below the execution price; below,  *)
(* TradePnlSigned is what the tool tells and the body does not do.  Of a   *)
(* trade that "aborts with status 1" the tool tells no writes; the body    *)
(* keeps them.                                                             *)
TradeForecast ==
  [][acct' # acct =>
     \A t, m \in Accounts, o, x \in Prices, s \in Sizes, f \in Fees :
       t # m /\ execute_trade(t, m, o, s, x, f) =>
         LET told == Tool!simulate_trade(Tool!Signed(s), x, o, f,
                       Tool!Signed(acct[t].position_basis_q),
                       Tool!Signed(acct[m].position_basis_q),
                       MAX_POSITION_ABS_Q)
         IN  /\ told.within <=> status' = 0
             /\ told.within =>
                  /\ Tool!Signed(acct'[t].position_basis_q) = told.taker_pos
                  /\ Tool!Signed(acct'[m].position_basis_q) = told.maker_pos
                  /\ acct'[t].fee_credits =
                       WAdd(acct[t].fee_credits, told.taker_fee)
                  /\ acct'[m].fee_credits =
                       WAdd(acct[m].fee_credits, told.maker_fee)
             /\ told.within /\ o >= x =>
                  /\ acct'[t].pnl = WAdd(acct[t].pnl, told.pnl_delta)
                  /\ acct'[m].pnl = WSub(acct[m].pnl, told.pnl_delta)]_vars
==============================================================================
