------------------------------- MODULE Forecast -------------------------------
(***************************************************************************)
(* The forecasts of the MCP server (src/mcp/src/bin/server.rs): what its   *)
(* simulation tools tell a client a handler will do.  The server keeps no  *)
(* state, each tool is a function of its arguments; the numbers are        *)
(* modelled, the text around them is not.  "the MCP surface and the        *)
(* on-chain bodies can't drift", says the source: the modules that model   *)
(* the bodies compare.                                                     *)
(***************************************************************************)
EXTENDS Integers, FiniteSets, FiniteSetsExt

CONSTANT W   \* u64 and u128 arguments hold 0 .. W-1

Math == INSTANCE MetaMath

simulate_genesis_vote(staked, now_slot, start_slot) ==
  Math!genesis_vote_weight(staked, Math!SaturatingSub(now_slot, start_slot))

(* items is a function to records with the fields of a distribution.       *)
Approved(items, outstanding) ==
  {i \in DOMAIN items :
     Math!distribution_approved(items[i].yes_votes, items[i].no_votes,
                                items[i].voted_principal, outstanding)}

(* The fee rate is in parts of bps, the cap of the engine is left out.     *)
simulate_liquidation(capital, liquidation_fee_bps, bps) ==
  LET fee == Math!SaturatingMul(capital, liquidation_fee_bps) \div bps
  IN  [insurance_fund |-> fee,
       liquidator_credit |-> Math!SaturatingSub(capital, fee)]

(* i128 values, as integers.                                               *)
Signed(x) == IF 2 * x >= W THEN x - W ELSE x
Wrapped(x) == Signed(x % W)
Abs(x) == IF x < 0 THEN -x ELSE x

(* The taker is told to gain pnl_delta, the maker to lose it.              *)
simulate_trade(size, exec, oracle, fee, taker_pos, maker_pos, max_abs) ==
  LET taker == Wrapped(taker_pos + size)
      maker == Wrapped(maker_pos - size)
      price_delta == Wrapped(oracle - exec)
  IN  [taker_pos |-> taker, maker_pos |-> maker,
       pnl_delta |-> Wrapped(price_delta * size),
       taker_fee |-> -fee, maker_fee |-> fee,
       within |-> Abs(taker) <= max_abs /\ Abs(maker) <= max_abs]

simulate_crank(proposed_slot, oracle_price, funding_rate, current_slot) ==
  [accepted |-> proposed_slot >= current_slot,
   current_slot |-> proposed_slot,
   current_oracle_price |-> oracle_price,
   current_funding_rate_e9 |-> funding_rate,
   last_funding_update_slot |->
     IF proposed_slot > current_slot THEN proposed_slot ELSE current_slot]
==============================================================================
