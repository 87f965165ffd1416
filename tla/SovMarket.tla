------------------------------ MODULE SovMarket ------------------------------
(***************************************************************************)
(* The SOV market program, src/markets/sov/src/main.v: a wrapper that      *)
(* records, beside the risk engine, the terms of one market, the burn of   *)
(* its admin key and a display record per position.  Its handlers assign   *)
(* fields and check nothing, the slots callers pass included; they return  *)
(* no status.  Pubkeys given at init are one value, the market's terms; a  *)
(* fresh account holds zeros.                                              *)
(***************************************************************************)
EXTENDS Integers

CONSTANTS Users, Terms, Amounts, Slots

VARIABLES
  market,  \* SovMarket
  pos      \* pos[u]: the SovPosition of u

vars == <<market, pos>>

unburned == 0
burned == 1

init_sov_market(terms, insurance, created_slot) ==
  /\ market' = [terms |-> terms, admin_burned |-> unburned,
                insurance_initial |-> insurance,
                insurance_accrued |-> insurance, created_slot |-> created_slot]
  /\ UNCHANGED pos

burn_admin_key ==
  /\ market' = [market EXCEPT !.admin_burned = burned]
  /\ UNCHANGED pos

(* Both moves of collateral store the amount of the call.                  *)
Collateral(u, amount) ==
  /\ pos' = [pos EXCEPT ![u].collateral_deposited = amount]
  /\ UNCHANGED market
deposit_memecoin(u, amount) == Collateral(u, amount)
withdraw_memecoin(u, amount) == Collateral(u, amount)

open_short(taker, maker, now_slot) ==
  /\ pos' = [u \in Users |->
               IF u \in {taker, maker}
               THEN [pos[u] EXCEPT !.last_settle_slot = now_slot] ELSE pos[u]]
  /\ UNCHANGED market

close_position(u, now_slot) ==
  /\ pos' = [pos EXCEPT ![u].last_settle_slot = now_slot]
  /\ UNCHANGED market

top_up_insurance(amount) ==
  /\ market' = [market EXCEPT !.insurance_accrued = amount]
  /\ UNCHANGED pos

(* The record of the liquidation is a count of zero.                       *)
liquidate(victim) ==
  /\ pos' = [pos EXCEPT ![victim].liquidation_count = 0]
  /\ UNCHANGED market

Init ==
  /\ market = [terms |-> 0, admin_burned |-> unburned,
                insurance_initial |-> 0, insurance_accrued |-> 0, created_slot |-> 0]
  /\ pos = [u \in Users |-> [collateral_deposited |-> 0, liquidation_count |-> 0,
                             last_settle_slot |-> 0]]

Next ==
  \/ \E t \in Terms, n \in Amounts, s \in Slots : init_sov_market(t, n, s)
  \/ burn_admin_key
  \/ \E u \in Users, n \in Amounts : deposit_memecoin(u, n)
  \/ \E u \in Users, n \in Amounts : withdraw_memecoin(u, n)
  \/ \E t, m \in Users, s \in Slots : open_short(t, m, s)
  \/ \E u \in Users, s \in Slots : close_position(u, s)
  \/ \E n \in Amounts : top_up_insurance(n)
  \/ \E v \in Users : liquidate(v)
==============================================================================
