------------------------------ MODULE RiskEngine ------------------------------
(***************************************************************************)
(* The Percolator risk engine as ported to the 5ive VM: the nine           *)
(* hand-written handler bodies of src/src/bytecode/handlers.rs behind the  *)
(* declarations of src/dsl/src/main.v, and set_owner, which is DSL alone.  *)
(*                                                                         *)
(* A transaction runs one body to completion, so a handler is one action.  *)
(* The bodies read and write fields one at a time: where two of their      *)
(* account parameters may be the same account, the writes are composed in  *)
(* the order of the body.  A body that refuses returns a nonzero code; the *)
(* VM undoes nothing for it.  Token transfers are outside src/.            *)
(***************************************************************************)
EXTENDS Integers, FiniteSets, Functions

CONSTANTS
  Accounts,    \* the margin accounts, all materialized
  Holders,     \* the keys that may hold one
  W,           \* an amount holds 0 .. W-1 (2^128); signed ones wrap at W/2
  P,           \* a price holds 0 .. P-1 (2^64)
  CountW,      \* open_account_count holds 0 .. CountW-1 (2^16)
  BitmapW,     \* the part of account_bitmap_hi next to it: 0 .. BitmapW-1 (2^48)
  BaseSupply,  \* base tokens in existence
  MAX_VAULT_TVL, MAX_POSITION_ABS_Q,
  min_initial_deposit, min_nonzero_im_req,        \* fields of RiskEngine no
  liquidation_fee_bps, liquidation_fee_cap,       \* body writes
  BPS,         \* the scale of the fee rate (10_000)
  Amounts, Prices, Sizes, Fees, Slots, Rates,  \* values callers pass
  Outside,     \* which guards of the layer around the bodies are in force
  MaxOverdrawn \* bound: how many overdrawn reserves a run goes on after

Word == 0 .. W - 1
Price == 0 .. P - 1

(* The one guard of the surrounding layer:                                 *)
(*   "spl": the token transfer behind a payment, which the wrapper makes   *)
(*          (SPEC.md:190), moves tokens that exist.                        *)
ASSUME EngineAssumption ==
  /\ W \in Nat /\ W > 2 /\ P \in 1 .. W /\ CountW \in Nat \ {0}
  /\ BitmapW \in Nat \ {0}
  /\ IsFiniteSet(Accounts) /\ Cardinality(Accounts) < CountW
  /\ {BaseSupply, MAX_VAULT_TVL, MAX_POSITION_ABS_Q, min_initial_deposit,
      min_nonzero_im_req, liquidation_fee_bps, liquidation_fee_cap}
       \subseteq Word
  /\ BPS \in Nat \ {0} /\ liquidation_fee_bps <= BPS
ASSUME CallAssumption ==
  /\ Amounts \subseteq Word /\ Sizes \subseteq Word /\ Fees \subseteq Word
  /\ Rates \subseteq Word /\ Prices \subseteq Price /\ Slots \subseteq Nat
  /\ Outside \subseteq {"spl"} /\ MaxOverdrawn \in Nat

VARIABLES
  risk,    \* the RiskEngine account
  acct,    \* acct[a]: the MarginAccount a
  taken,   \* history: the liquidation fees collected so far, as a word
  overdrawn,  \* history: the conversions that asked for more than the reserve
  status   \* the value the last call returned

history == <<taken, overdrawn>>
vars == <<risk, acct, history, status>>

Risk == [vault: Word, insurance_fund: Word, c_tot: Word,
         open_account_count: 0 .. CountW - 1, account_bitmap_hi: 0 .. BitmapW - 1,
         current_slot: Slots, current_oracle_price: Price,
         current_funding_rate_e9: Word, cumulative_funding_e9: Word,
         last_funding_update_slot: Slots]
MarginAccount == [holder: Holders, capital: Word, pnl: Word, reserved_pnl: Word,
                  position_basis_q: Word, fee_credits: Word, f_snap: Word]

------------------------------------------------------------------------------
(* VM arithmetic.  A name X_Suffix is X with one fault in it: mutation     *)
(* runs put it in place of X to show that a property would notice.         *)

WAdd_Unbounded(a, b) == a + b
WAdd(a, b) == (a + b) % W
WSub(a, b) == (a - b) % W
WMul(a, b) == (a * b) % W
WMin(a, b) == IF a < b THEN a ELSE b

(* i128 values are u128 bit patterns.                                      *)
Negative(x) == 2 * x >= W
Magnitude_Unsigned(x) == IF Negative(x) THEN 0 ELSE x
Magnitude(x) == IF Negative(x) THEN WSub(0, x) ELSE x

Transferable(amount) == "spl" \in Outside => risk.vault + amount <= BaseSupply
Flat(a) == acct[a].position_basis_q = 0

Return(s) == status' = s
Refuse(s) == Return(s) /\ UNCHANGED <<risk, acct, history>>

------------------------------------------------------------------------------
(* The handlers.                                                           *)

(* "admin-only" (main.v:278): nothing compares the signer with the admin,  *)
(* and nothing is returned.                                                *)
set_owner(a, new_holder) ==
  /\ acct' = [acct EXCEPT ![a].holder = new_holder]
  /\ UNCHANGED <<risk, history, status>>

top_up_insurance_fund(amount) ==
  /\ Transferable(amount)
  /\ risk' = [risk EXCEPT !.insurance_fund = WAdd(@, amount),
                          !.vault = WAdd(@, amount)]
  /\ Return(0)
  /\ UNCHANGED <<acct, history>>

(* A deposit clears the fee debt of an account that is flat and solvent.   *)
deposit(a, amount) ==
  /\ Transferable(amount)
  /\ IF WAdd(risk.vault, amount) > MAX_VAULT_TVL THEN Refuse(2)
     ELSE /\ risk' = [risk EXCEPT !.vault = WAdd(@, amount),
                                  !.c_tot = WAdd(@, amount)]
          /\ acct' = [acct EXCEPT
               ![a].capital = WAdd(@, amount),
               ![a].fee_credits =
                  IF Flat(a) /\ ~Negative(acct[a].pnl) THEN 0 ELSE @]
          /\ Return(0)
          /\ UNCHANGED history

(* The checks of withdraw, in the order of the body.                       *)
WithdrawStatus(a, amount) ==
  LET post == WSub(acct[a].capital, amount) IN
  IF amount > acct[a].capital THEN 3
  ELSE IF post # 0 /\ post < min_initial_deposit THEN 4
  ELSE IF ~Flat(a) /\ post < min_nonzero_im_req THEN 5
  ELSE 0

withdraw_Uncounted(a, amount) ==
  IF WithdrawStatus(a, amount) # 0 THEN Refuse(WithdrawStatus(a, amount))
  ELSE /\ risk' = [risk EXCEPT !.vault = WSub(@, amount)]
       /\ acct' = [acct EXCEPT ![a].capital = WSub(@, amount)]
       /\ Return(0)
       /\ UNCHANGED history

withdraw(a, amount) ==
  IF WithdrawStatus(a, amount) # 0 THEN Refuse(WithdrawStatus(a, amount))
  ELSE /\ risk' = [risk EXCEPT !.vault = WSub(@, amount),
                               !.c_tot = WSub(@, amount)]
       /\ acct' = [acct EXCEPT ![a].capital = WSub(@, amount)]
       /\ Return(0)
       /\ UNCHANGED history

(* No check of the amount against the reserve, and no update of c_tot.     *)
convert_released_pnl(a, amount) ==
  /\ acct' = [acct EXCEPT ![a].reserved_pnl = WSub(@, amount),
                          ![a].capital = WAdd(@, amount)]
  /\ overdrawn' = IF amount > acct[a].reserved_pnl THEN overdrawn + 1
                  ELSE overdrawn
  /\ Return(0)
  /\ UNCHANGED <<risk, taken>>

(* open_account_count is read and written as 8 bytes, which reach into     *)
(* account_bitmap_hi: a decrement of zero borrows from the bitmap.         *)
CloseOne(r) ==
  LET word == r.open_account_count + CountW * r.account_bitmap_hi
      next == (word - 1) % (CountW * BitmapW)
  IN  [r EXCEPT !.open_account_count = next % CountW,
                !.account_bitmap_hi = next \div CountW]

CloseStatus(a) ==
  IF ~Flat(a) THEN 6
  ELSE IF acct[a].reserved_pnl # 0 THEN 7
  ELSE IF acct[a].fee_credits # 0 THEN 8
  ELSE 0

close_account(a) ==
  IF CloseStatus(a) # 0 THEN Refuse(CloseStatus(a))
  ELSE /\ risk' = CloseOne([risk EXCEPT
                     !.vault = WSub(WSub(@, acct[a].capital),
                                    acct[a].reserved_pnl),
                     !.c_tot = WSub(@, acct[a].capital)])
       /\ acct' = [acct EXCEPT ![a].capital = 0, ![a].reserved_pnl = 0]
       /\ Return(0)
       /\ UNCHANGED history

(* Market state, flat-position reset and capital sweep, in that order.     *)
Settled_ToZero(m, rate) ==
  LET flat == IF m.position_basis_q = 0
              THEN [m EXCEPT !.pnl = 0, !.fee_credits = 0] ELSE m
      swept == [flat EXCEPT !.fee_credits = WAdd(@, m.capital), !.capital = 0]
  IN  [swept EXCEPT !.f_snap = rate]
Settled(m, rate) ==
  LET flat == IF m.position_basis_q = 0
              THEN [m EXCEPT !.pnl = 0, !.fee_credits = 0] ELSE m
      swept == IF m.capital > min_nonzero_im_req
               THEN [flat EXCEPT
                       !.fee_credits = WAdd(@, WSub(m.capital,
                                                    min_nonzero_im_req)),
                       !.capital = min_nonzero_im_req]
               ELSE flat
  IN  [swept EXCEPT !.f_snap = rate]

settle_account(a, price, now, rate) ==
  /\ risk' = [risk EXCEPT !.current_oracle_price = price,
                          !.current_slot = now,
                          !.last_funding_update_slot = now,
                          !.current_funding_rate_e9 = rate,
                          !.cumulative_funding_e9 = WAdd(@, rate)]
  /\ acct' = [acct EXCEPT ![a] = Settled(@, rate)]
  /\ Return(0)
  /\ UNCHANGED history

(* The price difference is taken at 64 bits, where it wraps, and then      *)
(* widened without its sign.                                               *)
PriceDelta(oracle, exec) == (oracle - exec) % P

Traded(m, size, pnl, fee) ==
  [m EXCEPT !.position_basis_q = WAdd(@, size), !.pnl = WAdd(@, pnl),
            !.fee_credits = WSub(@, fee)]
MirrorTraded_SamePnl(m, size, pnl, fee) ==
  [m EXCEPT !.position_basis_q = WSub(@, size), !.pnl = WAdd(@, pnl),
            !.fee_credits = WAdd(@, fee)]
MirrorTraded(m, size, pnl, fee) ==
  [m EXCEPT !.position_basis_q = WSub(@, size), !.pnl = WSub(@, pnl),
            !.fee_credits = WAdd(@, fee)]

(* Both sides are written before either position is checked, and a trade   *)
(* refused with status 1 keeps its writes.                                 *)
execute_trade(taker, maker, oracle, size, exec, fee) ==
  LET pnl == WMul(PriceDelta(oracle, exec), size)
      half == [acct EXCEPT ![taker] = Traded(@, size, pnl, fee)]
      full == [half EXCEPT ![maker] = MirrorTraded(@, size, pnl, fee)]
      over(a) == Magnitude(full[a].position_basis_q) > MAX_POSITION_ABS_Q
  IN  /\ UNCHANGED <<risk, history>>
      /\ acct' = full
      /\ Return(IF over(taker) \/ over(maker) THEN 1 ELSE 0)

LiquidationFee(a) ==
  WMin(WMul(acct[a].capital, liquidation_fee_bps) \div BPS, liquidation_fee_cap)

(* Nothing checks that the victim is under water; c_tot stays as it is.    *)
liquidate_at_oracle_FeeNotTaken(victim, liquidator) ==
  LET fee == LiquidationFee(victim)
      paid == [acct EXCEPT ![liquidator].reserved_pnl =
                 WAdd(WAdd(@, acct[victim].capital), acct[victim].reserved_pnl)]
  IN  /\ risk' = CloseOne([risk EXCEPT !.insurance_fund = WAdd(@, fee)])
      /\ acct' = [paid EXCEPT ![victim].capital = 0, ![victim].reserved_pnl = 0,
                              ![victim].position_basis_q = 0]
      /\ taken' = WAdd(taken, fee)
      /\ Return(0)
      /\ UNCHANGED overdrawn

liquidate_at_oracle(victim, liquidator) ==
  LET fee == LiquidationFee(victim)
      paid == [acct EXCEPT ![liquidator].reserved_pnl =
                 WAdd(WSub(WAdd(@, acct[victim].capital), fee),
                      acct[victim].reserved_pnl)]
  IN  /\ risk' = CloseOne([risk EXCEPT !.insurance_fund = WAdd(@, fee)])
      /\ acct' = [paid EXCEPT ![victim].capital = 0, ![victim].reserved_pnl = 0,
                              ![victim].position_basis_q = 0]
      /\ taken' = WAdd(taken, fee)
      /\ Return(0)
      /\ UNCHANGED overdrawn

(* The DSL body first stores the caller's slot, price and rate; then the   *)
(* appended body compares the caller's slot with what has been stored.     *)
keeper_crank_FundingSlotKept(now, price, rate) ==
  /\ risk' = [risk EXCEPT !.current_slot = now, !.current_oracle_price = price,
                          !.current_funding_rate_e9 = rate,
                          !.cumulative_funding_e9 = WAdd(@, rate),
                          !.last_funding_update_slot = IF now > @ THEN now ELSE @]
  /\ Return(0)
  /\ UNCHANGED <<acct, history>>
keeper_crank(now, price, rate) ==
  LET set == [risk EXCEPT !.current_slot = now, !.current_oracle_price = price,
                          !.current_funding_rate_e9 = rate,
                          !.last_funding_update_slot = now]
      cranked == [set EXCEPT
                    !.cumulative_funding_e9 = WAdd(@, rate),
                    !.last_funding_update_slot = IF now > @ THEN now ELSE @]
  IN  /\ IF now < set.current_slot
         THEN risk' = set /\ Return(9)
         ELSE risk' = cranked /\ Return(0)
      /\ UNCHANGED <<acct, history>>

------------------------------------------------------------------------------
Init ==
  /\ \E s \in Slots, p \in Prices :
       risk = [vault |-> 0, insurance_fund |-> 0, c_tot |-> 0,
               open_account_count |-> Cardinality(Accounts),
               account_bitmap_hi |-> 0, current_slot |-> s,
               current_oracle_price |-> p, current_funding_rate_e9 |-> 0,
               cumulative_funding_e9 |-> 0, last_funding_update_slot |-> s]
  /\ \E h \in Holders :
       acct = [a \in Accounts |->
                 [holder |-> h, capital |-> 0, pnl |-> 0, reserved_pnl |-> 0,
                  position_basis_q |-> 0, fee_credits |-> 0, f_snap |-> 0]]
  /\ taken = 0
  /\ overdrawn = 0
  /\ status = 0

Trades == \E t, m \in Accounts, o, x \in Prices, s \in Sizes, f \in Fees :
            execute_trade(t, m, o, s, x, f)
Liquidations == \E v, l \in Accounts : liquidate_at_oracle(v, l)
Settles == \E a \in Accounts, p \in Prices, s \in Slots, r \in Rates :
             settle_account(a, p, s, r)
Cranks == \E s \in Slots, p \in Prices, r \in Rates : keeper_crank(s, p, r)

(* A call whose arithmetic the properties follow.                          *)
Calls ==
  \/ \E n \in Amounts : top_up_insurance_fund(n)
  \/ \E a \in Accounts, n \in Amounts : deposit(a, n)
  \/ \E a \in Accounts, n \in Amounts : withdraw(a, n)
  \/ \E a \in Accounts, n \in Amounts : convert_released_pnl(a, n)
  \/ \E a \in Accounts : close_account(a)
  \/ Settles
  \/ Trades
  \/ Liquidations
  \/ Cranks

Next ==
  \/ \E a \in Accounts, h \in Holders : set_owner(a, h)
  \/ overdrawn <= MaxOverdrawn /\ Calls

Spec == Init /\ [][Next]_vars

------------------------------------------------------------------------------
(* Type invariant.                                                         *)
TypeOK ==
  /\ risk \in Risk
  /\ acct \in [Accounts -> MarginAccount]
  /\ taken \in Word
  /\ overdrawn \in Nat
  /\ status \in 0 .. 9

Claim(a) == acct[a].capital + acct[a].reserved_pnl
Claims == SumFunction([a \in Accounts |-> Claim(a)])

(* Whatever accounts may still take out, with what the insurance fund      *)
(* holds, is in the vault, until a conversion asks for more than its       *)
(* reserve, which the body does not refuse (handlers.rs:421-435): apart    *)
(* from that, no order of deposits, trades, conversions, liquidations and  *)
(* closes, an account liquidating itself included, makes claims that were  *)
(* not paid in.                                                            *)
ClaimsBacked == overdrawn = 0 => risk.vault >= risk.insurance_fund + Claims

(* What is left of `V >= C_tot + I` (SPEC.md:14) in this port: the books   *)
(* balance up to the liquidation fees, which reach the fund without        *)
(* leaving c_tot.                                                          *)
BooksBalance == WAdd(risk.vault, taken) = WAdd(risk.c_tot, risk.insurance_fund)

(* An account that keeps its position never has its capital cut below the  *)
(* margin requirement, whichever handler cuts it and however often a       *)
(* reserve was overdrawn before: the one way down is a deposit or a        *)
(* conversion with which the capital overflows its word.                   *)
PositionsKeepCollateral ==
  [][\A a \in Accounts :
       ~Flat(a) /\ ~Flat(a)' /\ acct'[a].capital < acct[a].capital
         => \/ acct'[a].capital >= min_nonzero_im_req
            \/ \E n \in Amounts : acct[a].capital + n = acct'[a].capital + W]_vars

Summed(f) == SumFunction(f) % W

(* A trade creates nothing: positions, PnL and fee credits of the two      *)
(* sides cancel, an account trading with itself included.                  *)
TradesZeroSum ==
  [][acct' # acct /\ Trades =>
       /\ Summed([a \in Accounts |-> acct'[a].pnl])
            = Summed([a \in Accounts |-> acct[a].pnl])
       /\ Summed([a \in Accounts |-> acct'[a].fee_credits])
            = Summed([a \in Accounts |-> acct[a].fee_credits])
       /\ Summed([a \in Accounts |-> acct'[a].position_basis_q])
            = Summed([a \in Accounts |-> acct[a].position_basis_q])]_vars

(* An accepted trade leaves the positions it changes within the bound, on  *)
(* either side of zero: the two's complement magnitude is taken right.     *)
AcceptedWithinBounds ==
  [][acct' # acct /\ status' = 0 /\ Trades =>
       \A a \in Accounts :
         acct'[a].position_basis_q # acct[a].position_basis_q =>
           \/ acct'[a].position_basis_q <= MAX_POSITION_ABS_Q
           \/ W - acct'[a].position_basis_q <= MAX_POSITION_ABS_Q]_vars

------------------------------------------------------------------------------
(* Statements of the sources that the bodies do not keep.                  *)

(* "Conservation: `V >= C_tot + I` always" (SPEC.md:14).                   *)
Conservation == risk.vault >= risk.c_tot + risk.insurance_fund

(* "Time monotonicity: `now_slot >= risk.current_slot`" (handlers.rs):     *)
(* a crank never takes the market back in time.                            *)
CrankKeepsTime == [][Cranks => risk'.current_slot >= risk.current_slot]_vars

(* "taker.pnl += (oracle_price - exec_price) * size_q_signed"              *)
(* (handlers.rs): the credit carries the sign of the price difference.     *)
TradePnlSigned ==
  [][\A t, m \in Accounts, o, x \in Prices, s \in Sizes, f \in Fees :
       t # m /\ execute_trade(t, m, o, s, x, f)
         => acct'[t].pnl = WAdd(acct[t].pnl, (o - x) * s)]_vars
==============================================================================
