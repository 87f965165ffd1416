--------------------------- MODULE RiskEngineProofs ---------------------------
(***************************************************************************)
(* What holds of the risk engine for every number of accounts, every word  *)
(* width and every argument of a caller.                                   *)
(***************************************************************************)
EXTENDS EngineForecast, SumLemmas

------------------------------------------------------------------------------
(* Word arithmetic.                                                        *)

(* The VM's addition and subtraction stay in a word.                       *)
LEMMA WAddSubType == ASSUME NEW a \in Int, NEW b \in Int
                     PROVE  WAdd(a, b) \in Word /\ WSub(a, b) \in Word
<1>1. W \in Nat \ {0}
  BY EngineAssumption
<1>2. a + b \in Int /\ a - b \in Int
  OBVIOUS
<1> QED
  BY <1>1, <1>2, DivMod DEF WAdd, WSub, Word

(* The VM's multiplication stays in a word.                                *)
LEMMA WMulType == ASSUME NEW a \in Int, NEW b \in Int
                  PROVE  WMul(a, b) \in Word
<1>1. W \in Nat \ {0}
  BY EngineAssumption
<1>2. a * b \in Int
  OBVIOUS
<1> QED
  BY <1>1, <1>2, DivMod DEF WMul, Word

(* Zero, prices and the fields no body writes are words, words numbers.    *)
LEMMA WordFacts == /\ 0 \in Word /\ Word \subseteq Int /\ Price \subseteq Word
                   /\ min_nonzero_im_req \in Word
                   /\ liquidation_fee_cap \in Word /\ liquidation_fee_bps \in Word
                   /\ Amounts \subseteq Word /\ Sizes \subseteq Word
                   /\ Fees \subseteq Word /\ Rates \subseteq Word
                   /\ Prices \subseteq Price
BY EngineAssumption, CallAssumption DEF Word, Price

(* A price difference is a word.                                           *)
LEMMA PriceDeltaType == ASSUME NEW o \in Price, NEW x \in Price
                        PROVE  PriceDelta(o, x) \in Word
<1>1. P \in Nat \ {0} /\ P <= W /\ W \in Nat
  BY EngineAssumption
<1>2. o - x \in Int
  BY <1>1 DEF Price
<1>3. (o - x) % P \in 0 .. P - 1
  BY <1>1, <1>2, DivMod
<1> QED
  BY <1>1, <1>3 DEF PriceDelta, Word

(* A liquidation fee is a word.                                            *)
LEMMA FeeType == ASSUME TypeOK, NEW a \in Accounts
                 PROVE  LiquidationFee(a) \in Word
<1> DEFINE x == WMul(acct[a].capital, liquidation_fee_bps)
           q == x \div BPS
<1>1. x \in Word
  BY WMulType, WordFacts DEF TypeOK, MarginAccount
<1>2. x \in Nat /\ BPS \in Nat \ {0}
  BY <1>1, EngineAssumption DEF Word
<1> HIDE DEF x
<1>3. q \in Nat
  BY <1>2
<1>4. liquidation_fee_cap \in 0 .. W - 1 /\ W \in Nat
  BY WordFacts, EngineAssumption DEF Word
<1> HIDE DEF q
<1>5. WMin(q, liquidation_fee_cap) \in 0 .. W - 1
  BY <1>3, <1>4 DEF WMin
<1> QED
  BY <1>5 DEF LiquidationFee, Word, q, x

(* Counting an account off, the borrow from the bitmap included, stays in  *)
(* the two fields.                                                         *)
LEMMA CloseOneType == ASSUME NEW r \in Risk
                      PROVE  CloseOne(r) \in Risk
<1> DEFINE word == r.open_account_count + CountW * r.account_bitmap_hi
           next == (word - 1) % (CountW * BitmapW)
<1>1. CountW \in Nat \ {0} /\ BitmapW \in Nat \ {0}
  BY EngineAssumption
<1>2. CountW * BitmapW \in Nat \ {0}
  BY <1>1
<1>3. r.open_account_count \in Nat /\ r.account_bitmap_hi \in Nat
  BY <1>1 DEF Risk
<1>4. CountW * r.account_bitmap_hi \in Int
  BY <1>1, <1>3
<1>5. word - 1 \in Int
  BY <1>3, <1>4
<1> HIDE DEF word
<1>6. next \in 0 .. CountW * BitmapW - 1
  BY <1>2, <1>5, DivMod
<1>7. next \in Int /\ next >= 0 /\ next < CountW * BitmapW
  BY <1>2, <1>6
<1> HIDE DEF next
<1> DEFINE q == next \div CountW
<1>8. next % CountW \in 0 .. CountW - 1 /\ q \in Int
      /\ next = CountW * q + (next % CountW)
  BY <1>1, <1>7, DivMod
<1>9. CloseOne(r) = [r EXCEPT !.open_account_count = next % CountW,
                              !.account_bitmap_hi = q]
  BY DEF CloseOne, next, word
<1> HIDE DEF q
<1>10. q \in 0 .. BitmapW - 1
  <2>1. CASE q >= BitmapW
    <3>1. CountW * q >= CountW * BitmapW
      BY <1>1, <1>8, <2>1
    <3> QED
      BY <1>1, <1>7, <1>8, <3>1
  <2>2. CASE q <= -1
    <3>1. CountW * q <= -CountW
      BY <1>1, <1>8, <2>2
    <3> QED
      BY <1>1, <1>7, <1>8, <3>1
  <2> QED
    BY <1>1, <1>8, <2>1, <2>2
<1> QED
  BY <1>8, <1>9, <1>10 DEF Risk
------------------------------------------------------------------------------
(* Type correctness.                                                       *)

(* The accounts start well typed.                                          *)
LEMMA InitTypeOK == Init => TypeOK
<1> SUFFICES ASSUME Init PROVE TypeOK
  OBVIOUS
<1>1. Cardinality(Accounts) \in 0 .. CountW - 1 /\ 0 \in 0 .. BitmapW - 1
  BY EngineAssumption, FS_CardinalityType
<1>2. risk \in Risk
  BY <1>1, WordFacts DEF Init, Risk
<1>3. acct \in [Accounts -> MarginAccount]
  BY WordFacts DEF Init, MarginAccount
<1> QED
  BY <1>2, <1>3, WordFacts DEF Init, TypeOK

(* A refused call keeps the types.                                         *)
LEMMA RefuseTypeOK == ASSUME TypeOK, NEW s \in 0 .. 9, Refuse(s)
                      PROVE  TypeOK'
BY DEF TypeOK, Refuse, Return, history

(* The sweep and the reset of a settle keep the types.                     *)
LEMMA SettledType == ASSUME NEW m \in MarginAccount, NEW rate \in Word
                     PROVE  Settled(m, rate) \in MarginAccount
<1> DEFINE flat == IF m.position_basis_q = 0
                   THEN [m EXCEPT !.pnl = 0, !.fee_credits = 0] ELSE m
           credit == WAdd(flat.fee_credits, WSub(m.capital, min_nonzero_im_req))
           swept == IF m.capital > min_nonzero_im_req
                    THEN [flat EXCEPT !.fee_credits = credit,
                                      !.capital = min_nonzero_im_req]
                    ELSE flat
<1>1. flat \in MarginAccount
  BY WordFacts DEF MarginAccount
<1>2. credit \in Word
  BY <1>1, WAddSubType, WordFacts DEF MarginAccount
<1> HIDE DEF credit
<1>3. swept \in MarginAccount
  BY <1>1, <1>2, WordFacts DEF MarginAccount
<1>4. Settled(m, rate) = [swept EXCEPT !.f_snap = rate]
  BY DEF Settled, credit
<1> HIDE DEF swept
<1> QED
  BY <1>3, <1>4 DEF MarginAccount

(* Both sides of a trade keep the types.                                   *)
LEMMA TradedType ==
  ASSUME NEW m \in MarginAccount, NEW size \in Word, NEW pnl \in Word,
         NEW fee \in Word
  PROVE  /\ Traded(m, size, pnl, fee) \in MarginAccount
         /\ MirrorTraded(m, size, pnl, fee) \in MarginAccount
<1>1. /\ WAdd(m.position_basis_q, size) \in Word
      /\ WAdd(m.pnl, pnl) \in Word /\ WAdd(m.fee_credits, fee) \in Word
      /\ WSub(m.position_basis_q, size) \in Word
      /\ WSub(m.pnl, pnl) \in Word /\ WSub(m.fee_credits, fee) \in Word
  BY WAddSubType, WordFacts DEF MarginAccount
<1> QED
  BY <1>1 DEF Traded, MirrorTraded, MarginAccount

(* Every handler keeps the types.                                          *)
LEMMA NextTypeOK == TypeOK /\ [Next]_vars => TypeOK'
<1> SUFFICES ASSUME TypeOK, [Next]_vars PROVE TypeOK'
  OBVIOUS
<1>0. /\ risk \in Risk /\ acct \in [Accounts -> MarginAccount]
      /\ taken \in Word /\ overdrawn \in Nat
  BY DEF TypeOK
<1>1. ASSUME NEW n \in Amounts, top_up_insurance_fund(n) PROVE TypeOK'
  <2>1. WAdd(risk.insurance_fund, n) \in Word /\ WAdd(risk.vault, n) \in Word
    BY <1>0, WAddSubType, WordFacts DEF Risk
  <2>2. risk' \in Risk
    BY <1>0, <1>1, <2>1 DEF top_up_insurance_fund, Risk
  <2> QED
    BY <1>0, <1>1, <2>2 DEF top_up_insurance_fund, history, Return, TypeOK
<1>2. ASSUME NEW a \in Accounts, NEW h \in Holders, set_owner(a, h)
      PROVE  TypeOK'
  BY <1>2 DEF set_owner, history, TypeOK, MarginAccount
<1>3. ASSUME NEW a \in Accounts, NEW n \in Amounts, deposit(a, n)
      PROVE  TypeOK'
  <2>1. CASE WAdd(risk.vault, n) > MAX_VAULT_TVL
    BY <1>3, <2>1, RefuseTypeOK DEF deposit
  <2>2. CASE ~(WAdd(risk.vault, n) > MAX_VAULT_TVL)
    <3> DEFINE debt == IF Flat(a) /\ ~Negative(acct[a].pnl) THEN 0
                       ELSE acct[a].fee_credits
    <3>1. /\ WAdd(risk.vault, n) \in Word /\ WAdd(risk.c_tot, n) \in Word
          /\ WAdd(acct[a].capital, n) \in Word /\ debt \in Word
      BY <1>0, WAddSubType, WordFacts DEF Risk, MarginAccount
    <3>2. /\ acct' = [acct EXCEPT ![a].capital = WAdd(@, n),
                                  ![a].fee_credits = debt]
          /\ risk' = [risk EXCEPT !.vault = WAdd(@, n), !.c_tot = WAdd(@, n)]
          /\ status' = 0 /\ UNCHANGED history
      BY <1>3, <2>2 DEF deposit, Return
    <3> HIDE DEF debt
    <3>3. acct' \in [Accounts -> MarginAccount]
      BY <1>0, <3>1, <3>2 DEF MarginAccount
    <3>4. risk' \in Risk
      BY <1>0, <3>1, <3>2 DEF Risk
    <3> QED
      BY <1>0, <3>2, <3>3, <3>4 DEF history, TypeOK
  <2> QED
    BY <2>1, <2>2
<1>4. ASSUME NEW a \in Accounts, NEW n \in Amounts, withdraw(a, n)
      PROVE  TypeOK'
  <2>1. WithdrawStatus(a, n) \in 0 .. 9
    BY DEF WithdrawStatus
  <2>2. CASE WithdrawStatus(a, n) # 0
    BY <1>4, <2>1, <2>2, RefuseTypeOK DEF withdraw
  <2>3. CASE WithdrawStatus(a, n) = 0
    <3>1. /\ WSub(risk.vault, n) \in Word /\ WSub(risk.c_tot, n) \in Word
          /\ WSub(acct[a].capital, n) \in Word
      BY <1>0, WAddSubType, WordFacts DEF Risk, MarginAccount
    <3>2. risk' \in Risk
      BY <1>0, <1>4, <2>3, <3>1 DEF withdraw, Risk
    <3>3. acct' \in [Accounts -> MarginAccount]
      BY <1>0, <1>4, <2>3, <3>1 DEF withdraw, MarginAccount
    <3> QED
      BY <1>0, <1>4, <2>3, <3>2, <3>3 DEF withdraw, history, Return, TypeOK
  <2> QED
    BY <2>2, <2>3
<1>5. ASSUME NEW a \in Accounts, NEW n \in Amounts,
             convert_released_pnl(a, n)
      PROVE  TypeOK'
  <2>1. /\ WSub(acct[a].reserved_pnl, n) \in Word
        /\ WAdd(acct[a].capital, n) \in Word
    BY <1>0, WAddSubType, WordFacts DEF MarginAccount
  <2>2. acct' \in [Accounts -> MarginAccount]
    BY <1>0, <1>5, <2>1 DEF convert_released_pnl, MarginAccount
  <2>3. overdrawn' \in Nat /\ UNCHANGED <<risk, taken>> /\ status' = 0
    BY <1>0, <1>5 DEF convert_released_pnl, Return
  <2> QED
    BY <1>0, <2>2, <2>3 DEF TypeOK
<1>6. ASSUME NEW a \in Accounts, close_account(a) PROVE TypeOK'
  <2>1. CloseStatus(a) \in 0 .. 9
    BY DEF CloseStatus
  <2>2. CASE CloseStatus(a) # 0
    BY <1>6, <2>1, <2>2, RefuseTypeOK DEF close_account
  <2>3. CASE CloseStatus(a) = 0
    <3> DEFINE v == WSub(WSub(risk.vault, acct[a].capital), acct[a].reserved_pnl)
               c == WSub(risk.c_tot, acct[a].capital)
    <3>1. v \in Word /\ c \in Word
      BY <1>0, WAddSubType, WordFacts DEF Risk, MarginAccount
    <3>2. risk' = CloseOne([risk EXCEPT !.vault = v, !.c_tot = c])
      BY <1>6, <2>3 DEF close_account
    <3> HIDE DEF v, c
    <3>3. [risk EXCEPT !.vault = v, !.c_tot = c] \in Risk
      BY <1>0, <3>1 DEF Risk
    <3>4. risk' \in Risk
      BY <3>2, <3>3, CloseOneType
    <3> QED
      BY <1>0, <1>6, <2>3, <3>4, WordFacts
      DEF close_account, history, Return, TypeOK, MarginAccount
  <2> QED
    BY <2>2, <2>3
<1>7. ASSUME NEW a \in Accounts, NEW p \in Prices, NEW s \in Slots,
             NEW r \in Rates, settle_account(a, p, s, r)
      PROVE  TypeOK'
  <2>1. /\ r \in Word /\ p \in Price
        /\ WAdd(risk.cumulative_funding_e9, r) \in Word
    BY <1>0, WAddSubType, WordFacts DEF Risk
  <2>2. risk' \in Risk
    BY <1>0, <1>7, <2>1 DEF settle_account, Risk
  <2>3. Settled(acct[a], r) \in MarginAccount
    BY <1>0, <2>1, SettledType
  <2>4. acct' \in [Accounts -> MarginAccount]
    BY <1>0, <1>7, <2>3 DEF settle_account
  <2> QED
    BY <1>0, <1>7, <2>2, <2>4 DEF settle_account, history, Return, TypeOK
<1>8. ASSUME NEW t \in Accounts, NEW m \in Accounts, NEW o \in Prices,
             NEW x \in Prices, NEW s \in Sizes, NEW f \in Fees,
             execute_trade(t, m, o, s, x, f)
      PROVE  TypeOK'
  <2> DEFINE pnl == WMul(PriceDelta(o, x), s)
             half == [acct EXCEPT ![t] = Traded(acct[t], s, pnl, f)]
             full == [half EXCEPT ![m] = MirrorTraded(half[m], s, pnl, f)]
  <2>1. pnl \in Word /\ s \in Word /\ f \in Word
    BY PriceDeltaType, WMulType, WordFacts
  <2>2. acct' = full /\ status' \in {0, 1} /\ UNCHANGED <<risk, history>>
    BY <1>8 DEF execute_trade, Return
  <2> HIDE DEF pnl
  <2>3. half \in [Accounts -> MarginAccount]
    BY <1>0, <2>1, TradedType
  <2> HIDE DEF half
  <2>4. full \in [Accounts -> MarginAccount]
    BY <2>1, <2>3, TradedType
  <2> QED
    BY <1>0, <2>2, <2>4 DEF history, TypeOK
<1>9. ASSUME NEW v \in Accounts, NEW l \in Accounts, liquidate_at_oracle(v, l)
      PROVE  TypeOK'
  <2> DEFINE fee == LiquidationFee(v)
             gain == WAdd(WSub(WAdd(acct[l].reserved_pnl, acct[v].capital), fee),
                          acct[v].reserved_pnl)
             paid == [acct EXCEPT ![l].reserved_pnl = gain]
             fund == WAdd(risk.insurance_fund, fee)
  <2>1. fee \in Word
    BY FeeType
  <2>2. /\ acct' = [paid EXCEPT ![v].capital = 0, ![v].reserved_pnl = 0,
                                ![v].position_basis_q = 0]
        /\ risk' = CloseOne([risk EXCEPT !.insurance_fund = fund])
        /\ taken' = WAdd(taken, fee) /\ status' = 0 /\ UNCHANGED overdrawn
    BY <1>9 DEF liquidate_at_oracle, Return
  <2> HIDE DEF fee
  <2>3. WAdd(acct[l].reserved_pnl, acct[v].capital) \in Word
    BY <1>0, WAddSubType, WordFacts DEF MarginAccount
  <2>4. WSub(WAdd(acct[l].reserved_pnl, acct[v].capital), fee) \in Word
    BY <2>1, <2>3, WAddSubType, WordFacts
  <2>5. gain \in Word /\ fund \in Word
    BY <1>0, <2>1, <2>4, WAddSubType, WordFacts DEF MarginAccount, Risk
  <2> HIDE DEF gain, fund
  <2>6. paid \in [Accounts -> MarginAccount]
    BY <1>0, <2>5 DEF MarginAccount
  <2> HIDE DEF paid
  <2>7. acct' \in [Accounts -> MarginAccount]
    BY <2>2, <2>6, WordFacts DEF MarginAccount
  <2>8. [risk EXCEPT !.insurance_fund = fund] \in Risk
    BY <1>0, <2>5 DEF Risk
  <2>9. risk' \in Risk
    BY <2>2, <2>8, CloseOneType
  <2>10. taken' \in Word
    BY <1>0, <2>1, <2>2, WAddSubType, WordFacts
  <2> QED
    BY <1>0, <2>2, <2>7, <2>9, <2>10 DEF TypeOK
<1>10. ASSUME NEW s \in Slots, NEW p \in Prices, NEW r \in Rates,
              keeper_crank(s, p, r)
       PROVE  TypeOK'
  <2> DEFINE set == [risk EXCEPT !.current_slot = s, !.current_oracle_price = p,
                                 !.current_funding_rate_e9 = r,
                                 !.last_funding_update_slot = s]
             sum == WAdd(set.cumulative_funding_e9, r)
             late == IF s > set.last_funding_update_slot THEN s
                     ELSE set.last_funding_update_slot
             cranked == [set EXCEPT !.cumulative_funding_e9 = sum,
                                    !.last_funding_update_slot = late]
  <2>1. set \in Risk
    BY <1>0, WordFacts DEF Risk
  <2>2. risk' \in {set, cranked} /\ status' \in {0, 9} /\ UNCHANGED <<acct, history>>
    BY <1>10 DEF keeper_crank, Return
  <2> HIDE DEF set
  <2>3. sum \in Word /\ late \in Slots
    BY <2>1, WAddSubType, WordFacts DEF Risk
  <2> HIDE DEF sum, late
  <2>4. cranked \in Risk
    BY <2>1, <2>3 DEF Risk
  <2> HIDE DEF cranked
  <2> QED
    BY <1>0, <2>1, <2>2, <2>4 DEF history, TypeOK
<1>11. CASE UNCHANGED vars
  BY <1>11 DEF vars, history, TypeOK
<1> QED
  BY <1>1, <1>2, <1>3, <1>4, <1>5, <1>6, <1>7, <1>8, <1>9, <1>10, <1>11
  DEF Next, Calls, Settles, Trades, Liquidations, Cranks

(* No handler, with whatever arguments and accounts, leaves a field that   *)
(* does not fit its width; the decrement of the account count that borrows *)
(* from the bitmap included.                                               *)
THEOREM EngineTypes == Spec => []TypeOK
BY InitTypeOK, NextTypeOK, PTL DEF Spec

------------------------------------------------------------------------------
(* The books.                                                              *)

(* The fields of the books are numbers.                                    *)
LEMMA BookFields ==
  ASSUME TypeOK
  PROVE  /\ risk.vault \in Int /\ risk.c_tot \in Int
         /\ risk.insurance_fund \in Int /\ taken \in Int
<1>1. risk \in Risk /\ taken \in Word
  BY DEF TypeOK
<1>2. /\ risk.vault \in Word /\ risk.c_tot \in Word
      /\ risk.insurance_fund \in Word
  BY <1>1 DEF Risk
<1>3. /\ risk.vault \in Int /\ risk.c_tot \in Int
      /\ risk.insurance_fund \in Int /\ taken \in Int
  BY <1>1, <1>2, WordFacts, Zenon
<1> QED
  BY <1>3

(* Books that balance still do when the same is added to, or taken off,    *)
(* one item on each side, however the items wrap.                          *)
LEMMA SameChange ==
  ASSUME TypeOK, BooksBalance, NEW n \in Int
  PROVE  /\ WAdd(WAdd(risk.vault, n), taken)
              = WAdd(WAdd(risk.c_tot, n), risk.insurance_fund)
         /\ WAdd(WSub(risk.vault, n), taken)
              = WAdd(WSub(risk.c_tot, n), risk.insurance_fund)
         /\ WAdd(WAdd(risk.vault, n), taken)
              = WAdd(risk.c_tot, WAdd(risk.insurance_fund, n))
         /\ WAdd(risk.vault, WAdd(taken, n))
              = WAdd(risk.c_tot, WAdd(risk.insurance_fund, n))
<1> DEFINE v == risk.vault
           t == taken
           c == risk.c_tot
           i == risk.insurance_fund
<1>0. v \in Int /\ t \in Int /\ c \in Int /\ i \in Int
  BY BookFields
<1>a. WAdd(v, t) = WAdd(c, i)
  BY DEF BooksBalance
<1> HIDE DEF v, t, c, i
<1> DEFINE left == v + t
           right == c + i
<1>1. W \in Nat \ {0}
  BY EngineAssumption
<1>2. left \in Int /\ right \in Int /\ -n \in Int
  BY <1>0
<1>3. left % W = right % W
  BY <1>a DEF WAdd
<1>4. \A k \in Int : (left + k) % W = (right + k) % W
  <2> HIDE DEF left, right
  <2>1. TAKE k \in Int
  <2>2. ((left % W) + k) % W = (left + k) % W
    BY <1>1, <1>2, ModSum
  <2>3. ((right % W) + k) % W = (right + k) % W
    BY <1>1, <1>2, ModSum
  <2> QED
    BY <1>3, <2>2, <2>3
<1>5. ASSUME NEW x \in Int, NEW y \in Int
      PROVE  /\ WAdd(WAdd(x, n), y) = ((x + y) + n) % W
             /\ WAdd(WSub(x, n), y) = ((x + y) + (-n)) % W
             /\ WAdd(y, WAdd(x, n)) = ((y + x) + n) % W
  <2>1. /\ x + n \in Int /\ x - n \in Int /\ (x + n) % W \in Int
        /\ (x + n) + y = (x + y) + n /\ (x - n) + y = (x + y) + (-n)
        /\ (x + n) + y = (y + x) + n
    BY <1>1, DivMod
  <2>2. (((x + n) % W) + y) % W = ((x + n) + y) % W
    BY <1>1, <2>1, ModSum
  <2>3. (((x - n) % W) + y) % W = ((x - n) + y) % W
    BY <1>1, <2>1, ModSum
  <2>4. y + ((x + n) % W) = ((x + n) % W) + y
    BY <2>1
  <2> QED
    BY <2>1, <2>2, <2>3, <2>4 DEF WAdd, WSub
<1>6. WAdd(v, WAdd(t, n)) = (left + n) % W
  BY <1>0, <1>5
<1>7. /\ WAdd(WAdd(v, n), t) = (left + n) % W
      /\ WAdd(WSub(v, n), t) = (left + (-n)) % W
  BY <1>0, <1>5
<1>8. /\ WAdd(WAdd(c, n), i) = (right + n) % W
      /\ WAdd(WSub(c, n), i) = (right + (-n)) % W
  BY <1>0, <1>5
<1>9. WAdd(c, WAdd(i, n)) = (right + n) % W
  BY <1>0, <1>5
<1> HIDE DEF left, right
<1> QED
  BY <1>2, <1>4, <1>6, <1>7, <1>8, <1>9 DEF v, t, c, i

(* Every handler keeps the books.                                          *)
LEMMA NextBalance == TypeOK /\ BooksBalance /\ [Next]_vars => BooksBalance'
<1> SUFFICES ASSUME TypeOK, BooksBalance, [Next]_vars PROVE BooksBalance'
  OBVIOUS
<1>a. /\ risk \in Risk /\ acct \in [Accounts -> MarginAccount]
      /\ risk.vault \in Int
  BY BookFields DEF TypeOK
<1>b. ASSUME risk'.vault = risk.vault, risk'.c_tot = risk.c_tot,
             risk'.insurance_fund = risk.insurance_fund, taken' = taken
      PROVE  BooksBalance'
  BY <1>b DEF BooksBalance
<1>1. ASSUME NEW n \in Amounts, top_up_insurance_fund(n) PROVE BooksBalance'
  <2>1. n \in Int
    BY WordFacts
  <2>2. /\ risk'.vault = WAdd(risk.vault, n) /\ risk'.c_tot = risk.c_tot
        /\ risk'.insurance_fund = WAdd(risk.insurance_fund, n) /\ taken' = taken
    BY <1>1, <1>a DEF top_up_insurance_fund, history, Risk
  <2>3. WAdd(WAdd(risk.vault, n), taken)
          = WAdd(risk.c_tot, WAdd(risk.insurance_fund, n))
    BY <2>1, SameChange
  <2> QED
    BY <2>2, <2>3 DEF BooksBalance
<1>2. ASSUME NEW a \in Accounts, NEW h \in Holders, set_owner(a, h)
      PROVE  BooksBalance'
  BY <1>2 DEF set_owner, history, BooksBalance
<1>3. ASSUME NEW a \in Accounts, NEW n \in Amounts, deposit(a, n)
      PROVE  BooksBalance'
  <2>1. CASE UNCHANGED <<risk, taken>>
    BY <1>b, <2>1
  <2>2. CASE /\ risk' = [risk EXCEPT !.vault = WAdd(@, n),
                                     !.c_tot = WAdd(@, n)]
             /\ UNCHANGED taken
    <3>1. n \in Int
      BY WordFacts
    <3>2. /\ risk'.vault = WAdd(risk.vault, n) /\ taken' = taken
          /\ risk'.c_tot = WAdd(risk.c_tot, n)
          /\ risk'.insurance_fund = risk.insurance_fund
      BY <1>a, <2>2 DEF Risk
    <3>3. WAdd(WAdd(risk.vault, n), taken)
            = WAdd(WAdd(risk.c_tot, n), risk.insurance_fund)
      BY <3>1, SameChange
    <3> QED
      BY <3>2, <3>3 DEF BooksBalance
  <2> QED
    BY <1>3, <2>1, <2>2 DEF deposit, Refuse, history
<1>4. ASSUME NEW a \in Accounts, NEW n \in Amounts, withdraw(a, n)
      PROVE  BooksBalance'
  <2>1. CASE UNCHANGED <<risk, taken>>
    BY <1>b, <2>1
  <2>2. CASE /\ risk' = [risk EXCEPT !.vault = WSub(@, n),
                                     !.c_tot = WSub(@, n)]
             /\ UNCHANGED taken
    <3>1. n \in Int
      BY WordFacts
    <3>2. /\ risk'.vault = WSub(risk.vault, n) /\ taken' = taken
          /\ risk'.c_tot = WSub(risk.c_tot, n)
          /\ risk'.insurance_fund = risk.insurance_fund
      BY <1>a, <2>2 DEF Risk
    <3>3. WAdd(WSub(risk.vault, n), taken)
            = WAdd(WSub(risk.c_tot, n), risk.insurance_fund)
      BY <3>1, SameChange
    <3> QED
      BY <3>2, <3>3 DEF BooksBalance
  <2> QED
    BY <1>4, <2>1, <2>2 DEF withdraw, Refuse, history
<1>5. ASSUME NEW a \in Accounts, NEW n \in Amounts,
             convert_released_pnl(a, n)
      PROVE  BooksBalance'
  BY <1>5, <1>b DEF convert_released_pnl
<1>6. ASSUME NEW a \in Accounts, close_account(a) PROVE BooksBalance'
  <2> DEFINE n == acct[a].capital
  <2>1. CASE CloseStatus(a) # 0
    BY <1>6, <1>b, <2>1 DEF close_account, Refuse, history
  <2>2. CASE CloseStatus(a) = 0
    <3>1. acct[a].reserved_pnl = 0 /\ n \in Int
      <4>1. acct[a].reserved_pnl = 0
        BY <2>2 DEF CloseStatus
      <4>2. acct[a].capital \in Word
        BY <1>a DEF MarginAccount
      <4> QED
        BY <4>1, <4>2, WordFacts
    <3> DEFINE v == WSub(WSub(risk.vault, n), acct[a].reserved_pnl)
               c == WSub(risk.c_tot, n)
    <3>2. WSub(risk.vault, n) \in 0 .. W - 1 /\ W \in Nat
      BY <1>a, <3>1, WAddSubType, EngineAssumption DEF Word
    <3>3. v = WSub(risk.vault, n)
      <4>1. \A x \in 0 .. W - 1 : (x - 0) % W = x
        BY EngineAssumption
      <4> QED
        BY <3>1, <3>2, <4>1 DEF WSub
    <3>4. /\ risk' = CloseOne([risk EXCEPT !.vault = v, !.c_tot = c])
          /\ taken' = taken
      BY <1>6, <2>2 DEF close_account, history
    <3> HIDE DEF v, c, n
    <3>5. /\ risk'.vault = v /\ risk'.c_tot = c
          /\ risk'.insurance_fund = risk.insurance_fund
      BY <1>a, <3>4 DEF CloseOne, Risk
    <3>6. WAdd(WSub(risk.vault, n), taken)
            = WAdd(WSub(risk.c_tot, n), risk.insurance_fund)
      BY <3>1, SameChange
    <3> QED
      BY <3>3, <3>4, <3>5, <3>6 DEF BooksBalance, c
  <2> QED
    BY <2>1, <2>2
<1>7. ASSUME NEW a \in Accounts, NEW p \in Prices, NEW s \in Slots,
             NEW r \in Rates, settle_account(a, p, s, r)
      PROVE  BooksBalance'
  BY <1>7, <1>a, <1>b DEF settle_account, history, Risk
<1>8. ASSUME NEW t \in Accounts, NEW m \in Accounts, NEW o \in Prices,
             NEW x \in Prices, NEW s \in Sizes, NEW f \in Fees,
             execute_trade(t, m, o, s, x, f)
      PROVE  BooksBalance'
  BY <1>8, <1>b DEF execute_trade, history
<1>9. ASSUME NEW v \in Accounts, NEW l \in Accounts, liquidate_at_oracle(v, l)
      PROVE  BooksBalance'
  <2> DEFINE fee == LiquidationFee(v)
             fund == WAdd(risk.insurance_fund, fee)
  <2>1. fee \in Int
    BY FeeType, WordFacts
  <2>2. /\ risk' = CloseOne([risk EXCEPT !.insurance_fund = fund])
        /\ taken' = WAdd(taken, fee)
    BY <1>9 DEF liquidate_at_oracle
  <2> HIDE DEF fee, fund
  <2>3. /\ risk'.vault = risk.vault /\ risk'.c_tot = risk.c_tot
        /\ risk'.insurance_fund = fund
    BY <1>a, <2>2 DEF CloseOne, Risk
  <2>4. WAdd(risk.vault, WAdd(taken, fee))
          = WAdd(risk.c_tot, WAdd(risk.insurance_fund, fee))
    BY <2>1, SameChange
  <2> QED
    BY <2>2, <2>3, <2>4 DEF BooksBalance, fund
<1>10. ASSUME NEW s \in Slots, NEW p \in Prices, NEW r \in Rates,
              keeper_crank(s, p, r)
       PROVE  BooksBalance'
  BY <1>10, <1>a, <1>b DEF keeper_crank, history, Risk
<1>11. CASE UNCHANGED vars
  BY <1>11, <1>b DEF vars, history
<1> QED
  BY <1>1, <1>2, <1>3, <1>4, <1>5, <1>6, <1>7, <1>8, <1>9, <1>10, <1>11
  DEF Next, Calls, Settles, Trades, Liquidations, Cranks

(* The books balance up to the fees taken, modulo the word, in every order *)
(* of calls and whatever wraps: the fees are the only way in which what    *)
(* SPEC.md calls conservation is lost.                                     *)
THEOREM Books == Spec => []BooksBalance
<1>1. Init => BooksBalance
  BY DEF Init, BooksBalance
<1>2. TypeOK /\ BooksBalance /\ [Next]_vars => BooksBalance'
  BY NextBalance
<1> QED
  BY <1>1, <1>2, EngineTypes, PTL DEF Spec

------------------------------------------------------------------------------
(* What the accounts may take out.                                         *)

(* The guard of the layer around the bodies is in force: token transfers   *)
(* move tokens that exist.                                                 *)
OutsideHolds == "spl" \in Outside

(* Sums that fit a word do not wrap, and a smaller word comes off a larger. *)
LEMMA NoWrap ==
  ASSUME NEW a \in Word, NEW b \in Word
  PROVE  /\ a + b < W => WAdd(a, b) = a + b
         /\ a >= b => WSub(a, b) = a - b
<1>1. W \in Nat \ {0} /\ a \in 0 .. W - 1 /\ b \in 0 .. W - 1
  BY EngineAssumption DEF Word
<1>2. \A x \in 0 .. W - 1 : x % W = x
  BY <1>1
<1>3. a + b < W => a + b \in 0 .. W - 1
  BY <1>1
<1>4. a >= b => a - b \in 0 .. W - 1
  BY <1>1
<1> QED
  BY <1>2, <1>3, <1>4 DEF WAdd, WSub

(* What a margin account holds.                                            *)
LEMMA AccountFields ==
  ASSUME TypeOK, NEW a \in Accounts
  PROVE  /\ acct[a] \in MarginAccount
         /\ acct[a].capital \in Word /\ acct[a].reserved_pnl \in Word
         /\ acct[a].capital \in Nat /\ acct[a].reserved_pnl \in Nat
         /\ Claim(a) = acct[a].capital + acct[a].reserved_pnl
         /\ Claim(a) \in Nat
<1>1. acct[a] \in MarginAccount
  BY DEF TypeOK
<1>2. acct[a].capital \in Word /\ acct[a].reserved_pnl \in Word
  BY <1>1 DEF MarginAccount
<1>3. acct[a].capital \in Nat /\ acct[a].reserved_pnl \in Nat
  BY <1>2, EngineAssumption DEF Word
<1> QED
  BY <1>1, <1>2, <1>3 DEF Claim

(* And what it holds after a step.                                         *)
LEMMA NextAccountFields ==
  ASSUME TypeOK', NEW a \in Accounts
  PROVE  /\ acct'[a].capital \in Nat /\ acct'[a].reserved_pnl \in Nat
         /\ Claim(a)' = acct'[a].capital + acct'[a].reserved_pnl
         /\ Claim(a)' \in Nat
<1>1. acct'[a].capital \in Word /\ acct'[a].reserved_pnl \in Word
  BY DEF TypeOK, MarginAccount
<1>2. acct'[a].capital \in Nat /\ acct'[a].reserved_pnl \in Nat
  BY <1>1, EngineAssumption DEF Word
<1> QED
  BY <1>2 DEF Claim

(* What the claims are a sum of.                                           *)
LEMMA ClaimsSum ==
  ASSUME TypeOK
  PROVE  /\ Claims = SumFunctionOnSet([a \in Accounts |-> Claim(a)], Accounts)
         /\ Claims \in Nat
         /\ \A a \in Accounts : Claim(a) <= Claims
         /\ \A a, b \in Accounts : a # b => Claim(a) + Claim(b) <= Claims
<1> DEFINE f == [a \in Accounts |-> Claim(a)]
<1>1. \A a \in Accounts : f[a] \in Nat /\ f[a] = Claim(a)
  BY AccountFields
<1>2. Claims = SumFunctionOnSet(f, Accounts)
  BY DEF Claims, SumFunction
<1>3. IsFiniteSet(Accounts)
  BY EngineAssumption
<1> HIDE DEF f
<1>4. /\ SumFunctionOnSet(f, Accounts) \in Nat
      /\ \A a \in Accounts : f[a] <= SumFunctionOnSet(f, Accounts)
      /\ \A a, b \in Accounts : a # b => f[a] + f[b] <= SumFunctionOnSet(f, Accounts)
  BY <1>1, <1>3, SumNat
<1> QED
  BY <1>1, <1>2, <1>4 DEF f

(* A step that touches one account changes the claims by what it changes   *)
(* of that account's.                                                      *)
LEMMA ClaimsChange ==
  ASSUME TypeOK, TypeOK', NEW b \in Accounts,
         \A a \in Accounts \ {b} : Claim(a)' = Claim(a)
  PROVE  Claims' = (Claims - Claim(b)) + Claim(b)'
<1> DEFINE f == [a \in Accounts |-> Claim(a)]
           g == [a \in Accounts |-> Claim(a)']
<1>1. \A a \in Accounts : f[a] \in Int /\ f[a] = Claim(a)
  BY AccountFields
<1>2. \A a \in Accounts : Claim(a)' \in Nat
  BY NextAccountFields
<1>3. \A a \in Accounts : g[a] \in Int /\ g[a] = Claim(a)'
  BY <1>2
<1>4. Claims = SumFunctionOnSet(f, Accounts)
  BY DEF Claims, SumFunction
<1>5. Claims' = SumFunctionOnSet(g, Accounts)
  BY DEF Claims, SumFunction
<1>6. IsFiniteSet(Accounts)
  BY EngineAssumption
<1>7. SameBut(f, g, {b}, Accounts)
  BY <1>1, <1>3 DEF SameBut
<1> HIDE DEF f, g
<1>8. SumFunctionOnSet(g, Accounts)
        = (SumFunctionOnSet(f, Accounts) - f[b]) + g[b]
  BY <1>6, <1>7, SumChange
<1> QED
  BY <1>1, <1>3, <1>4, <1>5, <1>8

(* A step that touches no capital and no reserve keeps the claims.         *)
LEMMA ClaimsKept ==
  ASSUME \A a \in Accounts : /\ acct'[a].capital = acct[a].capital
                             /\ acct'[a].reserved_pnl = acct[a].reserved_pnl
  PROVE  Claims' = Claims
<1>1. \A a \in Accounts : Claim(a)' = Claim(a)
  BY DEF Claim
<1>2. [a \in Accounts |-> Claim(a)'] = [a \in Accounts |-> Claim(a)]
  BY <1>1
<1> QED
  BY <1>2 DEF Claims

(* The fields the backing reads.                                           *)
LEMMA BackingFields ==
  ASSUME TypeOK
  PROVE  /\ risk.vault \in Word /\ risk.insurance_fund \in Word
         /\ risk.vault \in 0 .. W - 1 /\ risk.insurance_fund \in Nat
         /\ W \in Nat
BY EngineAssumption DEF TypeOK, Risk, Word

(* The same for two accounts.                                              *)
LEMMA ClaimsExchange ==
  ASSUME TypeOK, TypeOK', NEW b \in Accounts, NEW c \in Accounts, b # c,
         \A a \in Accounts \ {b, c} : Claim(a)' = Claim(a)
  PROVE  Claims' = (((Claims - Claim(b)) + Claim(b)') - Claim(c)) + Claim(c)'
<1> DEFINE f == [a \in Accounts |-> Claim(a)]
           g == [a \in Accounts |-> Claim(a)']
<1>1. \A a \in Accounts : f[a] \in Int /\ f[a] = Claim(a)
  BY AccountFields
<1>2. \A a \in Accounts : g[a] \in Int /\ g[a] = Claim(a)'
  BY NextAccountFields
<1>4. SameBut(f, g, {b, c}, Accounts)
  BY <1>1, <1>2 DEF SameBut
<1>5. Claims = SumFunctionOnSet(f, Accounts)
  BY DEF Claims, SumFunction
<1>6. Claims' = SumFunctionOnSet(g, Accounts)
  BY DEF Claims, SumFunction
<1>7. IsFiniteSet(Accounts)
  BY EngineAssumption
<1> HIDE DEF f, g
<1>8. SumFunctionOnSet(g, Accounts)
        = (((SumFunctionOnSet(f, Accounts) - f[b]) + g[b]) - f[c]) + g[c]
  <2>1. c \in Accounts \ {b}
    OBVIOUS
  <2> QED
    BY <1>4, <1>7, <2>1, SumExchange
<1> QED
  BY <1>1, <1>2, <1>5, <1>6, <1>8

(* A liquidation fee is no more than the capital it is taken from.         *)
LEMMA FeeBound ==
  ASSUME TypeOK, NEW a \in Accounts
  PROVE  LiquidationFee(a) \in Nat /\ LiquidationFee(a) <= acct[a].capital
<1> DEFINE c == acct[a].capital
           y == c * liquidation_fee_bps
           x == y % W
           q == x \div BPS
<1>1. c \in Nat
  BY AccountFields
<1>2. /\ W \in Nat \ {0} /\ BPS \in Nat \ {0}
      /\ liquidation_fee_bps \in Nat /\ liquidation_fee_bps <= BPS
      /\ liquidation_fee_cap \in Nat
  BY EngineAssumption DEF Word
<1> HIDE DEF c
<1>3. y \in Nat /\ y <= c * BPS
  BY <1>1, <1>2
<1> HIDE DEF y
<1>4. x \in Nat /\ x <= y
  BY <1>2, <1>3
<1> HIDE DEF x
<1>5. q \in Nat /\ BPS * q <= x
  BY <1>2, <1>4
<1> HIDE DEF q
<1>6. q <= c
  <2>1. CASE q >= c + 1
    <3>1. BPS * q >= BPS * (c + 1)
      BY <1>1, <1>2, <1>5, <2>1
    <3>2. BPS * (c + 1) = c * BPS + BPS /\ c * BPS \in Nat /\ BPS * q \in Nat
      BY <1>1, <1>2, <1>5
    <3> QED
      BY <1>2, <1>3, <1>4, <1>5, <3>1, <3>2
  <2> QED
    BY <1>1, <1>5, <2>1
<1>7. LiquidationFee(a) = WMin(q, liquidation_fee_cap)
  BY DEF LiquidationFee, WMul, q, x, y, c
<1> QED
  BY <1>1, <1>2, <1>5, <1>6, <1>7 DEF WMin, c

(* Where no word overflows the fund gets the fee and the liquidator all    *)
(* the rest, to the last unit.                                             *)
LEMMA LiquidationPays ==
  ASSUME TypeOK, NEW v \in Accounts, NEW l \in Accounts,
         liquidate_at_oracle(v, l),
         risk.insurance_fund + LiquidationFee(v) < W,
         l # v => acct[l].reserved_pnl + acct[v].capital
                    + acct[v].reserved_pnl < W
  PROVE  /\ risk'.vault = risk.vault
         /\ risk'.insurance_fund = risk.insurance_fund + LiquidationFee(v)
         /\ acct'[v].capital = 0 /\ acct'[v].reserved_pnl = 0
         /\ l # v => /\ acct'[l].capital = acct[l].capital
                     /\ acct'[l].reserved_pnl =
                          ((acct[l].reserved_pnl + acct[v].capital)
                             - LiquidationFee(v)) + acct[v].reserved_pnl
         /\ \A b \in Accounts \ {v, l} : acct'[b] = acct[b]
<1> DEFINE fee == LiquidationFee(v)
           part == WAdd(acct[l].reserved_pnl, acct[v].capital)
           gain == WAdd(WSub(part, fee), acct[v].reserved_pnl)
           fund == WAdd(risk.insurance_fund, fee)
           paid == [acct EXCEPT ![l].reserved_pnl = gain]
<1>a. risk \in Risk /\ acct \in [Accounts -> MarginAccount]
  BY DEF TypeOK
<1>b. /\ risk.insurance_fund \in Word /\ risk.insurance_fund \in Nat
      /\ W \in Nat /\ risk.insurance_fund + fee < W
  BY BackingFields
<1>1. fee \in Word /\ fee \in Nat /\ fee <= acct[v].capital
  BY FeeType, FeeBound
<1>2. /\ acct' = [paid EXCEPT ![v].capital = 0, ![v].reserved_pnl = 0,
                              ![v].position_basis_q = 0]
      /\ risk' = CloseOne([risk EXCEPT !.insurance_fund = fund])
  BY DEF liquidate_at_oracle
<1>3. /\ acct[v].capital \in Word /\ acct[v].capital \in Nat
      /\ acct[v].reserved_pnl \in Word /\ acct[v].reserved_pnl \in Nat
      /\ acct[l].reserved_pnl \in Word /\ acct[l].reserved_pnl \in Nat
  BY AccountFields
<1> HIDE DEF fee
<1>4. fund = risk.insurance_fund + fee
  BY <1>b, <1>1, NoWrap
<1> HIDE DEF gain, fund
<1>5. risk'.vault = risk.vault /\ risk'.insurance_fund = fund
  BY <1>a, <1>2 DEF CloseOne, Risk
<1>6. /\ acct'[v].capital = 0 /\ acct'[v].reserved_pnl = 0
      /\ l # v => /\ acct'[l].capital = acct[l].capital
                  /\ acct'[l].reserved_pnl = gain
      /\ \A b \in Accounts \ {v, l} : acct'[b] = acct[b]
  BY <1>a, <1>2 DEF MarginAccount
<1>7. ASSUME l # v
      PROVE  gain = ((acct[l].reserved_pnl + acct[v].capital) - fee)
                      + acct[v].reserved_pnl
  <2>1. acct[l].reserved_pnl + acct[v].capital + acct[v].reserved_pnl < W
    BY <1>7
  <2>2. part = acct[l].reserved_pnl + acct[v].capital /\ part \in Word
    <3>1. acct[l].reserved_pnl + acct[v].capital < W
      BY <1>b, <1>3, <2>1
    <3>2. acct[l].reserved_pnl + acct[v].capital \in Word
      BY <1>b, <1>3, <3>1 DEF Word
    <3> QED
      BY <1>3, <3>1, <3>2, NoWrap
  <2> HIDE DEF part
  <2>3. WSub(part, fee) = part - fee /\ part - fee \in Word
    <3>1. part >= fee /\ part - fee \in Word
      BY <1>b, <1>1, <1>3, <2>2 DEF Word
    <3> QED
      BY <1>1, <2>2, <3>1, NoWrap
  <2>4. (part - fee) + acct[v].reserved_pnl < W
    BY <1>b, <1>1, <1>3, <2>1, <2>2
  <2>5. WAdd(part - fee, acct[v].reserved_pnl)
          = (part - fee) + acct[v].reserved_pnl
    BY <1>3, <2>3, <2>4, NoWrap
  <2> QED
    BY <2>2, <2>3, <2>5 DEF gain
<1> QED
  BY <1>4, <1>5, <1>6, <1>7 DEF fee

(* A reserve that was overdrawn stays on record, and a conversion that     *)
(* leaves no record asks for no more than the reserve.                     *)
LEMMA OverdrawnRecorded ==
  ASSUME TypeOK, [Next]_vars, overdrawn' = 0
  PROVE  /\ overdrawn = 0
         /\ \A a \in Accounts, n \in Amounts :
              convert_released_pnl(a, n) => n <= acct[a].reserved_pnl
<1>0. overdrawn \in Nat
  BY DEF TypeOK
<1>1. \A n \in Amounts, a \in Accounts :
        n \in Nat /\ acct[a].reserved_pnl \in Nat
  BY EngineAssumption, CallAssumption, AccountFields DEF Word
<1>2. \A a \in Accounts, n \in Amounts :
        convert_released_pnl(a, n) =>
          overdrawn' \in {overdrawn, overdrawn + 1}
            /\ (n > acct[a].reserved_pnl => overdrawn' = overdrawn + 1)
  BY DEF convert_released_pnl
<1>3. \A n \in Amounts : top_up_insurance_fund(n) => UNCHANGED overdrawn
  BY DEF top_up_insurance_fund, history
<1>4. \A a \in Accounts, h \in Holders : set_owner(a, h) => UNCHANGED overdrawn
  BY DEF set_owner, history
<1>5. \A a \in Accounts, n \in Amounts :
        deposit(a, n) \/ withdraw(a, n) => UNCHANGED overdrawn
  BY DEF deposit, withdraw, Refuse, history
<1>6. \A a \in Accounts : close_account(a) => UNCHANGED overdrawn
  BY DEF close_account, Refuse, history
<1>7. Settles \/ Trades \/ Liquidations \/ Cranks => UNCHANGED overdrawn
  <2>1. Settles => UNCHANGED overdrawn
    BY DEF Settles, settle_account, history
  <2>2. Trades => UNCHANGED overdrawn
    BY DEF Trades, execute_trade, history
  <2>3. Liquidations => UNCHANGED overdrawn
    BY DEF Liquidations, liquidate_at_oracle
  <2>4. Cranks => UNCHANGED overdrawn
    BY DEF Cranks, keeper_crank, history
  <2> QED
    BY <2>1, <2>2, <2>3, <2>4
<1>8. UNCHANGED vars => UNCHANGED overdrawn
  BY DEF vars, history
<1>9. overdrawn' \in {overdrawn, overdrawn + 1}
  BY <1>2, <1>3, <1>4, <1>5, <1>6, <1>7, <1>8 DEF Next, Calls
<1>10. overdrawn = 0
  BY <1>0, <1>9
<1> QED
  BY <1>1, <1>2, <1>10

(* Every handler keeps the claims backed.                                  *)
LEMMA NextBacked ==
  ASSUME OutsideHolds, TypeOK, TypeOK', ClaimsBacked, [Next]_vars
  PROVE  ClaimsBacked'
<1> SUFFICES ASSUME overdrawn' = 0
             PROVE  ClaimsBacked'
  BY DEF ClaimsBacked
<1>0. /\ overdrawn = 0
      /\ \A a \in Accounts, n \in Amounts :
           convert_released_pnl(a, n) => n <= acct[a].reserved_pnl
  BY OverdrawnRecorded
<1>a. /\ risk \in Risk /\ acct \in [Accounts -> MarginAccount]
      /\ risk' \in Risk /\ acct' \in [Accounts -> MarginAccount]
  BY DEF TypeOK
<1>b. /\ risk.vault \in Word /\ risk.insurance_fund \in Word
      /\ risk.vault \in 0 .. W - 1 /\ risk.insurance_fund \in Nat
      /\ W \in Nat /\ Claims \in Nat
  BY BackingFields, ClaimsSum
<1>c. risk.vault >= risk.insurance_fund + Claims
  BY <1>0 DEF ClaimsBacked
<1>d. \A a \in Accounts : Claim(a) <= Claims
  BY ClaimsSum
<1>e. ASSUME risk'.vault = risk.vault,
             risk'.insurance_fund = risk.insurance_fund,
             \A a \in Accounts : /\ acct'[a].capital = acct[a].capital
                                 /\ acct'[a].reserved_pnl = acct[a].reserved_pnl
      PROVE  ClaimsBacked'
  BY <1>c, <1>e, ClaimsKept DEF ClaimsBacked
<1>1. ASSUME NEW n \in Amounts, top_up_insurance_fund(n) PROVE ClaimsBacked'
  <2>1. n \in Word /\ n \in Nat /\ BaseSupply \in 0 .. W - 1
    BY EngineAssumption, CallAssumption DEF Word
  <2>2. risk.vault + n <= BaseSupply
    BY <1>1 DEF top_up_insurance_fund, Transferable, OutsideHolds
  <2>3. /\ risk'.vault = WAdd(risk.vault, n) /\ acct' = acct
        /\ risk'.insurance_fund = WAdd(risk.insurance_fund, n)
    BY <1>1, <1>a DEF top_up_insurance_fund, Risk
  <2>4. risk.vault + n < W /\ risk.insurance_fund + n < W
    BY <1>b, <1>c, <2>1, <2>2
  <2>5. /\ risk'.vault = risk.vault + n
        /\ risk'.insurance_fund = risk.insurance_fund + n
    BY <1>b, <2>1, <2>3, <2>4, NoWrap
  <2>6. Claims' = Claims
    BY <2>3, ClaimsKept
  <2> QED
    BY <1>b, <1>c, <2>1, <2>5, <2>6 DEF ClaimsBacked
<1>2. ASSUME NEW a \in Accounts, NEW h \in Holders, set_owner(a, h)
      PROVE  ClaimsBacked'
  <2>1. \A b \in Accounts : /\ acct'[b].capital = acct[b].capital
                            /\ acct'[b].reserved_pnl = acct[b].reserved_pnl
    BY <1>2, <1>a DEF set_owner, MarginAccount
  <2> QED
    BY <1>2, <1>e, <2>1 DEF set_owner
<1>3. ASSUME NEW a \in Accounts, NEW n \in Amounts, deposit(a, n)
      PROVE  ClaimsBacked'
  <2>1. CASE WAdd(risk.vault, n) > MAX_VAULT_TVL
    BY <1>3, <1>e, <2>1 DEF deposit, Refuse
  <2>2. CASE ~(WAdd(risk.vault, n) > MAX_VAULT_TVL)
    <3>1. n \in Word /\ n \in Nat /\ BaseSupply \in 0 .. W - 1
      BY EngineAssumption, CallAssumption DEF Word
    <3>2. risk.vault + n <= BaseSupply
      BY <1>3 DEF deposit, Transferable, OutsideHolds
    <3> DEFINE debt == IF Flat(a) /\ ~Negative(acct[a].pnl) THEN 0
                       ELSE acct[a].fee_credits
    <3>3. /\ risk' = [risk EXCEPT !.vault = WAdd(@, n),
                                  !.c_tot = WAdd(@, n)]
          /\ acct' = [acct EXCEPT ![a].capital = WAdd(@, n),
                                  ![a].fee_credits = debt]
      BY <1>3, <2>2 DEF deposit
    <3> HIDE DEF debt
    <3>4. /\ risk'.vault = WAdd(risk.vault, n)
          /\ risk'.insurance_fund = risk.insurance_fund
          /\ acct'[a].capital = WAdd(acct[a].capital, n)
          /\ acct'[a].reserved_pnl = acct[a].reserved_pnl
          /\ \A b \in Accounts \ {a} : acct'[b] = acct[b]
      BY <1>a, <3>3 DEF Risk, MarginAccount
    <3>5. /\ acct[a].capital \in Word /\ acct[a].capital \in Nat
          /\ acct[a].reserved_pnl \in Nat
          /\ Claim(a) = acct[a].capital + acct[a].reserved_pnl
      BY AccountFields
    <3>6. risk.vault + n < W /\ acct[a].capital + n < W
      BY <1>b, <1>c, <1>d, <3>1, <3>2, <3>5
    <3>7. /\ risk'.vault = risk.vault + n
          /\ acct'[a].capital = acct[a].capital + n
      BY <1>b, <3>1, <3>4, <3>5, <3>6, NoWrap
    <3>8. Claims' = (Claims - Claim(a)) + Claim(a)'
      BY <3>4, ClaimsChange DEF Claim
    <3>9. Claim(a)' = Claim(a) + n
      BY <3>1, <3>4, <3>5, <3>7 DEF Claim
    <3> QED
      BY <1>b, <1>c, <3>1, <3>4, <3>5, <3>7, <3>8, <3>9 DEF ClaimsBacked
  <2> QED
    BY <2>1, <2>2
<1>4. ASSUME NEW a \in Accounts, NEW n \in Amounts, withdraw(a, n)
      PROVE  ClaimsBacked'
  <2>1. CASE WithdrawStatus(a, n) # 0
    BY <1>4, <1>e, <2>1 DEF withdraw, Refuse
  <2>2. CASE WithdrawStatus(a, n) = 0
    <3>1. n \in Word /\ n \in Nat
      BY EngineAssumption, CallAssumption DEF Word
    <3>2. /\ acct[a].capital \in Word /\ acct[a].capital \in Nat
          /\ acct[a].reserved_pnl \in Nat
          /\ Claim(a) = acct[a].capital + acct[a].reserved_pnl
      BY AccountFields
    <3>3. n <= acct[a].capital
      BY <2>2, <3>1, <3>2 DEF WithdrawStatus
    <3>4. /\ risk' = [risk EXCEPT !.vault = WSub(@, n),
                                  !.c_tot = WSub(@, n)]
          /\ acct' = [acct EXCEPT ![a].capital = WSub(@, n)]
      BY <1>4, <2>2 DEF withdraw
    <3>5. /\ risk'.vault = WSub(risk.vault, n)
          /\ risk'.insurance_fund = risk.insurance_fund
          /\ acct'[a].capital = WSub(acct[a].capital, n)
          /\ acct'[a].reserved_pnl = acct[a].reserved_pnl
          /\ \A b \in Accounts \ {a} : acct'[b] = acct[b]
      BY <1>a, <3>4 DEF Risk, MarginAccount
    <3>6. risk.vault >= n /\ acct[a].capital >= n
      BY <1>b, <1>c, <1>d, <3>1, <3>2, <3>3
    <3>7. /\ risk'.vault = risk.vault - n
          /\ acct'[a].capital = acct[a].capital - n
      BY <1>b, <3>1, <3>2, <3>5, <3>6, NoWrap
    <3>8. Claims' = (Claims - Claim(a)) + Claim(a)'
      BY <3>5, ClaimsChange DEF Claim
    <3>9. Claim(a)' = Claim(a) - n
      BY <3>1, <3>2, <3>5, <3>7 DEF Claim
    <3> QED
      BY <1>b, <1>c, <3>1, <3>2, <3>5, <3>7, <3>8, <3>9 DEF ClaimsBacked
  <2> QED
    BY <2>1, <2>2
<1>5. ASSUME NEW a \in Accounts, NEW n \in Amounts,
             convert_released_pnl(a, n)
      PROVE  ClaimsBacked'
  <2>1. n \in Word /\ n \in Nat
    BY EngineAssumption, CallAssumption DEF Word
  <2>2. /\ acct[a].capital \in Word /\ acct[a].capital \in Nat
        /\ acct[a].reserved_pnl \in Word /\ acct[a].reserved_pnl \in Nat
        /\ Claim(a) = acct[a].capital + acct[a].reserved_pnl
    BY AccountFields
  <2>3. n <= acct[a].reserved_pnl
    BY <1>0, <1>5
  <2>4. /\ acct'[a].capital = WAdd(acct[a].capital, n)
        /\ acct'[a].reserved_pnl = WSub(acct[a].reserved_pnl, n)
        /\ \A b \in Accounts \ {a} : acct'[b] = acct[b]
        /\ risk' = risk
    BY <1>5, <1>a DEF convert_released_pnl, MarginAccount
  <2>5. acct[a].capital + n < W /\ acct[a].reserved_pnl >= n
    BY <1>b, <1>c, <1>d, <2>1, <2>2, <2>3
  <2>6. /\ acct'[a].capital = acct[a].capital + n
        /\ acct'[a].reserved_pnl = acct[a].reserved_pnl - n
    BY <2>1, <2>2, <2>4, <2>5, NoWrap
  <2>7. Claims' = (Claims - Claim(a)) + Claim(a)'
    BY <2>4, ClaimsChange DEF Claim
  <2>8. Claim(a)' = Claim(a)
    BY <2>1, <2>2, <2>6 DEF Claim
  <2> QED
    BY <1>b, <1>c, <2>2, <2>4, <2>7, <2>8 DEF ClaimsBacked
<1>6. ASSUME NEW a \in Accounts, close_account(a) PROVE ClaimsBacked'
  <2> DEFINE n == acct[a].capital
  <2>1. CASE CloseStatus(a) # 0
    BY <1>6, <1>e, <2>1 DEF close_account, Refuse
  <2>2. CASE CloseStatus(a) = 0
    <3>1. /\ acct[a].reserved_pnl = 0
          /\ n \in Word /\ n \in Nat /\ 0 \in Word
          /\ Claim(a) = n + acct[a].reserved_pnl
      BY <2>2, AccountFields, WordFacts DEF CloseStatus
    <3>2. risk.vault >= n
      BY <1>b, <1>c, <1>d, <3>1
    <3> DEFINE v == WSub(WSub(risk.vault, n), acct[a].reserved_pnl)
               c == WSub(risk.c_tot, n)
    <3>3. WSub(risk.vault, n) = risk.vault - n
      BY <1>b, <3>1, <3>2, NoWrap
    <3>4. v = risk.vault - n
      <4>1. risk.vault - n \in Word /\ risk.vault - n >= 0
        BY <1>b, <3>1, <3>2 DEF Word
      <4>2. WSub(risk.vault - n, 0) = (risk.vault - n) - 0
        BY <3>1, <4>1, NoWrap
      <4> QED
        BY <1>b, <3>1, <3>3, <4>2
    <3>5. /\ risk' = CloseOne([risk EXCEPT !.vault = v, !.c_tot = c])
          /\ acct' = [acct EXCEPT ![a].capital = 0, ![a].reserved_pnl = 0]
      BY <1>6, <2>2 DEF close_account
    <3> HIDE DEF v, c, n
    <3>6. /\ risk'.vault = v /\ risk'.insurance_fund = risk.insurance_fund
          /\ acct'[a].capital = 0 /\ acct'[a].reserved_pnl = 0
          /\ \A b \in Accounts \ {a} : acct'[b] = acct[b]
      BY <1>a, <3>5 DEF CloseOne, Risk, MarginAccount
    <3>7. Claims' = (Claims - Claim(a)) + Claim(a)'
      BY <3>6, ClaimsChange DEF Claim
    <3>8. Claim(a)' = 0
      BY <3>6 DEF Claim
    <3> QED
      BY <1>b, <1>c, <3>1, <3>4, <3>6, <3>7, <3>8 DEF ClaimsBacked
  <2> QED
    BY <2>1, <2>2
<1>7. ASSUME NEW a \in Accounts, NEW p \in Prices, NEW s \in Slots,
             NEW r \in Rates, settle_account(a, p, s, r)
      PROVE  ClaimsBacked'
  <2> DEFINE m == Settled(acct[a], r)
  <2>1. /\ acct[a] \in MarginAccount
        /\ acct[a].capital \in Nat /\ acct[a].reserved_pnl \in Nat
        /\ Claim(a) = acct[a].capital + acct[a].reserved_pnl
        /\ Claim(a) \in Nat
    BY AccountFields
  <2>2. min_nonzero_im_req \in Nat
    BY WordFacts, EngineAssumption DEF Word
  <2>3. /\ m.reserved_pnl = acct[a].reserved_pnl
        /\ m.capital \in Nat /\ m.capital <= acct[a].capital
    BY <2>1, <2>2 DEF Settled, MarginAccount
  <2> HIDE DEF m
  <2>4. /\ acct'[a] = m
        /\ \A b \in Accounts \ {a} : acct'[b] = acct[b]
        /\ risk'.vault = risk.vault
        /\ risk'.insurance_fund = risk.insurance_fund
    BY <1>7, <1>a DEF settle_account, m, Risk
  <2>5. Claims' = (Claims - Claim(a)) + Claim(a)'
    BY <2>4, ClaimsChange DEF Claim
  <2>6. Claim(a)' = m.capital + m.reserved_pnl
    BY <2>4 DEF Claim
  <2> QED
    BY <1>b, <1>c, <2>1, <2>3, <2>4, <2>5, <2>6 DEF ClaimsBacked
<1>8. ASSUME NEW t \in Accounts, NEW m \in Accounts, NEW o \in Prices,
             NEW x \in Prices, NEW s \in Sizes, NEW f \in Fees,
             execute_trade(t, m, o, s, x, f)
      PROVE  ClaimsBacked'
  <2> DEFINE pnl == WMul(PriceDelta(o, x), s)
             half == [acct EXCEPT ![t] = Traded(acct[t], s, pnl, f)]
             full == [half EXCEPT ![m] = MirrorTraded(half[m], s, pnl, f)]
  <2>1. acct' = full /\ risk' = risk
    BY <1>8 DEF execute_trade
  <2> HIDE DEF pnl
  <2>2. \A b \in Accounts : /\ half[b].capital = acct[b].capital
                            /\ half[b].reserved_pnl = acct[b].reserved_pnl
    BY <1>a DEF Traded, MarginAccount
  <2>3. half \in [Accounts -> MarginAccount]
    <3>1. pnl \in Word /\ s \in Word /\ f \in Word
      BY PriceDeltaType, WMulType, WordFacts DEF pnl
    <3> QED
      BY <1>a, <3>1, TradedType
  <2> HIDE DEF half
  <2>4. \A b \in Accounts : /\ full[b].capital = half[b].capital
                            /\ full[b].reserved_pnl = half[b].reserved_pnl
    BY <2>3 DEF MirrorTraded, MarginAccount
  <2> QED
    BY <1>e, <2>1, <2>2, <2>4
<1>9. ASSUME NEW v \in Accounts, NEW l \in Accounts, liquidate_at_oracle(v, l)
      PROVE  ClaimsBacked'
  <2> DEFINE fee == LiquidationFee(v)
  <2>1. fee \in Nat /\ fee <= acct[v].capital
    BY FeeBound
  <2>2. /\ acct[v].capital \in Nat /\ acct[v].reserved_pnl \in Nat
        /\ Claim(v) = acct[v].capital + acct[v].reserved_pnl
        /\ acct[l].capital \in Nat /\ acct[l].reserved_pnl \in Nat
        /\ Claim(l) = acct[l].capital + acct[l].reserved_pnl
    BY AccountFields
  <2>a. /\ risk.insurance_fund + fee < W
        /\ l # v => acct[l].reserved_pnl + acct[v].capital
                      + acct[v].reserved_pnl < W
    <3> HIDE DEF fee
    <3>1. Claim(v) <= Claims /\ (l # v => Claim(l) + Claim(v) <= Claims)
      BY ClaimsSum
    <3> QED
      BY <1>b, <1>c, <2>1, <2>2, <3>1
  <2>3. /\ risk'.vault = risk.vault
        /\ risk'.insurance_fund = risk.insurance_fund + fee
        /\ acct'[v].capital = 0 /\ acct'[v].reserved_pnl = 0
        /\ l # v => /\ acct'[l].capital = acct[l].capital
                    /\ acct'[l].reserved_pnl =
                         ((acct[l].reserved_pnl + acct[v].capital) - fee)
                           + acct[v].reserved_pnl
        /\ \A b \in Accounts \ {v, l} : acct'[b] = acct[b]
    BY <1>9, <2>a, LiquidationPays
  <2> HIDE DEF fee
  <2>4. Claim(v)' = 0
    BY <2>3 DEF Claim
  <2>5. CASE l = v
    <3>1. Claims' = (Claims - Claim(v)) + Claim(v)'
      BY <2>3, <2>5, ClaimsChange DEF Claim
    <3> QED
      BY <1>b, <1>c, <2>1, <2>2, <2>3, <2>4, <3>1 DEF ClaimsBacked
  <2>6. CASE l # v
    <3>1. Claims' = (((Claims - Claim(v)) + Claim(v)') - Claim(l)) + Claim(l)'
      BY <2>3, <2>6, ClaimsExchange DEF Claim
    <3>2. Claim(l)' = acct[l].capital
                        + (((acct[l].reserved_pnl + acct[v].capital) - fee)
                             + acct[v].reserved_pnl)
      BY <2>3, <2>6 DEF Claim
    <3> QED
      BY <1>b, <1>c, <2>1, <2>2, <2>3, <2>4, <3>1, <3>2 DEF ClaimsBacked
  <2> QED
    BY <2>5, <2>6
<1>10. ASSUME NEW s \in Slots, NEW p \in Prices, NEW r \in Rates,
              keeper_crank(s, p, r)
       PROVE  ClaimsBacked'
  BY <1>10, <1>a, <1>e DEF keeper_crank, Risk
<1>11. CASE UNCHANGED vars
  BY <1>11, <1>e DEF vars
<1> QED
  BY <1>1, <1>2, <1>3, <1>4, <1>5, <1>6, <1>7, <1>8, <1>9, <1>10, <1>11
  DEF Next, Calls, Settles, Trades, Liquidations, Cranks

(* As long as no conversion asks for more than its reserve, which the body *)
(* would not refuse, no order of calls pays out what was not paid in, for  *)
(* every number of accounts and every word: the vault covers the insurance *)
(* fund and every claim.  The one hypothesis is that a token transfer      *)
(* moves tokens that exist.                                                *)
THEOREM Backed == ASSUME OutsideHolds
                  PROVE  Spec => []ClaimsBacked
<1>1. Init => ClaimsBacked
  <2> SUFFICES ASSUME Init PROVE ClaimsBacked
    OBVIOUS
  <2> DEFINE f == [a \in Accounts |-> Claim(a)]
  <2>1. \A a \in Accounts : f[a] = 0
    BY DEF Init, Claim
  <2>2. Claims = SumFunctionOnSet(f, Accounts)
    BY DEF Claims, SumFunction
  <2>3. IsFiniteSet(Accounts)
    BY EngineAssumption
  <2> HIDE DEF f
  <2>4. Claims = 0
    BY <2>1, <2>2, <2>3, SumZero
  <2> QED
    BY <2>4 DEF Init, ClaimsBacked
<1>2. TypeOK /\ TypeOK' /\ ClaimsBacked /\ [Next]_vars => ClaimsBacked'
  BY NextBacked
<1> QED
  BY <1>1, <1>2, EngineTypes, PTL DEF Spec

(* No handler cuts the capital of a position below the requirement,        *)
(* except with a sum that overflows.                                       *)
CollateralStep ==
  \A a \in Accounts :
    ~Flat(a) /\ ~Flat(a)' /\ acct'[a].capital < acct[a].capital
      => \/ acct'[a].capital >= min_nonzero_im_req
         \/ \E n \in Amounts : acct[a].capital + n = acct'[a].capital + W

(* A sum of two words below one of them has wrapped, once.                 *)
LEMMA WrapsOnce ==
  ASSUME NEW a \in Word, NEW b \in Word, WAdd(a, b) < a
  PROVE  a + b = WAdd(a, b) + W
<1>1. W \in Nat \ {0} /\ a \in 0 .. W - 1 /\ b \in 0 .. W - 1
  BY EngineAssumption DEF Word
<1>2. CASE a + b < W
  <2>1. WAdd(a, b) = a + b
    BY <1>2, NoWrap
  <2> QED
    BY <1>1, <2>1
<1>3. CASE a + b >= W
  <2> DEFINE d == a + b - W
             q == 1
  <2>1. d \in 0 .. W - 1 /\ q \in Int /\ W * q + d = a + b
    BY <1>1, <1>3
  <2> HIDE DEF d, q
  <2>2. (W * q + d) % W = d
    BY <1>1, <2>1, ModUnique
  <2> QED
    BY <1>1, <2>1, <2>2 DEF WAdd, d
<1> QED
  BY <1>1, <1>2, <1>3

(* Every handler that cuts the capital of a position stops there.          *)
LEMMA NextCollateral ==
  ASSUME TypeOK, [Next]_vars
  PROVE  CollateralStep
<1> SUFFICES ASSUME NEW b \in Accounts, ~Flat(b), ~Flat(b)',
                    acct'[b].capital < acct[b].capital
             PROVE  \/ acct'[b].capital >= min_nonzero_im_req
                    \/ \E n \in Amounts :
                         acct[b].capital + n = acct'[b].capital + W
  BY DEF CollateralStep
<1>a. acct \in [Accounts -> MarginAccount]
  BY DEF TypeOK
<1>b. acct[b].capital \in Word /\ acct[b].capital \in Nat
  BY AccountFields
<1>c. ~(acct'[b].capital = acct[b].capital)
  BY <1>b
<1>d. \A n \in Amounts : n \in Word /\ n \in Nat
  BY EngineAssumption, CallAssumption DEF Word
<1>e. ASSUME NEW n \in Amounts, acct'[b].capital = WAdd(acct[b].capital, n)
      PROVE  acct[b].capital + n = acct'[b].capital + W
  BY <1>b, <1>d, <1>e, WrapsOnce
<1>1. ASSUME NEW n \in Amounts, top_up_insurance_fund(n) PROVE FALSE
  BY <1>1, <1>c DEF top_up_insurance_fund
<1>2. ASSUME NEW a \in Accounts, NEW h \in Holders, set_owner(a, h)
      PROVE  FALSE
  BY <1>2, <1>a, <1>c DEF set_owner, MarginAccount
<1>3. ASSUME NEW a \in Accounts, NEW n \in Amounts, deposit(a, n)
      PROVE  acct[b].capital + n = acct'[b].capital + W
  <2>1. b = a /\ acct'[b].capital = WAdd(acct[b].capital, n)
    BY <1>3, <1>a, <1>c DEF deposit, Refuse, MarginAccount
  <2> QED
    BY <1>e, <2>1
<1>4. ASSUME NEW a \in Accounts, NEW n \in Amounts, withdraw(a, n)
      PROVE  acct'[b].capital >= min_nonzero_im_req
  <2>1. /\ b = a /\ WithdrawStatus(a, n) = 0
        /\ acct'[b].capital = WSub(acct[b].capital, n)
    BY <1>4, <1>a, <1>c DEF withdraw, Refuse, MarginAccount
  <2>2. ~(WSub(acct[b].capital, n) < min_nonzero_im_req)
    BY <2>1 DEF WithdrawStatus
  <2>3. WSub(acct[b].capital, n) \in Int /\ min_nonzero_im_req \in Int
    BY <1>b, <1>d, WAddSubType, WordFacts
  <2> QED
    BY <2>1, <2>2, <2>3
<1>5. ASSUME NEW a \in Accounts, NEW n \in Amounts,
             convert_released_pnl(a, n)
      PROVE  acct[b].capital + n = acct'[b].capital + W
  <2>1. b = a /\ acct'[b].capital = WAdd(acct[b].capital, n)
    BY <1>5, <1>a, <1>c DEF convert_released_pnl, MarginAccount
  <2> QED
    BY <1>e, <2>1
<1>6. ASSUME NEW a \in Accounts, close_account(a) PROVE FALSE
  <2>1. b = a /\ CloseStatus(a) = 0
    BY <1>6, <1>a, <1>c DEF close_account, Refuse, MarginAccount
  <2> QED
    BY <2>1 DEF CloseStatus
<1>7. ASSUME NEW a \in Accounts, NEW p \in Prices, NEW s \in Slots,
             NEW r \in Rates, settle_account(a, p, s, r)
      PROVE  acct'[b].capital >= min_nonzero_im_req
  <2>1. acct' = [acct EXCEPT ![a] = Settled(acct[a], r)]
    BY <1>7 DEF settle_account
  <2>2. acct'[b].capital \in {acct[b].capital, min_nonzero_im_req}
    BY <1>a, <2>1 DEF Settled, MarginAccount
  <2>3. min_nonzero_im_req \in Int
    BY WordFacts
  <2> QED
    BY <1>c, <2>2, <2>3
<1>8. ASSUME NEW t \in Accounts, NEW m \in Accounts, NEW o \in Prices,
             NEW x \in Prices, NEW s \in Sizes, NEW f \in Fees,
             execute_trade(t, m, o, s, x, f)
      PROVE  FALSE
  <2> DEFINE pnl == WMul(PriceDelta(o, x), s)
             half == [acct EXCEPT ![t] = Traded(acct[t], s, pnl, f)]
             full == [half EXCEPT ![m] = MirrorTraded(half[m], s, pnl, f)]
  <2>1. acct' = full
    BY <1>8 DEF execute_trade
  <2>2. half \in [Accounts -> MarginAccount]
    <3>1. pnl \in Word /\ s \in Word /\ f \in Word
      BY PriceDeltaType, WMulType, WordFacts
    <3> HIDE DEF pnl
    <3> QED
      BY <1>a, <3>1, TradedType
  <2> HIDE DEF pnl
  <2>3. half[b].capital = acct[b].capital
    BY <1>a DEF Traded, MarginAccount
  <2> HIDE DEF half
  <2>4. full[b].capital = half[b].capital
    BY <2>2 DEF MirrorTraded, MarginAccount
  <2> QED
    BY <1>c, <2>1, <2>3, <2>4
<1>9. ASSUME NEW v \in Accounts, NEW l \in Accounts, liquidate_at_oracle(v, l)
      PROVE  FALSE
  <2> DEFINE fee == LiquidationFee(v)
             gain == WAdd(WSub(WAdd(acct[l].reserved_pnl, acct[v].capital), fee),
                          acct[v].reserved_pnl)
             paid == [acct EXCEPT ![l].reserved_pnl = gain]
  <2>1. acct' = [paid EXCEPT ![v].capital = 0, ![v].reserved_pnl = 0,
                             ![v].position_basis_q = 0]
    BY <1>9 DEF liquidate_at_oracle
  <2> HIDE DEF gain
  <2>2. CASE b = v
    <3>1. acct'[b].position_basis_q = 0
      BY <1>a, <2>1, <2>2 DEF MarginAccount
    <3> QED
      BY <3>1 DEF Flat
  <2>3. CASE b # v
    <3>1. acct'[b].capital = acct[b].capital
      BY <1>a, <2>1, <2>3 DEF MarginAccount
    <3> QED
      BY <1>c, <3>1
  <2> QED
    BY <2>2, <2>3
<1>10. ASSUME NEW s \in Slots, NEW p \in Prices, NEW r \in Rates,
              keeper_crank(s, p, r)
       PROVE  FALSE
  BY <1>10, <1>c DEF keeper_crank
<1>11. CASE UNCHANGED vars
  BY <1>11, <1>c DEF vars
<1> QED
  BY <1>1, <1>2, <1>3, <1>4, <1>5, <1>6, <1>7, <1>8, <1>9, <1>10, <1>11
  DEF Next, Calls, Settles, Trades, Liquidations, Cranks

(* An account that keeps its position keeps the margin requirement against *)
(* every handler that takes from its capital, in every state whatever was  *)
(* overdrawn before: the one way down is a sum that overflows its word,    *)
(* and it takes exactly that.                                              *)
THEOREM CollateralKept == Spec => PositionsKeepCollateral
<1>1. TypeOK /\ [Next]_vars => [CollateralStep]_vars
  BY NextCollateral
<1> QED
  BY <1>1, EngineTypes, PTL
  DEF Spec, PositionsKeepCollateral, CollateralStep

------------------------------------------------------------------------------
(* Trades.                                                                 *)

(* A trade creates nothing: what one side of it gains the other loses, on  *)
(* positions, PnL and credits, and when both sides are one account.        *)
ZeroSumStep ==
  acct' # acct /\ Trades =>
    /\ Summed([a \in Accounts |-> acct'[a].pnl])
         = Summed([a \in Accounts |-> acct[a].pnl])
    /\ Summed([a \in Accounts |-> acct'[a].fee_credits])
         = Summed([a \in Accounts |-> acct[a].fee_credits])
    /\ Summed([a \in Accounts |-> acct'[a].position_basis_q])
         = Summed([a \in Accounts |-> acct[a].position_basis_q])

(* The two writes of a trade, in their order: the maker's account is read  *)
(* after the taker's was written.                                          *)
Half(t, s, pnl, f) == [acct EXCEPT ![t] = Traded(@, s, pnl, f)]
Full(t, m, s, pnl, f) ==
  [Half(t, s, pnl, f) EXCEPT ![m] = MirrorTraded(@, s, pnl, f)]

(* Each write changes one account, by the wrapped amounts.                 *)
OneAfterTheOther(h, g, t, m, s, pnl, f) ==
  /\ h \in [Accounts -> MarginAccount]
  /\ g \in [Accounts -> MarginAccount]
  /\ \A c \in Accounts \ {t} : h[c] = acct[c]
  /\ \A c \in Accounts \ {m} : g[c] = h[c]
  /\ h[t].position_basis_q = WAdd(acct[t].position_basis_q, s)
  /\ h[t].pnl = WAdd(acct[t].pnl, pnl)
  /\ h[t].fee_credits = WSub(acct[t].fee_credits, f)
  /\ g[m].position_basis_q = WSub(h[m].position_basis_q, s)
  /\ g[m].pnl = WSub(h[m].pnl, pnl)
  /\ g[m].fee_credits = WAdd(h[m].fee_credits, f)

(* The two writes do that.                                                 *)
LEMMA TradeWrites ==
  ASSUME TypeOK, NEW t \in Accounts, NEW m \in Accounts,
         NEW s \in Word, NEW pnl \in Word, NEW f \in Word
  PROVE  OneAfterTheOther(Half(t, s, pnl, f), Full(t, m, s, pnl, f),
                          t, m, s, pnl, f)
<1> DEFINE h == Half(t, s, pnl, f)
           g == Full(t, m, s, pnl, f)
<1>1. acct \in [Accounts -> MarginAccount]
  BY DEF TypeOK
<1>2. h = [acct EXCEPT ![t] = Traded(acct[t], s, pnl, f)]
  BY DEF Half
<1>3. g = [h EXCEPT ![m] = MirrorTraded(h[m], s, pnl, f)]
  BY DEF Full
<1> HIDE DEF h, g
<1>4. /\ h \in [Accounts -> MarginAccount]
      /\ h[t] = Traded(acct[t], s, pnl, f)
      /\ \A c \in Accounts \ {t} : h[c] = acct[c]
  BY <1>1, <1>2, TradedType
<1>5. /\ g \in [Accounts -> MarginAccount]
      /\ g[m] = MirrorTraded(h[m], s, pnl, f)
      /\ \A c \in Accounts \ {m} : g[c] = h[c]
  BY <1>3, <1>4, TradedType
<1>6. /\ h[t].position_basis_q = WAdd(acct[t].position_basis_q, s)
      /\ h[t].pnl = WAdd(acct[t].pnl, pnl)
      /\ h[t].fee_credits = WSub(acct[t].fee_credits, f)
  BY <1>1, <1>4 DEF Traded, MarginAccount
<1>7. /\ g[m].position_basis_q = WSub(h[m].position_basis_q, s)
      /\ g[m].pnl = WSub(h[m].pnl, pnl)
      /\ g[m].fee_credits = WAdd(h[m].fee_credits, f)
  BY <1>4, <1>5 DEF MirrorTraded, MarginAccount
<1> QED
  BY <1>4, <1>5, <1>6, <1>7 DEF h, g, OneAfterTheOther

(* A trade is these two writes.                                            *)
LEMMA TradeSteps ==
  ASSUME NEW t \in Accounts, NEW m \in Accounts, NEW o \in Prices,
         NEW x \in Prices, NEW s \in Sizes, NEW f \in Fees,
         execute_trade(t, m, o, s, x, f)
  PROVE  LET pnl == WMul(PriceDelta(o, x), s)
             g == Full(t, m, s, pnl, f)
         IN  /\ s \in Word /\ f \in Word /\ pnl \in Word
             /\ acct' = g
             /\ status' = IF \/ Magnitude(g[t].position_basis_q) > MAX_POSITION_ABS_Q
                             \/ Magnitude(g[m].position_basis_q) > MAX_POSITION_ABS_Q
                          THEN 1 ELSE 0
<1>1. s \in Word /\ f \in Word /\ WMul(PriceDelta(o, x), s) \in Word
  BY PriceDeltaType, WMulType, WordFacts
<1> QED
  BY <1>1 DEF execute_trade, Return, Full, Half

(* Every trade is zero-sum.                                                *)
LEMMA TradeZeroSum == TypeOK => ZeroSumStep
<1> SUFFICES ASSUME TypeOK,
                    NEW t \in Accounts, NEW m \in Accounts, NEW o \in Prices,
                    NEW p \in Prices, NEW s \in Sizes, NEW f \in Fees,
                    execute_trade(t, m, o, s, p, f)
             PROVE  /\ Summed([a \in Accounts |-> acct'[a].pnl])
                         = Summed([a \in Accounts |-> acct[a].pnl])
                    /\ Summed([a \in Accounts |-> acct'[a].fee_credits])
                         = Summed([a \in Accounts |-> acct[a].fee_credits])
                    /\ Summed([a \in Accounts |-> acct'[a].position_basis_q])
                         = Summed([a \in Accounts |-> acct[a].position_basis_q])
  BY DEF ZeroSumStep, Trades
<1> DEFINE pnl == WMul(PriceDelta(o, p), s)
           h == Half(t, s, pnl, f)
           g == Full(t, m, s, pnl, f)
<1>1. s \in Word /\ f \in Word /\ pnl \in Word /\ acct' = g
  BY TradeSteps
<1>2. acct \in [Accounts -> MarginAccount]
  BY DEF TypeOK
<1> HIDE DEF pnl
<1>3. /\ h \in [Accounts -> MarginAccount]
      /\ g \in [Accounts -> MarginAccount]
      /\ \A c \in Accounts \ {t} : h[c] = acct[c]
      /\ \A c \in Accounts \ {m} : g[c] = h[c]
      /\ h[t].position_basis_q = WAdd(acct[t].position_basis_q, s)
      /\ h[t].pnl = WAdd(acct[t].pnl, pnl)
      /\ h[t].fee_credits = WSub(acct[t].fee_credits, f)
      /\ g[m].position_basis_q = WSub(h[m].position_basis_q, s)
      /\ g[m].pnl = WSub(h[m].pnl, pnl)
      /\ g[m].fee_credits = WAdd(h[m].fee_credits, f)
  BY <1>1, TradeWrites DEF OneAfterTheOther
<1> HIDE DEF h, g
<1>4. s \in Int /\ f \in Int /\ -f \in Int /\ pnl \in Int
  BY <1>1, WordFacts
<1>5. \A c \in Accounts :
        /\ acct[c].pnl \in Int /\ h[c].pnl \in Int /\ g[c].pnl \in Int
        /\ acct[c].fee_credits \in Int /\ h[c].fee_credits \in Int
        /\ g[c].fee_credits \in Int
        /\ acct[c].position_basis_q \in Int /\ h[c].position_basis_q \in Int
        /\ g[c].position_basis_q \in Int
  BY <1>2, <1>3, WordFacts DEF MarginAccount
<1>9. IsFiniteSet(Accounts) /\ W \in Nat \ {0}
  BY EngineAssumption
<1>6. Summed([a \in Accounts |-> g[a].pnl]) = Summed([a \in Accounts |-> acct[a].pnl])
  <2> DEFINE x == [a \in Accounts |-> acct[a].pnl]
             y == [a \in Accounts |-> h[a].pnl]
             z == [a \in Accounts |-> g[a].pnl]
             n == pnl
  <2>1. Gains(x, y, t, n, W, Accounts) /\ Loses(y, z, m, n, W, Accounts)
    BY <1>3, <1>4, <1>5 DEF SameBut, Gains, Loses, WAdd, WSub
  <2>3. Summed(z) = SumFunctionOnSet(z, Accounts) % W
        /\ Summed(x) = SumFunctionOnSet(x, Accounts) % W
    BY DEF Summed, SumFunction
  <2> HIDE DEF x, y, z, n
  <2>4. SumFunctionOnSet(z, Accounts) % W = SumFunctionOnSet(x, Accounts) % W
    BY <1>4, <1>9, <2>1, SumCancels DEF n
  <2> QED
    BY <2>3, <2>4 DEF x, z
<1>7. Summed([a \in Accounts |-> g[a].fee_credits])
        = Summed([a \in Accounts |-> acct[a].fee_credits])
  <2> DEFINE x == [a \in Accounts |-> acct[a].fee_credits]
             y == [a \in Accounts |-> h[a].fee_credits]
             z == [a \in Accounts |-> g[a].fee_credits]
             n == -f
  <2>1. Gains(x, y, t, n, W, Accounts) /\ Loses(y, z, m, n, W, Accounts)
    <3>1. y[t] = (x[t] - f) % W /\ z[m] = (y[m] + f) % W
      BY <1>3 DEF WAdd, WSub
    <3>2. x[t] - f = x[t] + n /\ y[m] + f = y[m] - n
      BY <1>4, <1>5
    <3> QED
      BY <1>3, <1>5, <3>1, <3>2 DEF SameBut, Gains, Loses
  <2>3. Summed(z) = SumFunctionOnSet(z, Accounts) % W
        /\ Summed(x) = SumFunctionOnSet(x, Accounts) % W
    BY DEF Summed, SumFunction
  <2>4. n \in Int
    BY <1>4
  <2> HIDE DEF x, y, z, n
  <2>5. SumFunctionOnSet(z, Accounts) % W = SumFunctionOnSet(x, Accounts) % W
    BY <1>9, <2>1, <2>4, SumCancels
  <2> QED
    BY <2>3, <2>5 DEF x, z
<1>8. Summed([a \in Accounts |-> g[a].position_basis_q])
        = Summed([a \in Accounts |-> acct[a].position_basis_q])
  <2> DEFINE x == [a \in Accounts |-> acct[a].position_basis_q]
             y == [a \in Accounts |-> h[a].position_basis_q]
             z == [a \in Accounts |-> g[a].position_basis_q]
             n == s
  <2>1. Gains(x, y, t, n, W, Accounts) /\ Loses(y, z, m, n, W, Accounts)
    BY <1>3, <1>4, <1>5 DEF SameBut, Gains, Loses, WAdd, WSub
  <2>3. Summed(z) = SumFunctionOnSet(z, Accounts) % W
        /\ Summed(x) = SumFunctionOnSet(x, Accounts) % W
    BY DEF Summed, SumFunction
  <2> HIDE DEF x, y, z
  <2>4. SumFunctionOnSet(z, Accounts) % W = SumFunctionOnSet(x, Accounts) % W
    BY <1>4, <1>9, <2>1, SumCancels DEF n
  <2> QED
    BY <2>3, <2>4 DEF x, z
<1> QED
  BY <1>1, <1>6, <1>7, <1>8

(* A trade creates nothing, however positions, PnL and credits wrap, for   *)
(* every number of accounts and an account trading with itself included.   *)
THEOREM ZeroSum == Spec => TradesZeroSum
<1>1. TypeOK /\ [Next]_vars => [ZeroSumStep]_vars
  BY TradeZeroSum
<1> QED
  BY <1>1, EngineTypes, PTL DEF Spec, TradesZeroSum, ZeroSumStep

(* What an accepted trade leaves of a position.                            *)
BoundsStep ==
  acct' # acct /\ status' = 0 /\ Trades =>
    \A a \in Accounts :
      acct'[a].position_basis_q # acct[a].position_basis_q =>
        \/ acct'[a].position_basis_q <= MAX_POSITION_ABS_Q
        \/ W - acct'[a].position_basis_q <= MAX_POSITION_ABS_Q

(* Every accepted trade leaves the two positions within the bound.         *)
LEMMA TradeWithinBounds == TypeOK => BoundsStep
<1> SUFFICES ASSUME TypeOK,
                    NEW t \in Accounts, NEW m \in Accounts, NEW o \in Prices,
                    NEW p \in Prices, NEW s \in Sizes, NEW f \in Fees,
                    execute_trade(t, m, o, s, p, f), status' = 0,
                    NEW a \in Accounts,
                    acct'[a].position_basis_q # acct[a].position_basis_q
             PROVE  \/ acct'[a].position_basis_q <= MAX_POSITION_ABS_Q
                    \/ W - acct'[a].position_basis_q <= MAX_POSITION_ABS_Q
  BY DEF BoundsStep, Trades
<1> DEFINE pnl == WMul(PriceDelta(o, p), s)
           h == Half(t, s, pnl, f)
           g == Full(t, m, s, pnl, f)
           x == g[a].position_basis_q
<1> HIDE DEF x
<1>0. s \in Word /\ f \in Word /\ pnl \in Word /\ acct' = g
  BY TradeSteps
<1>1. /\ acct' = g
      /\ ~(Magnitude(g[t].position_basis_q) > MAX_POSITION_ABS_Q)
      /\ ~(Magnitude(g[m].position_basis_q) > MAX_POSITION_ABS_Q)
  BY TradeSteps
<1> HIDE DEF pnl
<1>2. /\ h \in [Accounts -> MarginAccount]
      /\ g \in [Accounts -> MarginAccount]
      /\ \A c \in Accounts \ {t} : h[c] = acct[c]
      /\ \A c \in Accounts \ {m} : g[c] = h[c]
  <2>1. OneAfterTheOther(h, g, t, m, s, pnl, f)
    BY <1>0, TradeWrites
  <2> HIDE DEF h, g
  <2> QED
    BY <2>1 DEF OneAfterTheOther
<1> HIDE DEF h, g
<1>3. a = t \/ a = m
  BY <1>1, <1>2
<1>4. x \in 0 .. W - 1 /\ W \in Nat \ {0} /\ MAX_POSITION_ABS_Q \in Int
  BY <1>2, EngineAssumption, WordFacts DEF MarginAccount, Word, x
<1>5. ~(Magnitude(x) > MAX_POSITION_ABS_Q)
  BY <1>1, <1>3 DEF x
<1>6. CASE Negative(x)
  <2>1. x # 0 /\ W - x \in 0 .. W - 1
    BY <1>4, <1>6 DEF Negative
  <2>2. (0 - x) % W = W - x
    <3>1. W * (-1) + (W - x) = 0 - x
      BY <1>4
    <3>2. (W * (-1) + (W - x)) % W = W - x
      BY <1>4, <2>1, ModUnique
    <3> QED
      BY <3>1, <3>2
  <2> QED
    BY <1>1, <1>4, <1>5, <1>6, <2>2 DEF Magnitude, WSub, x
<1>7. CASE ~Negative(x)
  BY <1>1, <1>4, <1>5, <1>7 DEF Magnitude, x
<1> QED
  BY <1>6, <1>7

(* An accepted trade leaves both positions within the bound on either side *)
(* of zero: the one negative value without a magnitude included.           *)
THEOREM WithinBounds == Spec => AcceptedWithinBounds
<1>1. TypeOK /\ [Next]_vars => [BoundsStep]_vars
  BY TradeWithinBounds
<1> QED
  BY <1>1, EngineTypes, PTL DEF Spec, AcceptedWithinBounds, BoundsStep

------------------------------------------------------------------------------
(* The forecasts of the MCP server.                                        *)

(* What simulate_crank says of a crank.                                    *)
CrankStep ==
  \A n \in Slots, p \in Prices, r \in Rates : keeper_crank(n, p, r) =>
    LET told == Tool!simulate_crank(n, p, r, risk.current_slot)
    IN  told.accepted =>
          /\ status' = 0
          /\ \A f \in DOMAIN told \ {"accepted"} : risk'[f] = told[f]

(* The body agrees with it on every field, although it stores the caller's *)
(* slot before it compares.                                                *)
LEMMA CrankAsTold == TypeOK => CrankStep
<1> SUFFICES ASSUME TypeOK, NEW n \in Slots, NEW p \in Prices, NEW r \in Rates,
                    keeper_crank(n, p, r)
             PROVE  LET told == Tool!simulate_crank(n, p, r, risk.current_slot)
                    IN  told.accepted =>
                          /\ status' = 0
                          /\ \A f \in DOMAIN told \ {"accepted"} :
                               risk'[f] = told[f]
  BY DEF CrankStep
<1> DEFINE told == Tool!simulate_crank(n, p, r, risk.current_slot)
           set == [risk EXCEPT !.current_slot = n, !.current_oracle_price = p,
                               !.current_funding_rate_e9 = r,
                               !.last_funding_update_slot = n]
<1>1. risk \in Risk /\ n \in Nat /\ Slots \subseteq Nat
  BY CallAssumption DEF TypeOK
<1>2. risk.current_slot \in Nat
  BY <1>1 DEF Risk
<1>3. /\ set.current_slot = n /\ set.last_funding_update_slot = n
      /\ set.current_oracle_price = p /\ set.current_funding_rate_e9 = r
      /\ set \in Risk
  BY <1>1, WordFacts DEF Risk
<1>4. /\ risk' = [set EXCEPT
            !.cumulative_funding_e9 = WAdd(@, r),
            !.last_funding_update_slot = IF n > @ THEN n ELSE @]
      /\ status' = 0
  BY <1>1, <1>3 DEF keeper_crank, Return
<1> HIDE DEF set
<1>5. /\ risk'.current_slot = n /\ risk'.last_funding_update_slot = n
      /\ risk'.current_oracle_price = p /\ risk'.current_funding_rate_e9 = r
  BY <1>3, <1>4 DEF Risk
<1>6. told = [accepted |-> n >= risk.current_slot,
              current_slot |-> n, current_oracle_price |-> p,
              current_funding_rate_e9 |-> r,
              last_funding_update_slot |->
                IF n > risk.current_slot THEN n ELSE risk.current_slot]
  BY DEF Tool!simulate_crank
<1>7. ASSUME told.accepted PROVE told.last_funding_update_slot = n
  <2>1. n >= risk.current_slot
    <3>1. told.accepted = (n >= risk.current_slot)
      BY <1>6
    <3> HIDE DEF told
    <3> QED
      BY <1>7, <3>1, Zenon
  <2>2. told.last_funding_update_slot
          = IF n > risk.current_slot THEN n ELSE risk.current_slot
    BY <1>6
  <2> HIDE DEF told
  <2> QED
    BY <1>1, <1>2, <2>1, <2>2
<1>8. DOMAIN told = {"accepted", "current_slot", "current_oracle_price",
                     "current_funding_rate_e9", "last_funding_update_slot"}
  BY <1>6
<1>9. /\ told.current_slot = n /\ told.current_oracle_price = p
      /\ told.current_funding_rate_e9 = r
  BY <1>6
<1> HIDE DEF told
<1>10. told.accepted =>
         /\ status' = 0
         /\ \A f \in DOMAIN told \ {"accepted"} : risk'[f] = told[f]
  BY <1>4, <1>5, <1>7, <1>8, <1>9
<1> QED
  BY <1>10 DEF told

(* A crank that simulate_crank expects to be accepted is, and leaves the   *)
(* market in the state it tells.                                           *)
THEOREM CrankTold == Spec => CrankForecast
<1>1. TypeOK /\ [Next]_vars => [CrankStep]_vars
  BY CrankAsTold
<1> QED
  BY <1>1, EngineTypes, PTL DEF Spec, CrankForecast, CrankStep

(* What simulate_liquidation says of a liquidation.                        *)
LiquidationStep ==
  \A v, l \in Accounts :
    v # l /\ liquidate_at_oracle(v, l) /\ LiquidationFits(v, l) =>
      LET told == Tool!simulate_liquidation(acct[v].capital,
                                            liquidation_fee_bps, BPS)
          credit == acct'[l].reserved_pnl - acct[l].reserved_pnl
      IN  /\ risk'.insurance_fund = risk.insurance_fund
                + WMin(told.insurance_fund, liquidation_fee_cap)
          /\ credit >= told.liquidator_credit
          /\ credit = told.liquidator_credit <=>
               /\ told.insurance_fund <= liquidation_fee_cap
               /\ acct[v].reserved_pnl = 0

(* Of a rate below one a share is no more than the whole.                  *)
LEMMA ShareBound ==
  ASSUME NEW c \in Nat
  PROVE  /\ (c * liquidation_fee_bps) \div BPS \in Nat
         /\ (c * liquidation_fee_bps) \div BPS <= c
<1> DEFINE y == c * liquidation_fee_bps
           q == y \div BPS
<1>1. /\ BPS \in Nat \ {0} /\ liquidation_fee_bps \in Nat
      /\ liquidation_fee_bps <= BPS
  BY EngineAssumption DEF Word
<1>2. y \in Nat /\ y <= c * BPS
  BY <1>1
<1> HIDE DEF y
<1>3. q \in Nat /\ BPS * q <= y
  BY <1>1, <1>2
<1> HIDE DEF q
<1>4. CASE q >= c + 1
  <2>1. BPS * q >= BPS * (c + 1)
    BY <1>1, <1>3, <1>4
  <2>2. BPS * (c + 1) = c * BPS + BPS /\ c * BPS \in Nat /\ BPS * q \in Nat
    BY <1>1, <1>3
  <2> QED
    BY <1>1, <1>2, <1>3, <2>1, <2>2
<1> QED
  BY <1>3, <1>4 DEF q, y

(* The body pays what the forecast says, up to the cap and the reserve.    *)
LEMMA LiquidationAsTold == TypeOK => LiquidationStep
<1> SUFFICES ASSUME TypeOK, NEW v \in Accounts, NEW l \in Accounts, v # l,
                    liquidate_at_oracle(v, l), LiquidationFits(v, l)
             PROVE  LET told == Tool!simulate_liquidation(acct[v].capital,
                                                 liquidation_fee_bps, BPS)
                        credit == acct'[l].reserved_pnl - acct[l].reserved_pnl
                    IN  /\ risk'.insurance_fund = risk.insurance_fund
                              + WMin(told.insurance_fund, liquidation_fee_cap)
                        /\ credit >= told.liquidator_credit
                        /\ credit = told.liquidator_credit <=>
                             /\ told.insurance_fund <= liquidation_fee_cap
                             /\ acct[v].reserved_pnl = 0
  BY DEF LiquidationStep
<1> DEFINE c == acct[v].capital
           d == acct[v].reserved_pnl
           e == acct[l].reserved_pnl
           y == c * liquidation_fee_bps
           q == y \div BPS
           cap == liquidation_fee_cap
           fee == LiquidationFee(v)
           told == Tool!simulate_liquidation(c, liquidation_fee_bps, BPS)
<1>1. /\ W \in Nat \ {0} /\ liquidation_fee_bps \in Nat /\ cap \in Nat
      /\ risk.insurance_fund \in Nat
  BY EngineAssumption, BackingFields DEF Word
<1>2. c \in Nat /\ d \in Nat /\ e \in Nat
  BY AccountFields
<1>3. /\ y < W /\ y \in Nat /\ risk.insurance_fund + cap < W
      /\ e + c + d < W
  BY <1>1, <1>2 DEF LiquidationFits
<1>4. Tool!Math!SaturatingMul(c, liquidation_fee_bps) = y
  BY <1>1, <1>3 DEF Tool!Math!SaturatingMul
<1>5. WMul(c, liquidation_fee_bps) = y
  <2>1. y \in 0 .. W - 1
    BY <1>1, <1>3
  <2> HIDE DEF y
  <2>2. y % W = y
    BY <1>1, <2>1, ModSmall
  <2> QED
    BY <2>2 DEF WMul, y
<1>6. q \in Nat /\ q <= c
  BY <1>2, ShareBound
<1>7. fee = WMin(q, cap)
  BY <1>5 DEF LiquidationFee
<1>8. told.insurance_fund = q
      /\ told.liquidator_credit = Tool!Math!SaturatingSub(c, q)
  BY <1>4 DEF Tool!simulate_liquidation
<1> HIDE DEF q, told, y, c, d, e, cap, fee
<1>9. told.liquidator_credit = c - q
  BY <1>2, <1>6, <1>8 DEF Tool!Math!SaturatingSub
<1>10. fee \in Nat /\ fee <= cap /\ fee <= q /\ (fee = q <=> q <= cap)
  BY <1>1, <1>6, <1>7 DEF WMin
<1>11. /\ risk'.insurance_fund = risk.insurance_fund + fee
       /\ acct'[l].reserved_pnl = ((e + c) - fee) + d
  <2>1. risk.insurance_fund + fee < W
    BY <1>1, <1>3, <1>10
  <2> QED
    BY <1>3, <2>1, LiquidationPays DEF fee, c, d, e
<1>12. acct'[l].reserved_pnl - e = (c - fee) + d
  BY <1>2, <1>10, <1>11
<1>13. /\ (c - fee) + d >= c - q
       /\ (c - fee) + d = c - q <=> q <= cap /\ d = 0
  BY <1>1, <1>2, <1>6, <1>10
<1>14. /\ acct'[l].reserved_pnl - acct[l].reserved_pnl >= told.liquidator_credit
       /\ acct'[l].reserved_pnl - acct[l].reserved_pnl = told.liquidator_credit
            <=> told.insurance_fund <= liquidation_fee_cap
                  /\ acct[v].reserved_pnl = 0
  BY <1>8, <1>9, <1>12, <1>13 DEF e, d, cap
<1>15. risk'.insurance_fund
         = risk.insurance_fund + WMin(told.insurance_fund, liquidation_fee_cap)
  BY <1>7, <1>8, <1>11 DEF cap
<1> QED
  BY <1>14, <1>15 DEF told, c

(* Of a liquidation that overflows no word the fund gets the fee that      *)
(* simulate_liquidation tells, or the cap, and the liquidator no less than *)
(* he is told: more exactly when the cap spares some of the fee or the     *)
(* victim had a reserve, which the tool leaves out.  For every rate, cap   *)
(* and number of accounts.                                                 *)
THEOREM LiquidationTold == Spec => LiquidationForecast
<1>1. TypeOK /\ [Next]_vars => [LiquidationStep]_vars
  BY LiquidationAsTold
<1> QED
  BY <1>1, EngineTypes, PTL DEF Spec, LiquidationForecast, LiquidationStep

------------------------------------------------------------------------------
(* Signed values differ from their bit patterns by a word or by nothing,   *)
(* so wrapping comes to the same before and after.                         *)
LEMMA SignedSum ==
  ASSUME NEW a \in Word, NEW b \in Word
  PROVE  /\ Tool!Wrapped(Tool!Signed(a) + Tool!Signed(b))
              = Tool!Signed(WAdd(a, b))
         /\ Tool!Wrapped(Tool!Signed(a) - Tool!Signed(b))
              = Tool!Signed(WSub(a, b))
<1> DEFINE sa == Tool!Signed(a)
           sb == Tool!Signed(b)
<1>1. W \in Nat \ {0} /\ a \in Int /\ b \in Int
  BY EngineAssumption DEF Word
<1>2. ASSUME NEW x \in Int PROVE \E k \in {0, -1} : Tool!Signed(x) = x + W * k
  <2>1. CASE 2 * x >= W
    <3>1. Tool!Signed(x) = x + W * (-1)
      BY <1>1, <2>1 DEF Tool!Signed
    <3> QED
      BY <3>1
  <2>2. CASE ~(2 * x >= W)
    <3>1. Tool!Signed(x) = x + W * 0
      BY <1>1, <2>2 DEF Tool!Signed
    <3> QED
      BY <3>1
  <2> QED
    BY <2>1, <2>2
<1>3. PICK i \in {0, -1} : sa = a + W * i
  BY <1>1, <1>2
<1>4. PICK j \in {0, -1} : sb = b + W * j
  BY <1>1, <1>2
<1> HIDE DEF sa, sb
<1>5. /\ sa + sb = (a + b) + W * (i + j) /\ i + j \in Int
      /\ sa - sb = (a - b) + W * (i - j) /\ i - j \in Int
      /\ a + b \in Int /\ a - b \in Int
  BY <1>1, <1>3, <1>4
<1>6. /\ ((a + b) + W * (i + j)) % W = (a + b) % W
      /\ ((a - b) + W * (i - j)) % W = (a - b) % W
  BY <1>1, <1>5, ModMultiple
<1> QED
  BY <1>5, <1>6 DEF Tool!Wrapped, WAdd, WSub, sa, sb

(* The magnitude the body takes of a bit pattern is the absolute value.    *)
LEMMA MagnitudeIsAbs ==
  ASSUME NEW x \in Word
  PROVE  Magnitude(x) = Tool!Abs(Tool!Signed(x))
<1>1. W \in Nat \ {0} /\ x \in 0 .. W - 1
  BY EngineAssumption DEF Word
<1>2. CASE 2 * x >= W
  <2>1. W - x \in 0 .. W - 1 /\ W * (-1) + (W - x) = 0 - x
    BY <1>1, <1>2
  <2>2. (W * (-1) + (W - x)) % W = W - x
    BY <1>1, <2>1, ModUnique
  <2>3. Magnitude(x) = W - x
    BY <1>2, <2>1, <2>2 DEF Magnitude, Negative, WSub
  <2>4. Tool!Abs(Tool!Signed(x)) = W - x
    BY <1>1, <1>2 DEF Tool!Abs, Tool!Signed
  <2> QED
    BY <2>3, <2>4
<1>3. CASE ~(2 * x >= W)
  BY <1>1, <1>3 DEF Magnitude, Negative, Tool!Abs, Tool!Signed
<1> QED
  BY <1>2, <1>3

(* What is added or taken off counts modulo the word.                      *)
LEMMA SameResidue ==
  ASSUME NEW p \in Int, NEW y \in Int, NEW k \in Int
  PROVE  /\ WAdd(p, y + W * k) = WAdd(p, y)
         /\ WSub(p, y + W * k) = WSub(p, y)
<1>1. W \in Nat \ {0}
  BY EngineAssumption
<1>2. /\ p + y \in Int /\ p - y \in Int /\ -k \in Int
      /\ p + (y + W * k) = (p + y) + W * k
      /\ p - (y + W * k) = (p - y) + W * (-k)
  BY <1>1
<1>3. ((p + y) + W * k) % W = (p + y) % W
  BY <1>1, <1>2, ModMultiple
<1>4. ((p - y) + W * (-k)) % W = (p - y) % W
  BY <1>1, <1>2, ModMultiple
<1> QED
  BY <1>2, <1>3, <1>4 DEF WAdd, WSub

(* A signed value is its bit pattern, modulo the word, and wrapping keeps  *)
(* a number modulo the word.                                               *)
LEMMA SignedResidue ==
  ASSUME NEW x \in Int
  PROVE  /\ \E k \in Int : Tool!Signed(x) = x + W * k
         /\ \E k \in Int : Tool!Wrapped(x) = x + W * k
<1>1. W \in Nat \ {0}
  BY EngineAssumption
<1>2. ASSUME NEW z \in Int PROVE \E k \in Int : Tool!Signed(z) = z + W * k
  <2>1. CASE 2 * z >= W
    <3>1. Tool!Signed(z) = z + W * (-1)
      BY <1>1, <2>1 DEF Tool!Signed
    <3> QED
      BY <3>1
  <2>2. CASE ~(2 * z >= W)
    <3>1. Tool!Signed(z) = z + W * 0
      BY <1>1, <2>2 DEF Tool!Signed
    <3> QED
      BY <3>1
  <2> QED
    BY <2>1, <2>2
<1> DEFINE r == x % W
           q == x \div W
<1>3. r \in Int /\ q \in Int /\ x = W * q + r
  BY <1>1, DivMod
<1>4. Tool!Wrapped(x) = Tool!Signed(r)
  BY DEF Tool!Wrapped
<1> HIDE DEF r, q
<1>5. PICK k \in Int : Tool!Signed(r) = r + W * k
  BY <1>2, <1>3
<1>6. k - q \in Int /\ r + W * k = x + W * (k - q)
  BY <1>1, <1>3, <1>5
<1> QED
  BY <1>2, <1>4, <1>5, <1>6

(* Where the oracle is not below the execution price, the PnL the tool     *)
(* tells is what the body adds to one side and takes off the other.        *)
LEMMA PnlAsTold ==
  ASSUME NEW o \in Price, NEW x \in Price, o >= x, NEW s \in Word,
         NEW p \in Int
  PROVE  LET told == Tool!Wrapped(Tool!Wrapped(o - x) * Tool!Signed(s))
             pnl == WMul(PriceDelta(o, x), s)
         IN  WAdd(p, pnl) = WAdd(p, told) /\ WSub(p, pnl) = WSub(p, told)
<1> DEFINE d == o - x
           wd == Tool!Wrapped(d)
           ss == Tool!Signed(s)
           told == Tool!Wrapped(wd * ss)
           y == d * s
           pnl == WMul(PriceDelta(o, x), s)
<1>1. /\ W \in Nat \ {0} /\ P \in Nat \ {0} /\ s \in Int
      /\ o \in 0 .. P - 1 /\ x \in 0 .. P - 1
  BY EngineAssumption DEF Word, Price
<1>2. d \in 0 .. P - 1 /\ d \in Int
  BY <1>1
<1>3. PriceDelta(o, x) = d
  <2> HIDE DEF d
  <2>1. d % P = d
    BY <1>1, <1>2, ModSmall
  <2> QED
    BY <2>1 DEF PriceDelta, d
<1> HIDE DEF d
<1>4. PICK i \in Int : wd = d + W * i
  BY <1>2, SignedResidue
<1>5. PICK j \in Int : ss = s + W * j
  BY <1>1, SignedResidue
<1> HIDE DEF wd, ss
<1> DEFINE u == W * i
           n == W * j
<1>6. u \in Int /\ n \in Int /\ wd = d + u /\ ss = s + n
  BY <1>1, <1>4, <1>5
<1> DEFINE k == i * s + wd * j
<1>7. wd \in Int /\ ss \in Int /\ wd * ss \in Int /\ y \in Int /\ k \in Int
  BY <1>1, <1>2, <1>6
<1>8. wd * ss = y + W * k
  <2>1. wd * ss = wd * s + W * (wd * j)
    BY <1>1, <1>5, <1>7
  <2>2. wd * s = d * s + W * (i * s)
    BY <1>1, <1>2, <1>4
  <2>3. W * k = W * (i * s) + W * (wd * j)
    BY <1>1, <1>7
  <2>4. d * s \in Int /\ W * (i * s) \in Int /\ W * (wd * j) \in Int
    BY <1>1, <1>2, <1>7
  <2> QED
    BY <2>1, <2>2, <2>3, <2>4
<1>9. PICK h \in Int : told = wd * ss + W * h
  BY <1>7, SignedResidue
<1>10. k + h \in Int /\ told = y + W * (k + h)
  <2> DEFINE z == wd * ss
  <2>1. z = y + W * k /\ told = z + W * h
    BY <1>8, <1>9
  <2> HIDE DEF z, y, k, told
  <2> QED
    BY <1>1, <1>7, <2>1
<1> HIDE DEF told, u, n, k
<1> DEFINE q == y \div W
<1>11. -q \in Int /\ pnl = y + W * (-q)
  <2>1. pnl = y % W
    BY <1>3 DEF WMul
  <2> HIDE DEF y, pnl
  <2>2. q \in Int /\ y % W \in Int /\ y = W * q + (y % W)
    BY <1>1, <1>7, DivMod
  <2> HIDE DEF q
  <2> QED
    BY <1>1, <1>7, <2>1, <2>2
<1> HIDE DEF y, q, pnl
<1>12. WAdd(p, told) = WAdd(p, y) /\ WSub(p, told) = WSub(p, y)
  BY <1>7, <1>10, SameResidue
<1>13. WAdd(p, pnl) = WAdd(p, y) /\ WSub(p, pnl) = WSub(p, y)
  BY <1>7, <1>11, SameResidue
<1> QED
  BY <1>12, <1>13 DEF told, pnl, wd, ss, d

(* What simulate_trade says of a trade.                                    *)
TradeStep ==
  acct' # acct =>
    \A t, m \in Accounts, o, x \in Prices, s \in Sizes, f \in Fees :
      t # m /\ execute_trade(t, m, o, s, x, f) =>
        LET told == Tool!simulate_trade(Tool!Signed(s), x, o, f,
                      Tool!Signed(acct[t].position_basis_q),
                      Tool!Signed(acct[m].position_basis_q),
                      MAX_POSITION_ABS_Q)
        IN  /\ told.within <=> status' = 0
            /\ told.within =>
                 /\ Tool!Signed(acct'[t].position_basis_q) = told.taker_pos
                 /\ Tool!Signed(acct'[m].position_basis_q) = told.maker_pos
                 /\ acct'[t].fee_credits =
                      WAdd(acct[t].fee_credits, told.taker_fee)
                 /\ acct'[m].fee_credits =
                      WAdd(acct[m].fee_credits, told.maker_fee)
            /\ told.within /\ o >= x =>
                 /\ acct'[t].pnl = WAdd(acct[t].pnl, told.pnl_delta)
                 /\ acct'[m].pnl = WSub(acct[m].pnl, told.pnl_delta)

(* The bit patterns of the body agree with the signed numbers of the tool. *)
LEMMA TradeAsTold == TypeOK => TradeStep
<1> SUFFICES ASSUME TypeOK, NEW t \in Accounts, NEW m \in Accounts, t # m,
                    NEW o \in Prices, NEW p \in Prices, NEW s \in Sizes,
                    NEW f \in Fees, execute_trade(t, m, o, s, p, f)
             PROVE  LET told == Tool!simulate_trade(Tool!Signed(s), p, o, f,
                                  Tool!Signed(acct[t].position_basis_q),
                                  Tool!Signed(acct[m].position_basis_q),
                                  MAX_POSITION_ABS_Q)
                    IN  /\ told.within <=> status' = 0
                        /\ Tool!Signed(acct'[t].position_basis_q)
                             = told.taker_pos
                        /\ Tool!Signed(acct'[m].position_basis_q)
                             = told.maker_pos
                        /\ acct'[t].fee_credits
                             = WAdd(acct[t].fee_credits, told.taker_fee)
                        /\ acct'[m].fee_credits
                             = WAdd(acct[m].fee_credits, told.maker_fee)
                        /\ o >= p =>
                             /\ acct'[t].pnl = WAdd(acct[t].pnl, told.pnl_delta)
                             /\ acct'[m].pnl = WSub(acct[m].pnl, told.pnl_delta)
  BY DEF TradeStep
<1> DEFINE pnl == WMul(PriceDelta(o, p), s)
           h == Half(t, s, pnl, f)
           g == Full(t, m, s, pnl, f)
           x == acct[t].position_basis_q
           y == acct[m].position_basis_q
           delta == Tool!Wrapped(Tool!Wrapped(o - p) * Tool!Signed(s))
           told == Tool!simulate_trade(Tool!Signed(s), p, o, f, Tool!Signed(x),
                                       Tool!Signed(y), MAX_POSITION_ABS_Q)
<1>1. s \in Word /\ f \in Word /\ pnl \in Word /\ acct' = g
  BY TradeSteps
<1>2. status' = IF \/ Magnitude(acct'[t].position_basis_q) > MAX_POSITION_ABS_Q
                   \/ Magnitude(acct'[m].position_basis_q) > MAX_POSITION_ABS_Q
                THEN 1 ELSE 0
  BY TradeSteps
<1>3. OneAfterTheOther(h, g, t, m, s, pnl, f)
  BY <1>1, TradeWrites
<1>4. /\ x \in Word /\ y \in Word
      /\ acct[t].fee_credits \in Int /\ acct[m].fee_credits \in Int
      /\ acct[t].pnl \in Int /\ acct[m].pnl \in Int
      /\ s \in Int /\ f \in Int /\ o \in Price /\ p \in Price
  BY <1>1, WordFacts DEF TypeOK, MarginAccount
<1>a. ASSUME o >= p
      PROVE  /\ WAdd(acct[t].pnl, pnl) = WAdd(acct[t].pnl, delta)
             /\ WSub(acct[m].pnl, pnl) = WSub(acct[m].pnl, delta)
  BY <1>1, <1>4, <1>a, PnlAsTold
<1> HIDE DEF pnl, h, g
<1>5. /\ acct'[t].position_basis_q = WAdd(x, s)
      /\ acct'[m].position_basis_q = WSub(y, s)
      /\ acct'[t].fee_credits = WSub(acct[t].fee_credits, f)
      /\ acct'[m].fee_credits = WAdd(acct[m].fee_credits, f)
      /\ acct'[t].pnl = WAdd(acct[t].pnl, pnl)
      /\ acct'[m].pnl = WSub(acct[m].pnl, pnl)
  BY <1>1, <1>3 DEF OneAfterTheOther
<1>6. /\ told.taker_pos = Tool!Wrapped(Tool!Signed(x) + Tool!Signed(s))
      /\ told.maker_pos = Tool!Wrapped(Tool!Signed(y) - Tool!Signed(s))
      /\ told.taker_fee = -f /\ told.maker_fee = f /\ told.pnl_delta = delta
      /\ told.within = (/\ Tool!Abs(Tool!Wrapped(Tool!Signed(x) + Tool!Signed(s)))
                             <= MAX_POSITION_ABS_Q
                        /\ Tool!Abs(Tool!Wrapped(Tool!Signed(y) - Tool!Signed(s)))
                             <= MAX_POSITION_ABS_Q)
  BY DEF Tool!simulate_trade
<1> HIDE DEF told, x, y, delta
<1>7. /\ Tool!Wrapped(Tool!Signed(x) + Tool!Signed(s)) = Tool!Signed(WAdd(x, s))
      /\ Tool!Wrapped(Tool!Signed(y) - Tool!Signed(s)) = Tool!Signed(WSub(y, s))
  BY <1>1, <1>4, SignedSum
<1>8. WAdd(acct[t].fee_credits, -f) = WSub(acct[t].fee_credits, f)
  BY <1>4 DEF WAdd, WSub
<1> DEFINE u == Magnitude(WAdd(x, s))
           v == Magnitude(WSub(y, s))
<1>9. /\ Tool!Abs(Tool!Signed(WAdd(x, s))) = u
      /\ Tool!Abs(Tool!Signed(WSub(y, s))) = v
      /\ u \in Int /\ v \in Int /\ MAX_POSITION_ABS_Q \in Int
  <2>1. x \in Int /\ WAdd(x, s) \in Word /\ WSub(y, s) \in Word
    BY <1>4, WAddSubType, WordFacts
  <2>2. /\ Tool!Abs(Tool!Signed(WAdd(x, s))) = u
        /\ Tool!Abs(Tool!Signed(WSub(y, s))) = v
    BY <2>1, MagnitudeIsAbs
  <2>3. \A z \in Word : Magnitude(z) \in Int
    BY WAddSubType, WordFacts DEF Magnitude
  <2> QED
    BY <2>1, <2>2, <2>3, EngineAssumption, WordFacts
<1>10. told.within = (u <= MAX_POSITION_ABS_Q /\ v <= MAX_POSITION_ABS_Q)
  BY <1>6, <1>7, <1>9
<1>11. status' = IF u > MAX_POSITION_ABS_Q \/ v > MAX_POSITION_ABS_Q
                 THEN 1 ELSE 0
  BY <1>2, <1>5
<1> HIDE DEF u, v
<1>12. status' = 0 <=> (u <= MAX_POSITION_ABS_Q /\ v <= MAX_POSITION_ABS_Q)
  BY <1>9, <1>11
<1>13. told.within <=> status' = 0
  BY <1>10, <1>12, Zenon
<1>14. o >= p => /\ acct'[t].pnl = WAdd(acct[t].pnl, told.pnl_delta)
                 /\ acct'[m].pnl = WSub(acct[m].pnl, told.pnl_delta)
  BY <1>5, <1>6, <1>a
<1> QED
  BY <1>5, <1>6, <1>7, <1>8, <1>13, <1>14 DEF told, x, y

(* A trade is accepted exactly when simulate_trade says so, and ends where *)
(* it says, in positions and fee credits, and in PnL where the oracle is   *)
(* not below the execution price: the tool computes with signed numbers    *)
(* and multiplies them, the body with bit patterns and a price difference  *)
(* of another width.  For every word width, size and price.                *)
THEOREM TradeTold == Spec => TradeForecast
<1>1. TypeOK /\ [Next]_vars => [TradeStep]_vars
  BY TradeAsTold
<1> QED
  BY <1>1, EngineTypes, PTL DEF Spec, TradeForecast, TradeStep
==============================================================================
