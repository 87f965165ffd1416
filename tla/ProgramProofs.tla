---------------------------- MODULE ProgramProofs ----------------------------
(***************************************************************************)
(* What holds of the COIN configuration and of the LP perp market for      *)
(* every word width, every number of users, and every delay, price, size   *)
(* and slot a caller may pass, in any order of calls and without a clock   *)
(* or a check that the bodies have not.                                    *)
(***************************************************************************)
EXTENDS Programs, SumLemmas

CoinSpec == Coin!Init /\ [][Coin!Next]_(Coin!vars)
PerpSpec == Perp!Init /\ [][Perp!Next]_(Perp!vars)

(* A run of the programs is, seen from each, a run of its own.             *)
LEMMA RunsEach == ProgramsSpec => CoinSpec /\ PerpSpec
<1>1. ProgramsInit => Coin!Init /\ Perp!Init
  BY DEF ProgramsInit
<1>2. [ProgramsNext]_programs =>
        [Coin!Next]_(Coin!vars) /\ [Perp!Next]_(Perp!vars)
  BY DEF ProgramsNext, programs, coin_vars, perp_vars, Coin!vars, Perp!vars
<1> QED
  BY <1>1, <1>2, PTL DEF ProgramsSpec, CoinSpec, PerpSpec

------------------------------------------------------------------------------
(* The COIN configuration.                                                 *)

(* Its constants are words, and words are wide enough.                     *)
LEMMA CoinWords ==
  /\ CoinW \in Nat \ {0} /\ Coin!Word = 0 .. CoinW - 1
  /\ Delays \subseteq Coin!Word /\ CoinSlots \subseteq Coin!Word
  /\ 0 \in Coin!Word
BY CoinAssumption DEF Coin!CoinAssumption, Coin!Word

(* The account is a CoinConfig.                                            *)
ServedInv == coin_cfg \in Coin!Config /\ Coin!DelayServed

(* Before it is set up it is not live.                                     *)
LEMMA InitServed == Coin!Init => ServedInv
BY CoinWords DEF Coin!Init, ServedInv, Coin!DelayServed, Coin!Live,
       Coin!Config, Coin!PHASE_LIVE, Coin!PHASE_BOOTSTRAP

(* Where the end of the bootstrap is a word, the body's ADD is an addition. *)
LEMMA LiveFromExact ==
  ASSUME coin_cfg \in Coin!Config,
         coin_cfg.bootstrap_start_slot + coin_cfg.bootstrap_delay_slots
           \in Coin!Word
  PROVE  Coin!LiveFrom = coin_cfg.bootstrap_start_slot
                           + coin_cfg.bootstrap_delay_slots
<1> DEFINE due == coin_cfg.bootstrap_start_slot
                    + coin_cfg.bootstrap_delay_slots
<1>1. due \in 0 .. CoinW - 1
  BY CoinWords
<1>2. Coin!LiveFrom = due % CoinW
  BY DEF Coin!LiveFrom, Coin!WAdd
<1> HIDE DEF due
<1>3. due % CoinW = due
  BY <1>1, CoinWords, ModSmall
<1> QED
  BY <1>2, <1>3 DEF due

(* Each call keeps a live configuration one that has served its delay, or  *)
(* one whose delay did not fit.                                            *)
LEMMA NextServed == ServedInv /\ [Coin!Next]_(Coin!vars) => ServedInv'
<1> SUFFICES ASSUME ServedInv, [Coin!Next]_(Coin!vars) PROVE ServedInv'
  OBVIOUS
<1> USE DEF Coin!PHASE_LIVE, Coin!PHASE_BOOTSTRAP
<1>0. coin_cfg \in Coin!Config
  BY DEF ServedInv
<1>1. ASSUME UNCHANGED coin_cfg PROVE ServedInv'
  BY <1>1 DEF ServedInv, Coin!DelayServed, Coin!Live
<1>2. ASSUME NEW delay \in Delays, NEW start \in CoinSlots,
             Coin!init_coin_config(delay, start)
      PROVE  ServedInv'
  <2> DEFINE live == IF delay = 0 THEN start ELSE 0
             phase == IF delay = 0 THEN 1 ELSE 0
  <2>1. delay \in Coin!Word /\ start \in Coin!Word /\ start \in Int
        /\ live \in Coin!Word /\ phase \in {0, 1}
    BY CoinWords
  <2>2. coin_cfg' = [bootstrap_start_slot |-> start,
                     bootstrap_delay_slots |-> delay,
                     phase |-> phase, live_slot |-> live]
    BY <1>2 DEF Coin!init_coin_config
  <2>3. phase = 1 => live >= start + delay
    BY <2>1
  <2> HIDE DEF live, phase
  <2> QED
    BY <2>1, <2>2, <2>3
    DEF ServedInv, Coin!Config, Coin!DelayServed, Coin!Live
<1>3. ASSUME NEW now \in CoinSlots, Coin!activate_live(now) PROVE ServedInv'
  <2>1. CASE now < Coin!LiveFrom
    BY <1>1, <1>3, <2>1 DEF Coin!activate_live
  <2>2. CASE ~(now < Coin!LiveFrom)
    <3> DEFINE start == coin_cfg.bootstrap_start_slot
               delay == coin_cfg.bootstrap_delay_slots
    <3>1. coin_cfg' = [coin_cfg EXCEPT !.phase = 1, !.live_slot = now]
      BY <1>3, <2>2 DEF Coin!activate_live
    <3>2. /\ coin_cfg'.bootstrap_start_slot = start
          /\ coin_cfg'.bootstrap_delay_slots = delay
          /\ coin_cfg'.live_slot = now
          /\ now \in Coin!Word /\ coin_cfg' \in Coin!Config
      BY <1>0, <3>1, CoinWords DEF Coin!Config
    <3>3. ASSUME start + delay \in Coin!Word PROVE now >= start + delay
      <4>1. Coin!LiveFrom = start + delay
        BY <1>0, <3>3, LiveFromExact
      <4> QED
        BY <2>2, <3>2, <3>3, <4>1, CoinWords
    <3> HIDE DEF start, delay
    <3> QED
      BY <3>2, <3>3 DEF ServedInv, Coin!DelayServed
  <2> QED
    BY <2>1, <2>2
<1>4. CASE UNCHANGED Coin!vars
  BY <1>1, <1>4 DEF Coin!vars
<1> QED
  BY <1>2, <1>3, <1>4 DEF Coin!Next

(* No order of setups and activations, with whatever slots and delays,     *)
(* makes a market live before it has served its delay, except where the    *)
(* end of the delay does not fit the word and the body's ADD wraps.        *)
THEOREM ServesDelay == ProgramsSpec => []DelayServed
<1>1. ServedInv => Coin!DelayServed
  BY DEF ServedInv
<1> QED
  BY <1>1, InitServed, NextServed, RunsEach, PTL DEF CoinSpec, DelayServed

------------------------------------------------------------------------------
(* The LP perp market.                                                     *)

Hedge == [size_q: Hedges \union {0}, entry_pool_price: Quotes \union {0},
          hedge_target: {Perp!speculative, Perp!lp_hedge},
          opened_slot: Nat, last_settle_slot: Nat]

PerpInv == hedge \in [Accounts -> Hedge] /\ Perp!SettledSinceOpened

(* Nobody has a hedge at first.                                            *)
LEMMA InitPerp == Perp!Init => PerpInv
<1> SUFFICES ASSUME Perp!Init PROVE PerpInv
  OBVIOUS
<1> DEFINE none == [size_q |-> 0, entry_pool_price |-> 0,
                    hedge_target |-> Perp!speculative, opened_slot |-> 0,
                    last_settle_slot |-> 0]
<1>1. hedge = [u \in Accounts |-> none]
  BY DEF Perp!Init
<1>2. none \in Hedge /\ none.opened_slot <= none.last_settle_slot
  BY DEF Hedge
<1> HIDE DEF none
<1> QED
  BY <1>1, <1>2 DEF PerpInv, Perp!SettledSinceOpened

(* A stamp with a slot not before the one the hedge carries keeps the      *)
(* order of the two slots, any other is on record.                         *)
LEMMA StampKeeps ==
  ASSUME PerpInv, NEW u \in Accounts, NEW now \in PerpSlots,
         NEW h \in Hedge, hedge' = [hedge EXCEPT ![u] = h],
         h.opened_slot = hedge[u].opened_slot, h.last_settle_slot = now,
         Perp!Stamped(u, now)
  PROVE  PerpInv'
<1>1. hedge \in [Accounts -> Hedge] /\ now \in Nat
  BY PerpAssumption DEF PerpInv
<1>2. /\ hedge' \in [Accounts -> Hedge] /\ hedge'[u] = h
      /\ \A v \in Accounts \ {u} : hedge'[v] = hedge[v]
  BY <1>1
<1>3. /\ hedge[u].opened_slot \in Nat /\ hedge[u].last_settle_slot \in Nat
  BY <1>1 DEF Hedge
<1>4. ASSUME NEW v \in Accounts \ rewound'
      PROVE  hedge'[v].opened_slot <= hedge'[v].last_settle_slot
  <2>1. v \in Accounts \ rewound
    BY <1>4 DEF Perp!Stamped
  <2>2. hedge[v].opened_slot <= hedge[v].last_settle_slot
    BY <2>1 DEF PerpInv, Perp!SettledSinceOpened
  <2>3. CASE v = u
    <3>1. ~(now < hedge[u].last_settle_slot)
      BY <1>4, <2>3 DEF Perp!Stamped
    <3> QED
      BY <1>1, <1>2, <1>3, <2>2, <2>3, <3>1
  <2>4. CASE v # u
    BY <1>2, <2>2, <2>4
  <2> QED
    BY <2>3, <2>4
<1> QED
  BY <1>2, <1>4 DEF PerpInv, Perp!SettledSinceOpened

(* Each call keeps the hedges in order, or leaves a record.                *)
LEMMA NextPerp == PerpInv /\ [Perp!Next]_(Perp!vars) => PerpInv'
<1> SUFFICES ASSUME PerpInv, [Perp!Next]_(Perp!vars) PROVE PerpInv'
  OBVIOUS
<1>0. hedge \in [Accounts -> Hedge]
  BY DEF PerpInv
<1>a. ASSUME UNCHANGED <<hedge, rewound>> PROVE PerpInv'
  BY <1>a DEF PerpInv, Perp!SettledSinceOpened
<1>1. ASSUME NEW t \in Terms, NEW s \in PerpSlots,
             Perp!init_lp_perp_market(t, s)
      PROVE  PerpInv'
  BY <1>1, <1>a DEF Perp!init_lp_perp_market
<1>2. ASSUME NEW p \in Quotes, NEW s \in PerpSlots, Perp!crank_pool_price(p, s)
      PROVE  PerpInv'
  BY <1>2, <1>a DEF Perp!crank_pool_price
<1>3. ASSUME NEW u \in Accounts, NEW n \in Hedges,
             NEW t \in {Perp!speculative, Perp!lp_hedge}, NEW p \in Quotes,
             NEW s \in PerpSlots, Perp!open_hedge(u, n, t, p, s)
      PROVE  PerpInv'
  <2> DEFINE h == [size_q |-> n, entry_pool_price |-> p, hedge_target |-> t,
                   opened_slot |-> s, last_settle_slot |-> s]
  <2>1. hedge' = [hedge EXCEPT ![u] = h] /\ rewound' = rewound \ {u}
    BY <1>3 DEF Perp!open_hedge
  <2>2. h \in Hedge /\ h.opened_slot <= h.last_settle_slot
    BY PerpAssumption DEF Hedge
  <2> HIDE DEF h
  <2>3. /\ hedge' \in [Accounts -> Hedge] /\ hedge'[u] = h
        /\ \A v \in Accounts \ {u} : hedge'[v] = hedge[v]
    BY <1>0, <2>1, <2>2
  <2>4. \A v \in Accounts \ rewound' :
          hedge'[v].opened_slot <= hedge'[v].last_settle_slot
    BY <2>1, <2>2, <2>3 DEF PerpInv, Perp!SettledSinceOpened
  <2> QED
    BY <2>3, <2>4 DEF PerpInv, Perp!SettledSinceOpened
<1>4. ASSUME NEW u \in Accounts, NEW s \in PerpSlots,
             hedge' = Perp!Settle(u, s), Perp!Stamped(u, s)
      PROVE  PerpInv'
  <2> DEFINE h == [hedge[u] EXCEPT !.last_settle_slot = s]
  <2>1. hedge' = [hedge EXCEPT ![u] = h]
    BY <1>4 DEF Perp!Settle
  <2>2. /\ h \in Hedge /\ h.opened_slot = hedge[u].opened_slot
        /\ h.last_settle_slot = s
    BY <1>0, PerpAssumption DEF Hedge
  <2> HIDE DEF h
  <2> QED
    BY <1>4, <2>1, <2>2, StampKeeps
<1>5. ASSUME NEW u \in Accounts, NEW s \in PerpSlots,
             hedge' = Perp!Flatten(u, s), Perp!Stamped(u, s)
      PROVE  PerpInv'
  <2> DEFINE g == [hedge[u] EXCEPT !.last_settle_slot = s]
             h == [g EXCEPT !.size_q = 0]
  <2>1. hedge' = [hedge EXCEPT ![u] = h]
    BY <1>0, <1>5 DEF Perp!Flatten
  <2>2. /\ g \in Hedge /\ g.opened_slot = hedge[u].opened_slot
        /\ g.last_settle_slot = s
    BY <1>0, PerpAssumption DEF Hedge
  <2> HIDE DEF g
  <2>3. /\ h \in Hedge /\ h.opened_slot = hedge[u].opened_slot
        /\ h.last_settle_slot = s
    BY <2>2 DEF Hedge
  <2> HIDE DEF h
  <2> QED
    BY <1>5, <2>1, <2>3, StampKeeps
<1>6. CASE UNCHANGED Perp!vars
  BY <1>6, <1>a DEF Perp!vars
<1> QED
  BY <1>1, <1>2, <1>3, <1>4, <1>5, <1>6
  DEF Perp!Next, Perp!close_hedge, Perp!settle_funding, Perp!liquidate_hedge

(* No hedge that was never stamped with an earlier slot than it carried is *)
(* charged funding for slots before it was opened, however often it was    *)
(* reopened over, closed and liquidated, and whatever was passed to others. *)
THEOREM SettlementHolds == ProgramsSpec => []SettledSinceOpened
<1>1. PerpInv => Perp!SettledSinceOpened
  BY DEF PerpInv
<1> QED
  BY <1>1, InitPerp, NextPerp, RunsEach, PTL DEF PerpSpec, SettledSinceOpened
==============================================================================
