-------------------------- MODULE GenesisBallotProofs --------------------------
(***************************************************************************)
(* The counters of the genesis ledger, for every number of depositors and  *)
(* items, every word width and every input: the config's totals against    *)
(* the positions, and the tallies against the ballots and the stake.       *)
(***************************************************************************)
EXTENDS GenesisLedgerProofs, GenesisForecast, SumLemmas

------------------------------------------------------------------------------
(* The pool's two totals.                                                  *)

(* The VM's addition and subtraction are those modulo the word.            *)
LEMMA WordModulo ==
  ASSUME NEW a \in Word, NEW b \in Word
  PROVE  WAdd(a, b) = (a + b) % W /\ WSub(a, b) = (a - b) % W
<1>1. W \in Nat \ {0} /\ a \in 0 .. W - 1 /\ b \in 0 .. W - 1
  BY WordAssumption DEF Word
<1>2. WAdd(a, b) \in 0 .. W - 1 /\ WSub(a, b) \in 0 .. W - 1
  BY WAddType, WSubType DEF Word
<1> DEFINE s == WAdd(a, b)
           d == WSub(a, b)
<1>3. a + b = s \/ a + b = s + W
  BY <1>1 DEF WAdd
<1>4. a - b = d \/ a - b = d - W
  BY <1>1 DEF WSub
<1> HIDE DEF s, d
<1>5. s % W = s /\ (s + W) % W = s
  BY <1>1, <1>2, ModSmall, ModNear DEF s
<1>6. d % W = d /\ (d - W) % W = d
  BY <1>1, <1>2, ModSmall, ModNear DEF d
<1> QED
  BY <1>3, <1>4, <1>5, <1>6 DEF s, d

Paid == [u \in Users |-> pos[u].amount]
Left == [u \in Users |-> pos[u].withdrawn]

(* The two sums of the positions are sums of integers over a finite set.   *)
LEMMA PoolSums ==
  ASSUME LedgerTypeOK
  PROVE  /\ IsFiniteSet(Users)
         /\ W \in Nat \ {0}
         /\ \A u \in Users : Paid[u] \in Word /\ Left[u] \in Word
         /\ \A u \in Users : Paid[u] \in Nat /\ Left[u] \in Nat
         /\ Deposited = SumFunctionOnSet(Paid, Users) /\ Deposited \in Nat
         /\ Withdrawn = SumFunctionOnSet(Left, Users) /\ Withdrawn \in Nat
<1>1. /\ Deposited = SumFunctionOnSet(Paid, Users)
      /\ Withdrawn = SumFunctionOnSet(Left, Users)
  BY DEF Deposited, Withdrawn, Paid, Left, SumFunction
<1>2. \A u \in Users : Paid[u] \in Word /\ Left[u] \in Word
  BY DEF LedgerTypeOK, GenesisPosition, Paid, Left
<1>3. \A u \in Users : Paid[u] \in Nat /\ Left[u] \in Nat
  BY <1>2, WordAssumption DEF Word
<1>4. IsFiniteSet(Users) /\ W \in Nat \ {0}
  BY FiniteAssumption, WordAssumption
<1>5. SumFunctionOnSet(Paid, Users) \in Nat /\ SumFunctionOnSet(Left, Users) \in Nat
  BY <1>3, <1>4, SumNat
<1> QED
  BY <1>1, <1>2, <1>3, <1>4, <1>5

(* A step that keeps the amounts and claims of the positions.              *)
PositionsKept ==
  \A u \in Users : /\ pos'[u].amount = pos[u].amount
                   /\ pos'[u].withdrawn = pos[u].withdrawn

(* It keeps the sums.                                                      *)
LEMMA SumsKept == ASSUME PositionsKept
                  PROVE  Deposited' = Deposited /\ Withdrawn' = Withdrawn
BY DEF PositionsKept, Deposited, Withdrawn

(* One position's amount moves by n, and nothing else does.                *)
AmountMoves(u, n) ==
  /\ \A x \in Users : /\ pos'[x].withdrawn = pos[x].withdrawn
                      /\ x # u => pos'[x].amount = pos[x].amount
  /\ pos'[u].amount = (pos[u].amount + n) % W

(* The sum of the amounts moves with it; the claims paid do not.           *)
LEMMA DepositedMoves ==
  ASSUME LedgerTypeOK, LedgerTypeOK', NEW u \in Users, NEW n \in Int, AmountMoves(u, n)
  PROVE  Deposited' % W = (Deposited + n) % W /\ Withdrawn' = Withdrawn
<1> DEFINE f == Paid
           g == [x \in Users |-> pos'[x].amount]
<1>1. /\ IsFiniteSet(Users) /\ W \in Nat \ {0}
      /\ Deposited = SumFunctionOnSet(f, Users)
      /\ \A x \in Users : f[x] \in Int
  BY PoolSums
<1>2. Deposited' = SumFunctionOnSet(g, Users)
  BY DEF Deposited, SumFunction
<1>3. \A x \in Users : g[x] \in Int
  BY WordAssumption DEF LedgerTypeOK, GenesisPosition, Word
<1>4. SameBut(f, g, {u}, Users) /\ g[u] = (f[u] + n) % W
  BY <1>1, <1>3 DEF AmountMoves, SameBut, Paid
<1>5. Withdrawn' = Withdrawn
  BY DEF AmountMoves, Withdrawn
<1> HIDE DEF f, g
<1>6. SumFunctionOnSet(g, Users) % W = (SumFunctionOnSet(f, Users) + n) % W
  BY <1>1, <1>4, SumWrapped
<1> QED
  BY <1>1, <1>2, <1>5, <1>6

(* One position's claim is paid n, and nothing else moves.                 *)
ClaimMoves(u, n) ==
  /\ \A x \in Users : /\ pos'[x].amount = pos[x].amount
                      /\ x # u => pos'[x].withdrawn = pos[x].withdrawn
  /\ pos'[u].withdrawn = (pos[u].withdrawn + n) % W

(* The sum of the claims paid moves with it; the amounts do not.           *)
LEMMA WithdrawnMoves ==
  ASSUME LedgerTypeOK, LedgerTypeOK', NEW u \in Users, NEW n \in Int, ClaimMoves(u, n)
  PROVE  Withdrawn' % W = (Withdrawn + n) % W /\ Deposited' = Deposited
<1> DEFINE f == Left
           g == [x \in Users |-> pos'[x].withdrawn]
<1>1. /\ IsFiniteSet(Users) /\ W \in Nat \ {0}
      /\ Withdrawn = SumFunctionOnSet(f, Users)
      /\ \A x \in Users : f[x] \in Int
  BY PoolSums
<1>2. Withdrawn' = SumFunctionOnSet(g, Users)
  BY DEF Withdrawn, SumFunction
<1>3. \A x \in Users : g[x] \in Int
  BY WordAssumption DEF LedgerTypeOK, GenesisPosition, Word
<1>4. SameBut(f, g, {u}, Users) /\ g[u] = (f[u] + n) % W
  BY <1>1, <1>3 DEF ClaimMoves, SameBut, Left
<1>5. Deposited' = Deposited
  BY DEF ClaimMoves, Deposited
<1> HIDE DEF f, g
<1>6. SumFunctionOnSet(g, Users) % W = (SumFunctionOnSet(f, Users) + n) % W
  BY <1>1, <1>4, SumWrapped
<1> QED
  BY <1>1, <1>2, <1>5, <1>6

(* What a step does to the pool: nothing, a deposit, an exit by the        *)
(* amount, or an exit by the claim, each booked in both places.            *)
PoolKept ==
  /\ PositionsKept
  /\ cfg'.total_deposited = cfg.total_deposited
  /\ cfg'.total_withdrawn = cfg.total_withdrawn
PoolIn(u, a) ==
  /\ Transferable(a)
  /\ AmountMoves(u, a)
  /\ cfg'.total_deposited = WAdd(cfg.total_deposited, a)
  /\ cfg'.total_withdrawn = cfg.total_withdrawn
PoolOut(u, a) ==
  /\ a <= pos[u].amount
  /\ AmountMoves(u, -a)
  /\ cfg'.total_deposited = WSub(cfg.total_deposited, a)
  /\ cfg'.total_withdrawn = cfg.total_withdrawn
PoolRetire(u, a) ==
  /\ ClaimMoves(u, a)
  /\ cfg'.total_deposited = cfg.total_deposited
  /\ cfg'.total_withdrawn = WAdd(cfg.total_withdrawn, a)

PoolStep ==
  \/ PoolKept
  \/ \E u \in Users, a \in Word : PoolIn(u, a) \/ PoolOut(u, a) \/ PoolRetire(u, a)

(* The totals of a config that does not exist are clear: the body that     *)
(* creates it clears them.                                                 *)
PoolInv ==
  /\ LifecycleInv
  /\ PrincipalConserved
  /\ Config \notin accounts => cfg.total_deposited = 0 /\ cfg.total_withdrawn = 0

(* A refused call moves nothing.                                           *)
LEMMA RefusePool == ASSUME NEW s, Refuse(s) PROVE PoolKept
BY DEF Refuse, ledger, PoolKept, PositionsKept

(* An accepted ballot counts itself and moves no stake.                    *)
LEMMA BallotMovesNoStake ==
  ASSUME LedgerTypeOK, NEW u \in Users, NEW i \in Items, NEW action \in 0 .. 2,
         NEW now \in Slots, vote_genesis_distribution(u, i, action, now)
  PROVE  PositionsKept /\ cfg' = cfg /\ accounts' = accounts
<1>1. CASE action > 1 \/ VoteWeight(u, now) = 0
  BY <1>1 DEF vote_genesis_distribution, Refuse, ledger, PositionsKept
<1>2. CASE ~(action > 1 \/ VoteWeight(u, now) = 0)
  <2>1. /\ pos' = [pos EXCEPT ![u].active_votes = WAdd(@, 1)]
        /\ UNCHANGED <<cfg, accounts>>
    BY <1>2 DEF vote_genesis_distribution, CastBallot
  <2> QED
    BY <2>1 DEF LedgerTypeOK, GenesisPosition, PositionsKept
<1> QED
  BY <1>1, <1>2

(* Every step is one of the four.                                          *)
LEMMA NextPool ==
  ASSUME ConfigOnce, PoolInv, [Next]_vars
  PROVE  PoolStep
<1>0. LifecycleInv /\ LedgerTypeOK
  BY DEF PoolInv, LifecycleInv
<1>1. ASSUME NEW s \in RewardSupplies, init_genesis_bootstrap(s)
      PROVE  PoolKept
  BY <1>1
  DEF init_genesis_bootstrap, Creates, ConfigOnce, PoolInv, PoolKept,
      PositionsKept
<1>2. ASSUME NEW u \in Users, NEW a \in Amounts, NEW now \in Slots,
             genesis_deposit(u, a, now)
      PROVE  PoolStep
  <2>1. CASE DepositsClosed
    BY <1>2, <2>1, RefusePool DEF genesis_deposit, PoolStep
  <2>2. CASE ~DepositsClosed
    <3>1. a \in Word /\ pos[u].amount \in Word
      BY <1>0, InputAssumption DEF LedgerTypeOK, GenesisPosition
    <3>2. WAdd(pos[u].amount, a) = (pos[u].amount + a) % W
      BY <3>1, WordModulo
    <3>3. /\ cfg' = [cfg EXCEPT !.total_deposited = WAdd(@, a)]
          /\ pos' = [pos EXCEPT ![u].amount = WAdd(@, a), ![u].start_slot = now]
          /\ Transferable(a)
      BY <1>2, <2>2 DEF genesis_deposit
    <3>4. AmountMoves(u, a)
      BY <1>0, <3>2, <3>3 DEF AmountMoves, LedgerTypeOK, GenesisPosition
    <3>5. PoolIn(u, a)
      BY <1>0, <3>3, <3>4 DEF PoolIn, LedgerTypeOK, GenesisConfig
    <3> QED
      BY <3>1, <3>5 DEF PoolStep
  <2> QED
    BY <2>1, <2>2
<1>3. ASSUME NEW u \in Users, NEW r \in Reads, NEW v \in Reads,
             genesis_withdraw(u, r, v)
      PROVE  PoolStep
  <2>1. PICK a \in 0 .. Remaining(u) :
           \/ /\ ~Kicked
              /\ cfg' = [cfg EXCEPT !.total_deposited = WSub(@, a)]
              /\ pos' = [pos EXCEPT ![u].amount = @ - a, ![u].start_slot = 0]
           \/ /\ Kicked
              /\ cfg' = [cfg EXCEPT !.total_withdrawn = WAdd(@, a)]
              /\ pos' = [pos EXCEPT ![u].withdrawn = @ + a, ![u].start_slot = 0]
    BY <1>0, <1>3, ExitClaims
  <2>2. /\ pos[u].amount \in 0 .. W - 1
        /\ pos[u].withdrawn \in 0 .. pos[u].amount
        /\ Remaining(u) = pos[u].amount - pos[u].withdrawn
    BY <1>0, ClaimOfSolvent
  <2>3. a \in Word /\ W \in Nat \ {0}
    BY <2>2, WordAssumption DEF Word
  <2>4. CASE ~Kicked
    <3>1. (pos[u].amount + (-a)) % W = pos[u].amount - a
      <4>1. pos[u].amount - a \in 0 .. W - 1
        BY <2>2, <2>3
      <4>2. pos[u].amount + (-a) = pos[u].amount - a
        BY <2>2, <2>3
      <4> QED
        BY <2>3, <4>1, <4>2, ModSmall
    <3>2. /\ cfg' = [cfg EXCEPT !.total_deposited = WSub(@, a)]
          /\ pos' = [pos EXCEPT ![u].amount = @ - a, ![u].start_slot = 0]
      BY <2>1, <2>4
    <3>3. AmountMoves(u, -a)
      BY <1>0, <3>1, <3>2 DEF AmountMoves, LedgerTypeOK, GenesisPosition
    <3>4. PoolOut(u, a)
      BY <1>0, <2>2, <3>2, <3>3 DEF PoolOut, LedgerTypeOK, GenesisConfig
    <3> QED
      BY <2>3, <3>4 DEF PoolStep
  <2>5. CASE Kicked
    <3>1. (pos[u].withdrawn + a) % W = pos[u].withdrawn + a
      <4>1. pos[u].withdrawn + a \in 0 .. W - 1
        BY <2>2, <2>3
      <4> QED
        BY <2>3, <4>1, ModSmall
    <3>2. /\ cfg' = [cfg EXCEPT !.total_withdrawn = WAdd(@, a)]
          /\ pos' = [pos EXCEPT ![u].withdrawn = @ + a, ![u].start_slot = 0]
      BY <2>1, <2>5
    <3>3. ClaimMoves(u, a)
      BY <1>0, <3>1, <3>2 DEF ClaimMoves, LedgerTypeOK, GenesisPosition
    <3>4. PoolRetire(u, a)
      BY <1>0, <3>2, <3>3 DEF PoolRetire, LedgerTypeOK, GenesisConfig
    <3> QED
      BY <2>3, <3>4 DEF PoolStep
  <2> QED
    BY <2>4, <2>5
<1>4. ASSUME kickstart_genesis_market
      PROVE  PoolKept
  BY <1>0, <1>4, RefusePool
  DEF kickstart_genesis_market, LedgerTypeOK, GenesisConfig, PoolKept, PositionsKept
<1>5. ASSUME NEW i \in Items, NEW a \in CoinAmounts,
             init_genesis_distribution(i, a)
      PROVE  PoolKept
  BY <1>5, RefusePool
  DEF init_genesis_distribution, PoolKept, PositionsKept
<1>6. ASSUME NEW u \in Users, NEW i \in Items, NEW action \in 0 .. 2,
             NEW now \in Slots, vote_genesis_distribution(u, i, action, now)
      PROVE  PoolKept
  BY <1>0, <1>6, BallotMovesNoStake DEF PoolKept
<1>7. ASSUME NEW i \in Items, NEW a \in CoinAmounts, genesis_mint_reward(i, a)
      PROVE  PoolKept
  BY <1>0, <1>7, RefusePool
  DEF genesis_mint_reward, LedgerTypeOK, GenesisConfig, PoolKept, PositionsKept
<1>8. ASSUME finalize_genesis
      PROVE  PoolKept
  BY <1>0, <1>8, RefusePool
  DEF finalize_genesis, LedgerTypeOK, GenesisConfig, PoolKept, PositionsKept
<1>9. ASSUME NEW a \in Amounts, NEW v \in Reads, draw_genesis_surplus(a, v)
      PROVE  PoolKept
  BY <1>9, RefusePool DEF draw_genesis_surplus
<1>10. ASSUME recover_genesis_market
       PROVE  PoolKept
  BY <1>10, RefusePool DEF recover_genesis_market
<1>11. CASE UNCHANGED vars
  <2>1. PoolKept
    BY <1>11 DEF ledger, vars, PoolKept, PositionsKept
  <2> QED
    BY <2>1 DEF PoolStep
<1> QED
  BY <1>1, <1>2, <1>3, <1>4, <1>5, <1>6, <1>7, <1>8, <1>9, <1>10, <1>11
  DEF Next, Deposits, Withdraws, Votes, PoolStep

(* The config account, once created, stays; before that nothing moves it.  *)
LEMMA NoConfigYet ==
  ASSUME [Next]_vars, Config \notin accounts'
  PROVE  Config \notin accounts /\ cfg' = cfg
<1>0. ASSUME NEW s, Refuse(s) PROVE cfg' = cfg /\ accounts' = accounts
  BY <1>0 DEF Refuse, ledger
<1>1. ASSUME NEW u \in Users, NEW a \in Amounts, NEW now \in Slots,
             genesis_deposit(u, a, now)
      PROVE  FALSE
  BY <1>0, <1>1 DEF genesis_deposit
<1>2. ASSUME NEW i \in Items, NEW a \in CoinAmounts,
             init_genesis_distribution(i, a)
      PROVE  FALSE
  BY <1>0, <1>2 DEF init_genesis_distribution
<1>3. ASSUME NEW u \in Users, NEW i \in Items, NEW action \in 0 .. 2,
             NEW now \in Slots, vote_genesis_distribution(u, i, action, now)
      PROVE  cfg' = cfg /\ accounts' = accounts
  <2>1. CASE action > 1 \/ VoteWeight(u, now) = 0
    BY <1>0, <1>3, <2>1 DEF vote_genesis_distribution
  <2>2. CASE ~(action > 1 \/ VoteWeight(u, now) = 0)
    BY <1>3, <2>2 DEF vote_genesis_distribution
  <2> QED
    BY <2>1, <2>2
<1>4. ASSUME NEW i \in Items, NEW a \in CoinAmounts, genesis_mint_reward(i, a)
      PROVE  FALSE
  <2>1. accounts' = accounts
    BY <1>0, <1>4 DEF genesis_mint_reward
  <2> QED
    BY <1>4, <2>1 DEF genesis_mint_reward
<1>5. ASSUME NEW a \in Amounts, NEW v \in Reads, draw_genesis_surplus(a, v)
      PROVE  cfg' = cfg /\ accounts' = accounts
  BY <1>0, <1>5 DEF draw_genesis_surplus
<1>6. ASSUME recover_genesis_market
      PROVE  cfg' = cfg /\ accounts' = accounts
  BY <1>0, <1>6 DEF recover_genesis_market
<1>7. CASE kickstart_genesis_market \/ finalize_genesis
  BY <1>0, <1>7 DEF kickstart_genesis_market, finalize_genesis
<1>8. CASE \E s \in RewardSupplies : init_genesis_bootstrap(s)
  BY <1>8 DEF init_genesis_bootstrap
<1>9. CASE Withdraws
  BY <1>9 DEF Withdraws, genesis_withdraw
<1>10. CASE UNCHANGED vars
  BY <1>10 DEF ledger, vars
<1> QED
  BY <1>1, <1>2, <1>3, <1>4, <1>5, <1>6, <1>7, <1>8, <1>9, <1>10
  DEF Next, Deposits, Votes

(* Both books of a step say the same.                                      *)
LEMMA StepPrincipal ==
  ASSUME PoolInv, LedgerTypeOK', PoolStep
  PROVE  PrincipalConserved'
<1>0. /\ LedgerTypeOK
      /\ cfg.total_deposited = Deposited % W
      /\ cfg.total_withdrawn = Withdrawn % W
  BY DEF PoolInv, LifecycleInv, PrincipalConserved
<1>1. W \in Nat \ {0} /\ Deposited \in Int /\ Withdrawn \in Int
  BY <1>0, PoolSums
<1>2. cfg.total_deposited \in Word /\ cfg.total_withdrawn \in Word
  BY <1>0 DEF LedgerTypeOK, GenesisConfig
<1>3. \A a \in Word : a \in Int /\ -a \in Int
  BY WordAssumption DEF Word
<1>4. CASE PoolKept
  BY <1>0, <1>4, SumsKept DEF PoolKept, PrincipalConserved
<1>5. ASSUME NEW u \in Users, NEW a \in Word, PoolIn(u, a)
      PROVE  PrincipalConserved'
  <2>1. Deposited' % W = (Deposited + a) % W /\ Withdrawn' = Withdrawn
    BY <1>0, <1>3, <1>5, DepositedMoves DEF PoolIn
  <2>2. WAdd(cfg.total_deposited, a) = (cfg.total_deposited + a) % W
    BY <1>2, WordModulo
  <2>3. ((Deposited % W) + a) % W = (Deposited + a) % W
    BY <1>1, <1>3, ModSum
  <2> QED
    BY <1>0, <1>5, <2>1, <2>2, <2>3 DEF PoolIn, PrincipalConserved
<1>6. ASSUME NEW u \in Users, NEW a \in Word, PoolOut(u, a)
      PROVE  PrincipalConserved'
  <2> DEFINE n == -a
  <2>0. n \in Int /\ AmountMoves(u, n)
    BY <1>3, <1>6 DEF PoolOut
  <2>1. cfg.total_deposited - a = cfg.total_deposited + n
    BY <1>2, <1>3, WordAssumption DEF Word
  <2> HIDE DEF n
  <2>2. Deposited' % W = (Deposited + n) % W /\ Withdrawn' = Withdrawn
    BY <1>0, <2>0, DepositedMoves
  <2>3. WSub(cfg.total_deposited, a) = (cfg.total_deposited - a) % W
    BY <1>2, WordModulo
  <2>4. ((Deposited % W) + n) % W = (Deposited + n) % W
    BY <1>1, <2>0, ModSum
  <2> QED
    BY <1>0, <1>6, <2>1, <2>2, <2>3, <2>4 DEF PoolOut, PrincipalConserved
<1>7. ASSUME NEW u \in Users, NEW a \in Word, PoolRetire(u, a)
      PROVE  PrincipalConserved'
  <2>1. Withdrawn' % W = (Withdrawn + a) % W /\ Deposited' = Deposited
    BY <1>0, <1>3, <1>7, WithdrawnMoves DEF PoolRetire
  <2>2. WAdd(cfg.total_withdrawn, a) = (cfg.total_withdrawn + a) % W
    BY <1>2, WordModulo
  <2>3. ((Withdrawn % W) + a) % W = (Withdrawn + a) % W
    BY <1>1, <1>3, ModSum
  <2> QED
    BY <1>0, <1>7, <2>1, <2>2, <2>3 DEF PoolRetire, PrincipalConserved
<1> QED
  BY <1>4, <1>5, <1>6, <1>7 DEF PoolStep

(* The pool invariant holds before any account exists.                     *)
LEMMA InitPool == Init => PoolInv
<1> SUFFICES ASSUME Init PROVE PoolInv
  OBVIOUS
<1>1. LifecycleInv /\ LedgerTypeOK
  BY InitLifecycle, InitTypeOK
<1>2. (\A u \in Users : Paid[u] = 0) /\ (\A u \in Users : Left[u] = 0)
  BY DEF Init, Paid, Left
<1>3. SumFunctionOnSet(Paid, Users) = 0 /\ SumFunctionOnSet(Left, Users) = 0
  BY <1>2, SumZero, FiniteAssumption
<1>4. Deposited = 0 /\ Withdrawn = 0
  BY <1>1, <1>3, PoolSums
<1>5. 0 % W = 0
  BY WordAssumption
<1> QED
  BY <1>1, <1>4, <1>5 DEF Init, PoolInv, PrincipalConserved

(* Every handler keeps the pool invariant.                                 *)
LEMMA NextPoolInv ==
  ASSUME ConfigOnce, PoolInv, [Next]_vars
  PROVE  PoolInv'
<1>1. LifecycleInv'
  BY NextLifecycle DEF PoolInv
<1>2. PrincipalConserved'
  BY <1>1, NextPool, StepPrincipal DEF LifecycleInv
<1>3. (Config \notin accounts
         => cfg.total_deposited = 0 /\ cfg.total_withdrawn = 0)'
  BY NoConfigYet DEF PoolInv
<1> QED
  BY <1>1, <1>2, <1>3 DEF PoolInv

(* The pool invariant holds throughout.                                    *)
LEMMA Pool == ASSUME ConfigOnce
              PROVE  Spec => []PoolInv
<1>1. PoolInv /\ [Next]_vars => PoolInv'
  BY NextPoolInv
<1> QED
  BY <1>1, InitPool, PTL DEF Spec

(* The config's two totals are the sums of the positions, wrapped counters *)
(* and all, whatever the order of deposits, the kick and the exits.        *)
THEOREM Principal == ASSUME ConfigOnce
                     PROVE  Spec => []PrincipalConserved
<1>1. PoolInv => PrincipalConserved
  BY DEF PoolInv
<1> QED
  BY <1>1, Pool, PTL

------------------------------------------------------------------------------
(* Where the transfer behind a deposit moves tokens that exist, the pool   *)
(* never holds more than there is, and no counter of it wraps.             *)

TokensReal == "spl" \in OnChain

SupplyInv == PoolInv /\ Deposited <= BaseSupply

(* Then the totals are the sums, and the claims paid are within them.      *)
LEMMA ExactTotals ==
  ASSUME SupplyInv
  PROVE  /\ cfg.total_deposited = Deposited
         /\ cfg.total_withdrawn = Withdrawn
         /\ Withdrawn <= Deposited /\ Deposited < W
         /\ Deposited \in Nat /\ Withdrawn \in Nat
         /\ Outstanding = Deposited - Withdrawn
<1>0. LedgerTypeOK /\ PoolInv
  BY DEF SupplyInv, PoolInv, LifecycleInv
<1>1. /\ IsFiniteSet(Users) /\ W \in Nat \ {0}
      /\ Deposited = SumFunctionOnSet(Paid, Users) /\ Deposited \in Nat
      /\ Withdrawn = SumFunctionOnSet(Left, Users) /\ Withdrawn \in Nat
  BY <1>0, PoolSums
<1>2. \A u \in Users : Left[u] \in Int /\ Paid[u] \in Int /\ Left[u] <= Paid[u]
  BY <1>0, PoolSums DEF PoolInv, LifecycleInv, PositionsSolvent, Left, Paid
<1>3. SumFunctionOnSet(Left, Users) <= SumFunctionOnSet(Paid, Users)
  BY <1>1, <1>2, SumMonotonic
<1>4. Deposited < W
  BY <1>1, SupplyAssumption, WordAssumption DEF SupplyInv, Word
<1>5. Deposited \in 0 .. W - 1 /\ Withdrawn \in 0 .. W - 1
  BY <1>1, <1>3, <1>4
<1>6. Deposited % W = Deposited /\ Withdrawn % W = Withdrawn
  BY <1>1, <1>5, ModSmall
<1>7. cfg.total_deposited = Deposited /\ cfg.total_withdrawn = Withdrawn
  BY <1>0, <1>6 DEF PoolInv, PrincipalConserved
<1>8. Outstanding = Deposited - Withdrawn
  BY <1>1, <1>3, <1>7 DEF Outstanding, WSub
<1> QED
  BY <1>1, <1>3, <1>4, <1>7, <1>8

(* A step that changes one summand by n, where nothing wraps.              *)
LEMMA DepositedExact ==
  ASSUME LedgerTypeOK, LedgerTypeOK', NEW u \in Users, NEW n \in Int, AmountMoves(u, n),
         pos[u].amount + n \in 0 .. W - 1
  PROVE  Deposited' = Deposited + n /\ pos'[u].amount = pos[u].amount + n
<1> DEFINE f == Paid
           g == [x \in Users |-> pos'[x].amount]
<1>1. /\ IsFiniteSet(Users) /\ W \in Nat \ {0}
      /\ Deposited = SumFunctionOnSet(f, Users) /\ Deposited \in Nat
      /\ \A x \in Users : f[x] \in Int
  BY PoolSums
<1>2. Deposited' = SumFunctionOnSet(g, Users)
  BY DEF Deposited, SumFunction
<1>3. \A x \in Users : g[x] \in Int
  BY WordAssumption DEF LedgerTypeOK, GenesisPosition, Word
<1>4. g[u] = (pos[u].amount + n) % W /\ f[u] = pos[u].amount
  BY DEF AmountMoves, Paid
<1>5. g[u] = f[u] + n
  BY <1>1, <1>4, ModSmall
<1>6. SameBut(f, g, {u}, Users)
  BY <1>1, <1>3 DEF AmountMoves, SameBut, Paid
<1>7. g[u] = pos'[u].amount
  OBVIOUS
<1> HIDE DEF f, g
<1>8. SumFunctionOnSet(g, Users) = (SumFunctionOnSet(f, Users) - f[u]) + g[u]
  BY <1>1, <1>6, SumChange
<1>9. SumFunctionOnSet(g, Users) = SumFunctionOnSet(f, Users) + n
  BY <1>1, <1>5, <1>8
<1> QED
  BY <1>1, <1>2, <1>4, <1>5, <1>7, <1>9

(* What a deposit of tokens that exist does.                               *)
LEMMA DepositFits ==
  ASSUME TokensReal, SupplyInv, LedgerTypeOK', NEW u \in Users, NEW a \in Word,
         PoolIn(u, a)
  PROVE  /\ Deposited' = Deposited + a
         /\ Deposited' <= BaseSupply
         /\ pos'[u].amount = pos[u].amount + a
<1>0. LedgerTypeOK
  BY DEF SupplyInv, PoolInv, LifecycleInv
<1>1. cfg.total_deposited + a <= BaseSupply
  BY DEF PoolIn, Transferable, TokensReal
<1>2. cfg.total_deposited = Deposited /\ Deposited \in Nat
  BY ExactTotals
<1>3. /\ IsFiniteSet(Users)
      /\ \A x \in Users : Paid[x] \in Nat
      /\ Deposited = SumFunctionOnSet(Paid, Users)
  BY <1>0, PoolSums
<1>4. \A x \in Users : Paid[x] <= SumFunctionOnSet(Paid, Users)
  BY <1>3, SumNat
<1>5. pos[u].amount \in Nat /\ pos[u].amount <= Deposited
  BY <1>3, <1>4 DEF Paid
<1>6. a \in Nat /\ BaseSupply \in 0 .. W - 1 /\ W \in Nat
  BY SupplyAssumption, WordAssumption DEF Word
<1>7. pos[u].amount + a \in 0 .. W - 1
  BY <1>1, <1>2, <1>5, <1>6
<1>8. a \in Int /\ AmountMoves(u, a)
  BY <1>6 DEF PoolIn
<1>9. Deposited' = Deposited + a /\ pos'[u].amount = pos[u].amount + a
  BY <1>0, <1>7, <1>8, DepositedExact
<1> QED
  BY <1>1, <1>2, <1>9

(* What an exit before the kick does.                                      *)
LEMMA ExitFits ==
  ASSUME SupplyInv, LedgerTypeOK', NEW u \in Users, NEW a \in Word, PoolOut(u, a)
  PROVE  /\ Deposited' = Deposited - a
         /\ Deposited' <= BaseSupply
         /\ pos'[u].amount = pos[u].amount - a
<1>0. LedgerTypeOK /\ Deposited <= BaseSupply
  BY DEF SupplyInv, PoolInv, LifecycleInv
<1>1. /\ pos[u].amount \in 0 .. W - 1 /\ a \in Nat /\ a <= pos[u].amount
      /\ W \in Nat /\ BaseSupply \in Nat
  BY <1>0, SupplyAssumption, WordAssumption
  DEF LedgerTypeOK, GenesisPosition, Word, PoolOut
<1>2. Deposited \in Nat
  BY <1>0, PoolSums
<1> DEFINE n == -a
<1>3. /\ n \in Int /\ AmountMoves(u, n)
      /\ pos[u].amount + n \in 0 .. W - 1
      /\ pos[u].amount + n = pos[u].amount - a
      /\ Deposited + n = Deposited - a
      /\ Deposited - a <= BaseSupply
  BY <1>0, <1>1, <1>2 DEF PoolOut
<1> HIDE DEF n
<1>4. Deposited' = Deposited + n /\ pos'[u].amount = pos[u].amount + n
  BY <1>0, <1>3, DepositedExact
<1> QED
  BY <1>3, <1>4

(* Every handler keeps the pool within the supply.                         *)
LEMMA NextSupply ==
  ASSUME ConfigOnce, TokensReal, SupplyInv, [Next]_vars
  PROVE  SupplyInv'
<1>1. PoolInv /\ LedgerTypeOK /\ Deposited <= BaseSupply
  BY DEF SupplyInv, PoolInv, LifecycleInv
<1>2. PoolInv' /\ LedgerTypeOK'
  BY <1>1, NextPoolInv DEF PoolInv, LifecycleInv
<1>3. PoolStep
  BY <1>1, NextPool
<1>4. ASSUME NEW u \in Users, NEW a \in Word, PoolRetire(u, a)
      PROVE  Deposited' = Deposited
  BY <1>4 DEF PoolRetire, ClaimMoves, Deposited
<1>5. Deposited' <= BaseSupply
  BY <1>1, <1>2, <1>3, <1>4, SumsKept, DepositFits, ExitFits
  DEF PoolStep, PoolKept
<1> QED
  BY <1>2, <1>5 DEF SupplyInv

(* Before the first deposit there is nothing to hold.                      *)
LEMMA InitSupply == Init => SupplyInv
<1> SUFFICES ASSUME Init PROVE SupplyInv
  OBVIOUS
<1>1. PoolInv
  BY InitPool
<1>2. \A u \in Users : Paid[u] = 0
  BY DEF Init, Paid
<1>3. SumFunctionOnSet(Paid, Users) = 0
  BY <1>2, SumZero, FiniteAssumption
<1>4. Deposited = SumFunctionOnSet(Paid, Users)
  BY <1>1, PoolSums DEF PoolInv, LifecycleInv
<1>5. 0 <= BaseSupply
  BY SupplyAssumption, WordAssumption DEF Word
<1> QED
  BY <1>1, <1>3, <1>4, <1>5 DEF SupplyInv

(* The pool holds no more than there is throughout.                        *)
LEMMA Supply == ASSUME ConfigOnce, TokensReal
                PROVE  Spec => []SupplyInv
<1>1. SupplyInv /\ [Next]_vars => SupplyInv'
  BY NextSupply
<1> QED
  BY <1>1, InitSupply, PTL DEF Spec

(* The pool never retires more principal than was deposited: outstanding   *)
(* principal, which quorum and surplus divide, never wraps.                *)
THEOREM Overdraw == ASSUME ConfigOnce, TokensReal
                    PROVE  Spec => []NoOverdraw
<1>1. SupplyInv => NoOverdraw
  BY ExactTotals DEF NoOverdraw
<1> QED
  BY <1>1, Supply, PTL

------------------------------------------------------------------------------
(* Ballots and the stake behind them, with every guard of the external     *)
(* layer in force.                                                         *)

GuardsInForce == OnChain = Guards

(* A guard in force is each of the four.                                   *)
LEMMA EachGuard ==
  GuardsInForce => /\ ConfigOnce /\ TokensReal
                   /\ "lock" \in OnChain /\ "fresh" \in OnChain
BY DEF GuardsInForce, Guards, ConfigOnce, TokensReal

(* The items u has a ballot on.                                            *)
Polled(u) == {i \in Items : ballot[u][i].weight # 0}

(* The capital u voted with is in the pool, and until the end of genesis   *)
(* it has not been taken out.                                              *)
Behind(u) ==
  \A i \in Items : /\ ballot[u][i].principal <= pos[u].amount
                   /\ ~Finalized => ballot[u][i].principal <= Remaining(u)

(* What is counted is what is on record: principals per item, ballots per  *)
(* voter; no ballot is on record before its item, nor capital without one. *)
Counted ==
  /\ \A u \in Users, i \in Items :
       ballot[u][i].weight = 0 => ballot[u][i].principal = 0
  /\ \A u \in Users, i \in Items \ accounts : ballot[u][i].weight = 0
  /\ \A i \in Items : dist[i].voted_principal = Principals(i, Users)
  /\ \A u \in Users : pos[u].active_votes = Cardinality(Polled(u))

BallotInv ==
  /\ SupplyInv
  /\ Counted
  /\ \A u \in Users : Behind(u)

(* The tallies and ballots a step keeps.                                   *)
BallotsKept ==
  /\ ballot' = ballot
  /\ accounts \subseteq accounts'
  /\ \A u \in Users : pos'[u].active_votes = pos[u].active_votes
  /\ \A i \in Items : dist'[i].voted_principal = dist[i].voted_principal

(* A new item starts with empty tallies.                                   *)
ItemCreated(i) ==
  /\ i \in Items \ accounts
  /\ ballot' = ballot
  /\ accounts \subseteq accounts'
  /\ UNCHANGED <<pos, cfg>>
  /\ \A j \in Items \ {i} : dist'[j] = dist[j]
  /\ dist'[i].voted_principal = 0

(* A ballot of u on i, where there was none, with weight w and capital p.  *)
BallotCast(u, i, w, p) ==
  /\ w \in Word \ {0} /\ p \in Word
  /\ p = Remaining(u)
  /\ ballot[u][i].weight = 0 /\ i \in accounts
  /\ pos[u].active_votes < MaxVotes
  /\ UNCHANGED <<accounts, cfg>>
  /\ PositionsKept
  /\ \A x \in Users :
       /\ x # u => pos'[x].active_votes = pos[x].active_votes
       /\ \A j \in Items : x # u \/ j # i => ballot'[x][j] = ballot[x][j]
  /\ pos'[u].active_votes = WAdd(pos[u].active_votes, 1)
  /\ ballot'[u][i].weight = w
  /\ ballot'[u][i].principal = p
  /\ \A j \in Items \ {i} : dist'[j] = dist[j]
  /\ dist'[i].voted_principal = WAdd(dist[i].voted_principal, p)

(* A vote is refused, or casts a ballot.                                   *)
LEMMA VoteCasts ==
  ASSUME GuardsInForce, LedgerTypeOK, NEW u \in Users, NEW i \in Items,
         NEW action \in 0 .. 2, NEW now \in Slots,
         vote_genesis_distribution(u, i, action, now)
  PROVE  \/ BallotsKept /\ UNCHANGED <<pos, cfg, accounts>>
         \/ BallotCast(u, i, VoteWeight(u, now), Remaining(u))
<1>1. CASE action > 1 \/ VoteWeight(u, now) = 0
  BY <1>1 DEF vote_genesis_distribution, Refuse, ledger, BallotsKept
<1>2. CASE ~(action > 1 \/ VoteWeight(u, now) = 0)
  <2> DEFINE w == VoteWeight(u, now)
             p == Remaining(u)
  <2>1. action \in {0, 1} /\ w \in Word \ {0} /\ p \in Word
    BY <1>2, VoteWeightType, RemainingType
  <2>2. /\ i \in accounts /\ ballot[u][i].weight = 0
        /\ pos[u].active_votes < MaxVotes
        /\ UNCHANGED <<accounts, cfg>>
    BY <1>2, EachGuard DEF vote_genesis_distribution, BallotFree
  <2>3. CastBallot(u, i, action, w, p)
    BY <1>2 DEF vote_genesis_distribution
  <2>4. PositionsKept
    BY BallotMovesNoStake
  <2>5. p = Remaining(u)
    OBVIOUS
  <2> HIDE DEF w, p
  <2>6. /\ \A x \in Users \ {u} : pos'[x].active_votes = pos[x].active_votes
        /\ pos'[u].active_votes = WAdd(pos[u].active_votes, 1)
    BY <2>3 DEF CastBallot, LedgerTypeOK, GenesisPosition
  <2>7. /\ \A x \in Users, j \in Items :
              x # u \/ j # i => ballot'[x][j] = ballot[x][j]
        /\ ballot'[u][i] = [weight |-> w, support |-> action, retracted |-> 0,
                            principal |-> p]
    BY <2>3 DEF CastBallot, LedgerTypeOK, GenesisDistributionVote
  <2>8. /\ \A j \in Items \ {i} : dist'[j] = dist[j]
        /\ dist'[i].voted_principal = WAdd(dist[i].voted_principal, p)
    <3> DEFINE y == IF action = 1 THEN WAdd(dist[i].yes_votes, w)
                    ELSE dist[i].yes_votes
               n == IF action = 1 THEN dist[i].no_votes
                    ELSE WAdd(dist[i].no_votes, w)
               q == WAdd(dist[i].voted_principal, p)
    <3>1. dist' = [dist EXCEPT ![i].yes_votes = y, ![i].no_votes = n,
                               ![i].voted_principal = q]
      BY <2>3 DEF CastBallot
    <3> HIDE DEF y, n, q
    <3>2. (\A j \in Items \ {i} : dist'[j] = dist[j]) /\ dist'[i].voted_principal = q
      BY <3>1 DEF LedgerTypeOK, GenesisDistribution
    <3> QED
      BY <3>2 DEF q
  <2>9. BallotCast(u, i, w, p)
    BY <2>1, <2>2, <2>4, <2>5, <2>6, <2>7, <2>8 DEF BallotCast
  <2> QED
    BY <2>9 DEF w, p
<1> QED
  BY <1>1, <1>2

(* Sums over the ballots of an item are sums of words.                     *)
LEMMA BallotSums ==
  ASSUME LedgerTypeOK, NEW i \in Items, NEW S \in SUBSET Users
  PROVE  /\ IsFiniteSet(Users) /\ IsFiniteSet(S)
         /\ \A u \in Users : /\ ballot[u][i].principal \in Nat
                             /\ ballot[u][i].weight \in Nat
         /\ Principals(i, S) \in Nat
         /\ Weights(i, S) \in Nat
<1>1. IsFiniteSet(Users) /\ IsFiniteSet(S)
  BY FiniteAssumption, FS_Subset
<1> DEFINE f == [u \in Users |-> ballot[u][i].principal]
           g == [u \in Users |-> ballot[u][i].weight]
<1>2. \A u \in Users : f[u] \in Nat /\ g[u] \in Nat
  BY WordAssumption DEF LedgerTypeOK, GenesisDistributionVote, Word
<1>3. /\ \A u \in Users : /\ ballot[u][i].principal \in Nat
                          /\ ballot[u][i].weight \in Nat
  BY <1>2
<1>4. /\ Principals(i, S) = SumFunctionOnSet(f, S)
      /\ Weights(i, S) = SumFunctionOnSet(g, S)
  BY DEF Principals, Weights
<1> HIDE DEF f, g
<1>5. SumFunctionOnSet(f, S) \in Nat /\ SumFunctionOnSet(g, S) \in Nat
  BY <1>1, <1>2, SumNat
<1> QED
  BY <1>1, <1>3, <1>4, <1>5

(* The count survives a step that keeps the ballots.                       *)
LEMMA CountedKept ==
  ASSUME Counted, BallotsKept
  PROVE  Counted'
<1>1. \A i \in Items : Principals(i, Users)' = Principals(i, Users)
  BY DEF BallotsKept, Principals
<1>2. \A u \in Users : Polled(u)' = Polled(u)
  BY DEF BallotsKept, Polled
<1> QED
  BY <1>1, <1>2 DEF Counted, BallotsKept

(* The count survives the creation of an item.                             *)
LEMMA CountedCreated ==
  ASSUME LedgerTypeOK, Counted, NEW i \in Items, ItemCreated(i)
  PROVE  Counted'
<1>1. \A j \in Items : Principals(j, Users)' = Principals(j, Users)
  BY DEF ItemCreated, Principals
<1>2. \A u \in Users : Polled(u)' = Polled(u) /\ pos' = pos
  BY DEF ItemCreated, Polled
<1>3. \A u \in Users : ballot[u][i].principal = 0
  BY DEF ItemCreated, Counted
<1> DEFINE f == [u \in Users |-> ballot[u][i].principal]
<1>4. \A u \in Users : f[u] = 0
  BY <1>3
<1>5. Principals(i, Users) = SumFunctionOnSet(f, Users)
  BY DEF Principals
<1> HIDE DEF f
<1>6. Principals(i, Users) = 0
  BY <1>4, <1>5, SumZero, FiniteAssumption
<1> QED
  BY <1>1, <1>2, <1>6 DEF Counted, ItemCreated

(* No more capital votes on an item than was deposited.                    *)
LEMMA VotedWithinDeposits ==
  ASSUME LedgerTypeOK, NEW i \in Items,
         \A u \in Users : ballot[u][i].principal <= pos[u].amount
  PROVE  Principals(i, Users) <= Deposited
<1> DEFINE f == [u \in Users |-> ballot[u][i].principal]
<1>1. /\ IsFiniteSet(Users)
      /\ \A u \in Users : ballot[u][i].principal \in Nat
  BY BallotSums
<1>2. /\ \A u \in Users : Paid[u] \in Nat /\ Paid[u] = pos[u].amount
      /\ Deposited = SumFunctionOnSet(Paid, Users)
  BY PoolSums DEF Paid
<1>3. \A u \in Users : f[u] \in Int /\ Paid[u] \in Int /\ f[u] <= Paid[u]
  BY <1>1, <1>2
<1>4. Principals(i, Users) = SumFunctionOnSet(f, Users)
  BY DEF Principals
<1> HIDE DEF f
<1>5. SumFunctionOnSet(f, Users) <= SumFunctionOnSet(Paid, Users)
  BY <1>1, <1>3, SumMonotonic
<1> QED
  BY <1>2, <1>4, <1>5

(* A ballot adds its capital to the item it is on.                         *)
LEMMA CastAddsPrincipal ==
  ASSUME LedgerTypeOK, LedgerTypeOK', Counted, NEW u \in Users, NEW i \in Items,
         NEW w, NEW p, BallotCast(u, i, w, p)
  PROVE  /\ Principals(i, Users)' = Principals(i, Users) + p
         /\ \A j \in Items \ {i} : Principals(j, Users)' = Principals(j, Users)
<1> DEFINE f == [x \in Users |-> ballot[x][i].principal]
           g == [x \in Users |-> ballot'[x][i].principal]
<1>1. /\ IsFiniteSet(Users)
      /\ \A x \in Users : f[x] \in Int
      /\ Principals(i, Users) \in Nat
  BY BallotSums
<1>2. \A x \in Users : g[x] \in Int
  BY WordAssumption DEF LedgerTypeOK, GenesisDistributionVote, Word
<1>3. f[u] = 0 /\ g[u] = p /\ p \in Int
  BY WordAssumption DEF Counted, BallotCast, Word
<1>4. SameBut(f, g, {u}, Users)
  BY <1>1, <1>2 DEF SameBut, BallotCast
<1>5. /\ Principals(i, Users) = SumFunctionOnSet(f, Users)
      /\ Principals(i, Users)' = SumFunctionOnSet(g, Users)
  BY DEF Principals
<1>6. ASSUME NEW j \in Items \ {i}
      PROVE  Principals(j, Users)' = Principals(j, Users)
  BY DEF Principals, BallotCast
<1> HIDE DEF f, g
<1>7. SumFunctionOnSet(g, Users) = (SumFunctionOnSet(f, Users) - f[u]) + g[u]
  BY <1>1, <1>4, SumChange
<1>8. Principals(i, Users)' = Principals(i, Users) + p
  BY <1>1, <1>3, <1>5, <1>7
<1> QED
  BY <1>6, <1>8

(* A ballot is one more of its voter.                                      *)
LEMMA CastAddsBallot ==
  ASSUME LedgerTypeOK, Counted, NEW u \in Users, NEW i \in Items,
         NEW w, NEW p, BallotCast(u, i, w, p)
  PROVE  \A x \in Users : pos'[x].active_votes = Cardinality(Polled(x))'
<1>1. ASSUME NEW x \in Users \ {u}
      PROVE  pos'[x].active_votes = Cardinality(Polled(x))'
  <2>1. Polled(x)' = Polled(x)
    BY DEF Polled, BallotCast
  <2> QED
    BY <2>1 DEF Counted, BallotCast
<1>2. pos'[u].active_votes = Cardinality(Polled(u))'
  <2>1. Polled(u)' = Polled(u) \union {i} /\ i \notin Polled(u)
    BY DEF Polled, BallotCast
  <2>2. IsFiniteSet(Polled(u))
    BY FiniteAssumption, FS_Subset DEF Polled
  <2>3. Cardinality(Polled(u) \union {i}) = Cardinality(Polled(u)) + 1
    BY <2>1, <2>2, FS_AddElement
  <2>4. pos[u].active_votes \in Nat /\ MaxVotes < W /\ MaxVotes \in Nat /\ W \in Nat
    BY InputAssumption, WordAssumption DEF LedgerTypeOK, GenesisPosition, Word
  <2>5. WAdd(pos[u].active_votes, 1) = pos[u].active_votes + 1
    BY <2>4 DEF WAdd, BallotCast
  <2> QED
    BY <2>1, <2>3, <2>5 DEF Counted, BallotCast
<1> QED
  BY <1>1, <1>2

(* The count survives a ballot: no sum of principals leaves a word.        *)
LEMMA CountedCast ==
  ASSUME BallotInv, SupplyInv', NEW u \in Users, NEW i \in Items,
         NEW w, NEW p, BallotCast(u, i, w, p)
  PROVE  Counted'
<1>0. LedgerTypeOK /\ LedgerTypeOK' /\ Counted /\ LifecycleInv
  BY DEF BallotInv, SupplyInv, PoolInv, LifecycleInv
<1>1. /\ Principals(i, Users)' = Principals(i, Users) + p
      /\ \A j \in Items \ {i} : Principals(j, Users)' = Principals(j, Users)
  BY <1>0, CastAddsPrincipal
<1>2. \A x \in Users : pos'[x].active_votes = Cardinality(Polled(x))'
  BY <1>0, CastAddsBallot
<1>3. p <= pos[u].amount
  BY <1>0, ClaimOfSolvent, WordAssumption DEF BallotCast, Word
<1>4. (\A x \in Users : ballot[x][i].principal <= pos[x].amount)'
  BY <1>3 DEF BallotInv, Behind, BallotCast, PositionsKept
<1>5. (Principals(i, Users) <= Deposited)'
  <2>1. /\ IsFiniteSet(Users)
        /\ (\A x \in Users : ballot[x][i].principal \in Nat)'
        /\ (\A x \in Users : pos[x].amount \in Nat)'
    BY <1>0, FiniteAssumption, WordAssumption
    DEF LedgerTypeOK, GenesisDistributionVote, GenesisPosition, Word
  <2> DEFINE f == [x \in Users |-> ballot'[x][i].principal]
             g == [x \in Users |-> pos'[x].amount]
  <2>2. \A x \in Users : f[x] \in Int /\ g[x] \in Int /\ f[x] <= g[x]
    BY <1>4, <2>1
  <2>3. Principals(i, Users)' = SumFunctionOnSet(f, Users)
    BY DEF Principals
  <2>4. Deposited' = SumFunctionOnSet(g, Users)
    BY DEF Deposited, SumFunction
  <2> HIDE DEF f, g
  <2>5. SumFunctionOnSet(f, Users) <= SumFunctionOnSet(g, Users)
    BY <2>1, <2>2, SumMonotonic
  <2> QED
    BY <2>3, <2>4, <2>5
<1>6. Deposited' <= BaseSupply /\ BaseSupply < W /\ BaseSupply \in Nat /\ W \in Nat
  BY SupplyAssumption, WordAssumption DEF SupplyInv, Word
<1>7. Principals(i, Users) \in Nat /\ p \in Nat /\ Deposited' \in Nat
  <2>1. Principals(i, Users) \in Nat /\ Deposited \in Nat
    BY <1>0, BallotSums, PoolSums
  <2>2. Deposited' = Deposited /\ p \in Nat
    BY SumsKept, WordAssumption DEF BallotCast, Word
  <2> QED
    BY <2>1, <2>2
<1>8. WAdd(Principals(i, Users), p) = Principals(i, Users) + p
  BY <1>1, <1>5, <1>6, <1>7 DEF WAdd
<1>9. \A j \in Items : dist'[j].voted_principal = Principals(j, Users)'
  BY <1>0, <1>1, <1>8 DEF Counted, BallotCast
<1>10. /\ (\A x \in Users, j \in Items :
             ballot[x][j].weight = 0 => ballot[x][j].principal = 0)'
       /\ (\A x \in Users, j \in Items \ accounts : ballot[x][j].weight = 0)'
  BY <1>0 DEF Counted, BallotCast
<1> QED
  BY <1>2, <1>9, <1>10 DEF Counted

(* A claim that does not move, seen from the state before and after.       *)
LEMMA BehindKept ==
  ASSUME NEW u \in Users, Behind(u), Finalized => Finalized',
         pos'[u].amount = pos[u].amount, pos'[u].withdrawn = pos[u].withdrawn,
         \A i \in Items : ballot'[u][i].principal = ballot[u][i].principal
  PROVE  Behind(u)'
BY DEF Behind, Remaining

(* A position without a live ballot has no capital behind any.             *)
LEMMA NoBallotNoCapital ==
  ASSUME Counted, NEW u \in Users, pos[u].active_votes = 0
  PROVE  \A i \in Items : ballot[u][i].principal = 0
<1>1. IsFiniteSet(Polled(u))
  BY FiniteAssumption, FS_Subset DEF Polled
<1>2. Polled(u) = {}
  BY <1>1, FS_EmptySet DEF Counted
<1> QED
  BY <1>2 DEF Counted, Polled

(* A deposit only adds to what stands behind the ballots.                  *)
LEMMA DepositBehind ==
  ASSUME ConfigOnce, TokensReal, BallotInv, SupplyInv',
         NEW u \in Users, NEW a \in Amounts, NEW now \in Slots, genesis_deposit(u, a, now)
  PROVE  BallotsKept /\ \A x \in Users : Behind(x)'
<1>0. /\ LedgerTypeOK /\ LedgerTypeOK' /\ LifecycleInv /\ LifecycleInv'
      /\ SupplyInv /\ Counted
  BY DEF BallotInv, SupplyInv, PoolInv, LifecycleInv
<1>1. \A x \in Users : Behind(x)
  BY DEF BallotInv
<1>2. CASE DepositsClosed
  <2>1. ledger' = ledger
    BY <1>2 DEF genesis_deposit, Refuse
  <2>2. BallotsKept
    BY <2>1 DEF ledger, BallotsKept
  <2> QED
    BY <1>1, <2>1, <2>2, BehindKept DEF ledger, Finalized
<1>3. CASE ~DepositsClosed
  <2>1. a \in Word /\ pos[u].amount \in Word
    BY <1>0, InputAssumption DEF LedgerTypeOK, GenesisPosition
  <2>2. /\ cfg' = [cfg EXCEPT !.total_deposited = WAdd(@, a)]
        /\ pos' = [pos EXCEPT ![u].amount = WAdd(@, a), ![u].start_slot = now]
        /\ Transferable(a) /\ UNCHANGED <<accounts, dist, ballot>>
    BY <1>3 DEF genesis_deposit
  <2>3. WAdd(pos[u].amount, a) = (pos[u].amount + a) % W
    BY <2>1, WordModulo
  <2>4. AmountMoves(u, a)
    BY <1>0, <2>2, <2>3 DEF AmountMoves, LedgerTypeOK, GenesisPosition
  <2>5. PoolIn(u, a)
    BY <1>0, <2>2, <2>4 DEF PoolIn, LedgerTypeOK, GenesisConfig
  <2>6. pos'[u].amount = pos[u].amount + a
    BY <1>0, <2>1, <2>5, DepositFits
  <2>7. \A x \in Users : pos'[x].active_votes = pos[x].active_votes
    BY <1>0, <2>2 DEF LedgerTypeOK, GenesisPosition
  <2>8. BallotsKept
    BY <2>2, <2>7 DEF BallotsKept
  <2>9. Finalized' = Finalized
    BY <1>0, <2>2 DEF Finalized, LedgerTypeOK, GenesisConfig
  <2>10. ASSUME NEW x \in Users \ {u} PROVE Behind(x)'
    BY <1>1, <2>2, <2>4, <2>9, BehindKept DEF AmountMoves
  <2>11. Behind(u)'
    <3>1. /\ Remaining(u) = pos[u].amount - pos[u].withdrawn
          /\ Remaining(u)' = pos'[u].amount - pos'[u].withdrawn
          /\ pos'[u].withdrawn = pos[u].withdrawn
      BY <1>0, <2>4, ClaimOfSolvent, SolventAfter DEF AmountMoves
    <3>2. pos[u].amount \in Nat /\ pos[u].withdrawn \in Nat /\ a \in Nat
      BY <1>0, <2>1, WordAssumption DEF LedgerTypeOK, GenesisPosition, Word
    <3>3. \A i \in Items : ballot[u][i].principal \in Nat
      BY <1>0, BallotSums
    <3> QED
      BY <1>1, <2>2, <2>6, <2>9, <3>1, <3>2, <3>3 DEF Behind
  <2> QED
    BY <2>8, <2>10, <2>11
<1> QED
  BY <1>2, <1>3

(* Nobody leaves from behind a ballot: an exit while genesis runs is one   *)
(* of a position without live ballots, and a later one keeps the amount.   *)
LEMMA WithdrawBehind ==
  ASSUME "lock" \in OnChain, BallotInv, SupplyInv',
         NEW u \in Users, NEW r \in Reads, NEW v \in Reads,
         genesis_withdraw(u, r, v)
  PROVE  BallotsKept /\ \A x \in Users : Behind(x)'
<1>0. LedgerTypeOK /\ LedgerTypeOK' /\ LifecycleInv /\ LifecycleInv' /\ Counted
  BY DEF BallotInv, SupplyInv, PoolInv, LifecycleInv
<1>1. \A x \in Users : Behind(x)
  BY DEF BallotInv
<1>2. PICK a \in 0 .. Remaining(u) :
         \/ /\ ~Kicked
            /\ cfg' = [cfg EXCEPT !.total_deposited = WSub(@, a)]
            /\ pos' = [pos EXCEPT ![u].amount = @ - a, ![u].start_slot = 0]
         \/ /\ Kicked
            /\ cfg' = [cfg EXCEPT !.total_withdrawn = WAdd(@, a)]
            /\ pos' = [pos EXCEPT ![u].withdrawn = @ + a, ![u].start_slot = 0]
  BY <1>0, ExitClaims
<1>3. ballot' = ballot /\ accounts' = accounts /\ dist' = dist
  BY DEF genesis_withdraw
<1>4. /\ \A x \in Users : pos'[x].active_votes = pos[x].active_votes
      /\ \A x \in Users \ {u} : /\ pos'[x].amount = pos[x].amount
                                /\ pos'[x].withdrawn = pos[x].withdrawn
  <2>1. \A x \in Users : pos'[x].active_votes = pos[x].active_votes
    <3>1. pos \in [Users -> GenesisPosition]
      BY <1>0 DEF LedgerTypeOK
    <3> QED
      BY <1>2, <3>1 DEF GenesisPosition
  <2>2. \A x \in Users \ {u} : pos'[x] = pos[x]
    BY <1>0, <1>2 DEF LedgerTypeOK
  <2> QED
    BY <2>1, <2>2
<1>5. BallotsKept
  BY <1>3, <1>4 DEF BallotsKept
<1>6. Finalized' = Finalized
  BY <1>0, <1>2 DEF Finalized, LedgerTypeOK, GenesisConfig
<1>7. ASSUME NEW x \in Users \ {u} PROVE Behind(x)'
  BY <1>1, <1>3, <1>4, <1>6, BehindKept
<1>8. CASE ~Finalized
  <2>1. \A i \in Items : ballot'[u][i].principal = 0
    BY <1>0, <1>3, <1>8, NoBallotNoCapital DEF genesis_withdraw, ExitUnlocked
  <2>2. pos'[u].amount \in Nat /\ Remaining(u)' \in Nat
    <3>1. pos'[u].amount \in Word /\ pos'[u].withdrawn \in Word
      BY <1>0 DEF LedgerTypeOK, GenesisPosition
    <3>2. WSub(pos'[u].amount, pos'[u].withdrawn) \in Word
      BY <3>1, WSubType
    <3> QED
      BY <3>1, <3>2, WordAssumption DEF Remaining, Word
  <2>3. Behind(u)'
    BY <2>1, <2>2 DEF Behind
  <2> QED
    BY <1>5, <1>7, <2>3
<1>9. CASE Finalized
  <2>1. Kicked
    BY <1>0, <1>9 DEF LifecycleInv, PhasesConsistent
  <2>2. pos'[u].amount = pos[u].amount
    BY <1>0, <1>2, <2>1 DEF LedgerTypeOK, GenesisPosition
  <2>3. Behind(u)'
    BY <1>1, <1>3, <1>6, <1>9, <2>2 DEF Behind
  <2> QED
    BY <1>5, <1>7, <2>3
<1> QED
  BY <1>8, <1>9

(* A ballot is cast with the claim of its voter.                           *)
LEMMA CastBehind ==
  ASSUME BallotInv, NEW u \in Users, NEW i \in Items,
         NEW w, NEW p, BallotCast(u, i, w, p)
  PROVE  \A x \in Users : Behind(x)'
<1>0. LedgerTypeOK /\ LifecycleInv /\ \A x \in Users : Behind(x)
  BY DEF BallotInv, SupplyInv, PoolInv, LifecycleInv
<1>1. Finalized' = Finalized
  BY DEF BallotCast, Finalized
<1>2. ASSUME NEW x \in Users \ {u} PROVE Behind(x)'
  BY <1>0, <1>1, BehindKept DEF BallotCast, PositionsKept
<1>3. Behind(u)'
  <2>1. /\ Remaining(u)' = Remaining(u)
        /\ pos'[u].amount = pos[u].amount
    BY DEF BallotCast, PositionsKept, Remaining
  <2>2. p = Remaining(u) /\ p <= pos[u].amount
    BY <1>0, ClaimOfSolvent, WordAssumption DEF BallotCast, Word
  <2>3. p <= p
    BY WordAssumption DEF BallotCast, Word
  <2>4. \A j \in Items : \/ ballot'[u][j] = ballot[u][j]
                         \/ ballot'[u][j].principal = p
    BY DEF BallotCast
  <2> QED
    BY <1>0, <1>1, <2>1, <2>2, <2>3, <2>4 DEF Behind
<1> QED
  BY <1>2, <1>3

(* What a step does to the ballots: a cast, a new item, or nothing.        *)
BallotStep ==
  \/ BallotsKept
  \/ \E i \in Items : ItemCreated(i)
  \/ \E u \in Users, i \in Items, w \in Word :
       BallotCast(u, i, w, Remaining(u))

(* Every step is one of these, and leaves the ballots backed.              *)
LEMMA NextBallots ==
  ASSUME GuardsInForce, BallotInv, SupplyInv', [Next]_vars
  PROVE  BallotStep /\ \A x \in Users : Behind(x)'
<1> DEFINE Goal == BallotStep /\ \A x \in Users : Behind(x)'
<1>0. /\ LedgerTypeOK /\ LedgerTypeOK' /\ LifecycleInv /\ Counted
      /\ ConfigOnce /\ TokensReal /\ "lock" \in OnChain
  BY EachGuard DEF BallotInv, SupplyInv, PoolInv, LifecycleInv
<1>1. \A x \in Users : Behind(x)
  BY DEF BallotInv
<1>2. Finalized => Finalized'
  BY <1>0, StepIsFinal DEF PhaseStep
<1>3. ASSUME BallotsKept, PositionsKept PROVE Goal
  <2>1. \A x \in Users : Behind(x)'
    BY <1>1, <1>2, <1>3, BehindKept DEF BallotsKept, PositionsKept
  <2> QED
    BY <1>3, <2>1 DEF BallotStep
<1>4. ASSUME NEW s, Refuse(s) PROVE Goal
  BY <1>3, <1>4 DEF Refuse, ledger, BallotsKept, PositionsKept
<1> HIDE DEF Goal
<1>5. ASSUME NEW s \in RewardSupplies, init_genesis_bootstrap(s)
      PROVE  Goal
  BY <1>3, <1>5 DEF init_genesis_bootstrap, BallotsKept, PositionsKept
<1>6. ASSUME NEW u \in Users, NEW a \in Amounts, NEW now \in Slots,
             genesis_deposit(u, a, now)
      PROVE  Goal
  BY <1>0, <1>6, DepositBehind DEF BallotStep, Goal
<1>7. ASSUME NEW u \in Users, NEW r \in Reads, NEW v \in Reads,
             genesis_withdraw(u, r, v)
      PROVE  Goal
  BY <1>0, <1>7, WithdrawBehind DEF BallotStep, Goal
<1>8. ASSUME NEW i \in Items, NEW a \in CoinAmounts,
             init_genesis_distribution(i, a)
      PROVE  Goal
  <2>1. CASE a > cfg.reward_supply
    BY <1>4, <1>8, <2>1 DEF init_genesis_distribution
  <2>2. CASE ~(a > cfg.reward_supply)
    <3>1. ItemCreated(i)
      BY <1>0, <1>8, <2>2
      DEF init_genesis_distribution, ItemCreated, Creates, ConfigOnce, LedgerTypeOK
    <3>2. \A x \in Users : Behind(x)'
      BY <1>1, <1>2, <3>1, BehindKept DEF ItemCreated
    <3> QED
      BY <3>1, <3>2 DEF BallotStep, Goal
  <2> QED
    BY <2>1, <2>2
<1>9. ASSUME NEW u \in Users, NEW i \in Items, NEW action \in 0 .. 2,
             NEW now \in Slots, vote_genesis_distribution(u, i, action, now)
      PROVE  Goal
  <2>1. CASE BallotsKept /\ UNCHANGED <<pos, cfg, accounts>>
    BY <1>3, <2>1 DEF PositionsKept
  <2>2. CASE BallotCast(u, i, VoteWeight(u, now), Remaining(u))
    <3>1. \A x \in Users : Behind(x)'
      BY <2>2, CastBehind
    <3> QED
      BY <1>0, <2>2, <3>1, VoteWeightType DEF BallotStep, Goal
  <2> QED
    BY <1>0, <1>9, <2>1, <2>2, VoteCasts
<1>10. ASSUME NEW i \in Items, NEW a \in CoinAmounts, genesis_mint_reward(i, a)
       PROVE  Goal
  <2>1. CASE MintStatus(i, a) # STATUS_OK
    BY <1>4, <1>10, <2>1 DEF genesis_mint_reward
  <2>2. CASE MintStatus(i, a) = STATUS_OK
    BY <1>0, <1>3, <1>10, <2>2
    DEF genesis_mint_reward, BallotsKept, PositionsKept, LedgerTypeOK,
        GenesisDistribution
  <2> QED
    BY <2>1, <2>2
<1>11. ASSUME kickstart_genesis_market \/ finalize_genesis
       PROVE  Goal
  BY <1>3, <1>4, <1>11
  DEF kickstart_genesis_market, finalize_genesis, BallotsKept, PositionsKept
<1>12. ASSUME NEW a \in Amounts, NEW v \in Reads, draw_genesis_surplus(a, v)
       PROVE  Goal
  BY <1>4, <1>12 DEF draw_genesis_surplus
<1>13. ASSUME recover_genesis_market
       PROVE  Goal
  BY <1>4, <1>13 DEF recover_genesis_market
<1>14. ASSUME UNCHANGED vars
       PROVE  Goal
  BY <1>3, <1>14 DEF ledger, vars, BallotsKept, PositionsKept
<1>15. Goal
  BY <1>5, <1>6, <1>7, <1>8, <1>9, <1>10, <1>11, <1>12, <1>13, <1>14
  DEF Next, Deposits, Withdraws, Votes
<1> QED
  BY <1>15 DEF Goal

(* Every handler keeps the ballot invariant.                               *)
LEMMA NextBallotInv ==
  ASSUME GuardsInForce, BallotInv, [Next]_vars
  PROVE  BallotInv'
<1>1. SupplyInv'
  BY EachGuard, NextSupply DEF BallotInv
<1>2. BallotStep /\ \A x \in Users : Behind(x)'
  BY <1>1, NextBallots
<1>3. LedgerTypeOK /\ Counted
  BY DEF BallotInv, SupplyInv, PoolInv, LifecycleInv
<1>4. Counted'
  BY <1>1, <1>2, <1>3, CountedKept, CountedCreated, CountedCast DEF BallotStep
<1> QED
  BY <1>1, <1>2, <1>4 DEF BallotInv

(* The ballot invariant holds before any account exists.                   *)
LEMMA InitBallots == Init /\ SupplyInv => BallotInv
<1> SUFFICES ASSUME Init, SupplyInv PROVE BallotInv
  OBVIOUS
<1>1. /\ \A u \in Users : pos[u].active_votes = 0 /\ pos[u].amount = 0
      /\ \A u \in Users, i \in Items :
           ballot[u][i].weight = 0 /\ ballot[u][i].principal = 0
      /\ \A i \in Items : dist[i].voted_principal = 0
      /\ \A u \in Users : pos[u].withdrawn = 0
  BY DEF Init
<1>2. ASSUME NEW u \in Users
      PROVE  Cardinality(Polled(u)) = 0
  <2>1. Polled(u) = {}
    BY <1>1 DEF Polled
  <2> QED
    BY <2>1, FS_EmptySet
<1>3. ASSUME NEW i \in Items
      PROVE  Principals(i, Users) = 0
  <2> DEFINE f == [u \in Users |-> ballot[u][i].principal]
  <2>1. \A u \in Users : f[u] = 0
    BY <1>1
  <2>2. Principals(i, Users) = SumFunctionOnSet(f, Users)
    BY DEF Principals
  <2> HIDE DEF f
  <2> QED
    BY <2>1, <2>2, SumZero, FiniteAssumption
<1>4. Counted
  BY <1>1, <1>2, <1>3 DEF Counted
<1>5. \A u \in Users : Behind(u)
  BY <1>1, WordAssumption DEF Behind, Remaining, WSub
<1> QED
  BY <1>4, <1>5 DEF BallotInv

(* The ballot invariant holds throughout.                                  *)
LEMMA Ballots == ASSUME GuardsInForce
                 PROVE  Spec => []BallotInv
<1>1. BallotInv /\ [Next]_vars => BallotInv'
  BY NextBallotInv
<1>2. Spec => []SupplyInv
  BY EachGuard, Supply
<1> QED
  BY <1>1, <1>2, InitBallots, PTL DEF Spec

(* A cast ballot never outlives its capital.                               *)
THEOREM Backing == ASSUME GuardsInForce
                   PROVE  Spec => []BallotsBackedByStake
<1>1. BallotInv => BallotsBackedByStake
  BY DEF BallotInv, Behind, BallotsBackedByStake
<1> QED
  BY <1>1, Ballots, PTL

(* No base unit votes twice on an item, not through another position       *)
(* either: the capital counted for it is within what is outstanding.       *)
THEOREM SybilBond == ASSUME GuardsInForce
                     PROVE  Spec => []NoRecycledCapital
<1>1. ASSUME BallotInv
      PROVE  NoRecycledCapital
  <2>0. LedgerTypeOK /\ LifecycleInv /\ SupplyInv
    BY <1>1 DEF BallotInv, SupplyInv, PoolInv, LifecycleInv
  <2> SUFFICES ASSUME ~Finalized, NEW i \in Items
               PROVE  dist[i].voted_principal <= Outstanding
    BY DEF NoRecycledCapital
  <2> DEFINE f == [u \in Users |-> ballot[u][i].principal]
             g == [u \in Users |-> Remaining(u)]
  <2>1. /\ IsFiniteSet(Users)
        /\ \A u \in Users : Paid[u] \in Nat /\ Left[u] \in Nat
        /\ Deposited = SumFunctionOnSet(Paid, Users)
        /\ Withdrawn = SumFunctionOnSet(Left, Users)
        /\ \A u \in Users : f[u] \in Nat
    BY <2>0, PoolSums, BallotSums
  <2>2. \A u \in Users : g[u] = Paid[u] - Left[u]
    BY <2>0, ClaimOfSolvent DEF Paid, Left
  <2>3. \A u \in Users : f[u] <= g[u]
    BY <1>1 DEF BallotInv, Behind
  <2>4. dist[i].voted_principal = SumFunctionOnSet(f, Users)
    BY <1>1 DEF BallotInv, Counted, Principals
  <2> HIDE DEF f, g
  <2>5. \A u \in Users : g[u] \in Int /\ Left[u] \in Int /\ Paid[u] = g[u] + Left[u]
    BY <2>1, <2>2
  <2>6. \A u \in Users : f[u] \in Int /\ g[u] \in Int /\ f[u] <= g[u]
    BY <2>1, <2>3, <2>5
  <2>7. SumFunctionOnSet(f, Users) <= SumFunctionOnSet(g, Users)
    BY <2>1, <2>6, SumMonotonic
  <2>8. SumFunctionOnSet(Paid, Users)
          = SumFunctionOnSet(g, Users) + SumFunctionOnSet(Left, Users)
    BY <2>1, <2>5, SumAdd
  <2>9. /\ Outstanding = Deposited - Withdrawn
        /\ Deposited \in Nat /\ Withdrawn \in Nat
    BY <2>0, ExactTotals
  <2>10. SumFunctionOnSet(g, Users) \in Int
    BY <2>1, <2>5, SumType
  <2>11. SumFunctionOnSet(g, Users) = Outstanding
    BY <2>1, <2>8, <2>9, <2>10
  <2> QED
    BY <2>4, <2>7, <2>11
<1> QED
  BY <1>1, Ballots, PTL

------------------------------------------------------------------------------
(* Mints.                                                                  *)

(* What only an accepted mint does to an item, and what only a mint        *)
(* refused for want of votes answers.                                      *)
MintsOnly ==
  \A i \in Items :
    dist[i].executed = 0 /\ dist'[i].executed = 1 => ~Finalized /\ QuorumMet(i)

(* No other call does either.                                              *)
LEMMA NextMints == ASSUME LedgerTypeOK, [Next]_vars
                   PROVE  MintsOnly
<1> USE DEF STATUS_OK, STATUS_DEPOSITS_CLOSED, STATUS_NOT_KICKED,
     STATUS_ALREADY_FINALIZED, STATUS_NO_MAJORITY, STATUS_NO_QUORUM,
     STATUS_SUPPLY_OVERFLOW, STATUS_SUPPLY_INCOMPLETE,
     STATUS_INSUFFICIENT_SURPLUS, STATUS_NO_VOTE_WEIGHT,
     STATUS_NOT_FINALIZED, STATUS_ALREADY_KICKED, STATUS_EMPTY_DEPOSIT,
     STATUS_BAD_ACTION
<1>0. ASSUME \A i \in Items : dist'[i].executed \in {0, dist[i].executed}
      PROVE  MintsOnly
  BY <1>0 DEF MintsOnly
<1>1. ASSUME NEW s, Refuse(s)
      PROVE  MintsOnly
  BY <1>1, <1>0 DEF Refuse, ledger
<1>2. ASSUME NEW s \in RewardSupplies, init_genesis_bootstrap(s)
      PROVE  MintsOnly
  BY <1>0, <1>2 DEF init_genesis_bootstrap
<1>3. ASSUME NEW u \in Users, NEW a \in Amounts, NEW now \in Slots,
             genesis_deposit(u, a, now)
      PROVE  MintsOnly
  BY <1>0, <1>1, <1>3 DEF genesis_deposit
<1>4. ASSUME NEW u \in Users, NEW r \in Reads, NEW v \in Reads,
             genesis_withdraw(u, r, v)
      PROVE  MintsOnly
  BY <1>0, <1>4 DEF genesis_withdraw
<1>5. ASSUME kickstart_genesis_market
      PROVE  MintsOnly
  BY <1>0, <1>1, <1>5 DEF kickstart_genesis_market
<1>6. ASSUME NEW i \in Items, NEW a \in CoinAmounts,
             init_genesis_distribution(i, a)
      PROVE  MintsOnly
  BY <1>0, <1>1, <1>6 DEF init_genesis_distribution, LedgerTypeOK
<1>7. ASSUME NEW u \in Users, NEW i \in Items, NEW action \in 0 .. 2,
             NEW now \in Slots, vote_genesis_distribution(u, i, action, now)
      PROVE  MintsOnly
  <2>1. CASE action > 1 \/ VoteWeight(u, now) = 0
    BY <1>1, <1>7, <2>1 DEF vote_genesis_distribution
  <2>2. CASE ~(action > 1 \/ VoteWeight(u, now) = 0)
    <3> DEFINE w == VoteWeight(u, now)
               p == Remaining(u)
    <3>1. CastBallot(u, i, action, w, p)
      BY <1>7, <2>2 DEF vote_genesis_distribution
    <3> HIDE DEF w, p
    <3> DEFINE y == IF action = 1 THEN WAdd(dist[i].yes_votes, w)
                    ELSE dist[i].yes_votes
               n == IF action = 1 THEN dist[i].no_votes
                    ELSE WAdd(dist[i].no_votes, w)
               q == WAdd(dist[i].voted_principal, p)
    <3>2. dist' = [dist EXCEPT ![i].yes_votes = y, ![i].no_votes = n,
                               ![i].voted_principal = q]
      BY <3>1 DEF CastBallot
    <3> HIDE DEF y, n, q
    <3>3. \A j \in Items : dist'[j].executed = dist[j].executed
      BY <3>2 DEF LedgerTypeOK, GenesisDistribution
    <3> QED
      BY <1>0, <3>3
  <2> QED
    BY <2>1, <2>2
<1>8. ASSUME NEW i \in Items, NEW a \in CoinAmounts, genesis_mint_reward(i, a)
      PROVE  MintsOnly
  <2>1. CASE MintStatus(i, a) # STATUS_OK
    BY <1>1, <1>8, <2>1 DEF genesis_mint_reward
  <2>2. CASE MintStatus(i, a) = STATUS_OK
    <3>1. ~Finalized /\ QuorumMet(i)
      BY <2>2 DEF MintStatus
    <3>2. dist' = [dist EXCEPT ![i].executed = 1]
      BY <1>8, <2>2 DEF genesis_mint_reward
    <3>3. \A j \in Items \ {i} : dist'[j] = dist[j]
      BY <3>2 DEF LedgerTypeOK
    <3> QED
      BY <3>1, <3>3 DEF MintsOnly
  <2> QED
    BY <2>1, <2>2
<1>9. ASSUME finalize_genesis
      PROVE  MintsOnly
  BY <1>0, <1>1, <1>9 DEF finalize_genesis
<1>10. ASSUME NEW a \in Amounts, NEW v \in Reads, draw_genesis_surplus(a, v)
       PROVE  MintsOnly
  BY <1>1, <1>10 DEF draw_genesis_surplus
<1>11. ASSUME recover_genesis_market
       PROVE  MintsOnly
  BY <1>1, <1>11 DEF recover_genesis_market
<1>12. CASE UNCHANGED vars
  BY <1>0, <1>12 DEF ledger, vars
<1> QED
  BY <1>2, <1>3, <1>4, <1>5, <1>6, <1>7, <1>8, <1>9, <1>10, <1>11, <1>12
  DEF Next, Deposits, Withdraws, Votes

Staked(i) == [u \in Users |-> WMin(ballot[u][i].principal, Remaining(u))]
QuorumStep ==
  \A i \in Items : dist[i].executed = 0 /\ dist'[i].executed = 1 =>
    2 * SumFunctionOnSet(Staked(i), Voters(i)) > Outstanding

(* The capital counted for an item is that of voters who still hold it.    *)
LEMMA VotersStillStaked ==
  ASSUME BallotInv, ~Finalized, NEW i \in Items
  PROVE  SumFunctionOnSet(Staked(i), Voters(i)) = dist[i].voted_principal
<1>0. LedgerTypeOK /\ Counted
  BY DEF BallotInv, SupplyInv, PoolInv, LifecycleInv
<1> DEFINE f == [u \in Users |-> ballot[u][i].principal]
           g == Staked(i)
           V == Voters(i)
<1>1. /\ IsFiniteSet(Users)
      /\ \A u \in Users : f[u] \in Nat
  BY <1>0, BallotSums
<1>2. \A u \in Users \ V : f[u] = 0
  BY <1>0 DEF LedgerTypeOK, GenesisDistributionVote, Voters, Cast, Counted
<1>3. ASSUME NEW u \in Users
      PROVE  g[u] = f[u]
  <2>1. f[u] \in Nat /\ Remaining(u) \in Nat /\ f[u] <= Remaining(u)
    BY <1>0, <1>1, RemainingType, WordAssumption DEF BallotInv, Behind, Word
  <2> QED
    BY <2>1 DEF Staked, WMin
<1>4. V \in SUBSET Users
  BY DEF Voters, Cast
<1>5. dist[i].voted_principal = SumFunctionOnSet(f, Users)
  BY <1>0 DEF Counted, Principals
<1> HIDE DEF f, g, V
<1>6. \A u \in Users : f[u] \in Int /\ g[u] \in Int
  BY <1>1, <1>3
<1>7. \A u \in Users \ V : g[u] = 0
  BY <1>2, <1>3
<1>8. SumFunctionOnSet(g, V) = SumFunctionOnSet(g, Users)
  BY <1>1, <1>4, <1>6, <1>7, SumOutsideZero
<1>9. SumFunctionOnSet(g, Users) = SumFunctionOnSet(f, Users)
  BY <1>1, <1>3, <1>6, SumSame
<1> QED
  BY <1>5, <1>8, <1>9 DEF g, V

(* When an item is first minted, voters who still hold their stake have    *)
(* voted on it with more than half of the principal outstanding.           *)
THEOREM QuorumHolds == ASSUME GuardsInForce
                       PROVE  Spec => QuorumStillStaked
<1>1. ASSUME BallotInv, [Next]_vars
      PROVE  QuorumStep
  <2>0. LedgerTypeOK
    BY <1>1 DEF BallotInv, SupplyInv, PoolInv, LifecycleInv
  <2> SUFFICES ASSUME NEW i \in Items,
                      dist[i].executed = 0 /\ dist'[i].executed = 1
               PROVE  2 * SumFunctionOnSet(Staked(i), Voters(i)) > Outstanding
    BY DEF QuorumStep
  <2>1. ~Finalized /\ QuorumMet(i)
    BY <1>1, <2>0, NextMints DEF MintsOnly
  <2>2. SumFunctionOnSet(Staked(i), Voters(i)) = dist[i].voted_principal
    BY <1>1, <2>1, VotersStillStaked
  <2>3. Outstanding \in Nat /\ dist[i].voted_principal \in Nat
    <3>1. Outstanding \in Word /\ dist[i].voted_principal \in Word
      BY <2>0, WSubType
      DEF Outstanding, LedgerTypeOK, GenesisConfig, GenesisDistribution
    <3> QED
      BY <3>1, WordAssumption DEF Word
  <2>4. dist[i].voted_principal > Outstanding \div 2
    BY <2>1 DEF QuorumMet
  <2>5. \A x, n \in Nat : x > n \div 2 => 2 * x > n
    OBVIOUS
  <2> QED
    BY <2>2, <2>3, <2>4, <2>5
<1>2. BallotInv /\ [Next]_vars => [QuorumStep]_vars
  BY <1>1
<1> QED
  BY <1>2, Ballots, PTL DEF Spec, QuorumStillStaked, QuorumStep, Staked

------------------------------------------------------------------------------
(* What the server forecasts.                                              *)

(* What the server forecasts of an attempt to mint.                        *)
ApprovalStep ==
  \A i \in Items, amount \in CoinAmounts :
    genesis_mint_reward(i, amount) /\ Kicked /\ ~Finalized =>
      (i \in Tool!Approved(dist, Outstanding) <=>
         status' \notin {STATUS_NO_MAJORITY, STATUS_NO_QUORUM})

(* project_coin_distribution approves an item exactly when the body, asked *)
(* to mint it in the phase for it, does not find the votes wanting.        *)
THEOREM ApprovalTold == Spec => ApprovalForecast
<1>1. ASSUME LedgerTypeOK PROVE ApprovalStep
  <2> SUFFICES ASSUME NEW i \in Items, NEW amount \in CoinAmounts,
                      genesis_mint_reward(i, amount), Kicked, ~Finalized
               PROVE  i \in Tool!Approved(dist, Outstanding) <=>
                        status' \notin {STATUS_NO_MAJORITY, STATUS_NO_QUORUM}
    BY DEF ApprovalStep
  <2>1. i \in Tool!Approved(dist, Outstanding) <=> Majority(i) /\ QuorumMet(i)
    BY <1>1 DEF LedgerTypeOK, Tool!Approved, Tool!Math!distribution_approved,
       Majority, QuorumMet
  <2>2. status' = MintStatus(i, amount)
    BY DEF genesis_mint_reward, Refuse
  <2>3. MintStatus(i, amount) \notin {STATUS_NO_MAJORITY, STATUS_NO_QUORUM}
          <=> Majority(i) /\ QuorumMet(i)
    BY DEF MintStatus, STATUS_OK, STATUS_NO_MAJORITY, STATUS_NO_QUORUM,
       STATUS_SUPPLY_OVERFLOW
  <2> QED
    BY <2>1, <2>2, <2>3
<1>2. LedgerTypeOK => [ApprovalStep]_vars
  BY <1>1
<1> QED
  BY <1>2, TypeCorrect, PTL DEF Spec, ApprovalForecast, ApprovalStep

(* What a power is.  The provers do not know it, so that the theorems that *)
(* need it say so.                                                         *)
PowersDouble == 2^0 = 1 /\ \A n \in Nat : 2^(n + 1) = 2 * 2^n

(* A power is a number above its exponent.                                 *)
LEMMA PowerAbove ==
  ASSUME PowersDouble
  PROVE  \A n \in Nat : 2^n \in Nat /\ 2^n > n
<1> DEFINE G == {n \in Nat : 2^n \in Nat /\ 2^n > n}
<1>1. 0 \in G
  BY DEF PowersDouble
<1>2. ASSUME NEW n \in Nat, n \in G PROVE n + 1 \in G
  <2> DEFINE x == 2^n
  <2>1. 2^(n + 1) = 2 * x /\ x \in Nat /\ x > n
    BY <1>2 DEF PowersDouble
  <2> HIDE DEF x
  <2>2. 2 * x \in Nat /\ 2 * x > n + 1
    BY <2>1
  <2> QED
    BY <2>1, <2>2
<1> HIDE DEF G
<1>3. Nat \subseteq G
  BY <1>1, <1>2, NatSetInduction
<1> QED
  BY <1>3 DEF G

(* Powers grow with their exponents.                                       *)
LEMMA PowersGrow ==
  ASSUME PowersDouble, NEW m \in Nat, NEW n \in Nat, m <= n
  PROVE  2^m <= 2^n
<1> DEFINE G == {k \in Nat : \A j \in 0 .. k : 2^j <= 2^k}
<1>1. 0 \in G
  <2>1. 2^0 = 1
    BY DEF PowersDouble
  <2>2. ASSUME NEW j \in 0 .. 0 PROVE 2^j <= 2^0
    <3>1. j = 0
      OBVIOUS
    <3>2. 2^j = 1
      BY <2>1, <3>1
    <3> QED
      BY <2>1, <3>2
  <2> QED
    BY <2>2
<1>2. ASSUME NEW k \in Nat, k \in G PROVE k + 1 \in G
  <2>1. 2^k \in Nat /\ 2^(k + 1) \in Nat
    BY PowerAbove
  <2>2. 2^k <= 2^(k + 1)
    <3> DEFINE x == 2^k
    <3>1. 2^(k + 1) = 2 * x
      BY DEF PowersDouble
    <3> HIDE DEF x
    <3>2. x \in Nat
      BY <2>1 DEF x
    <3>3. x <= 2 * x
      BY <3>2
    <3> QED
      BY <3>1, <3>3 DEF x
  <2>3. ASSUME NEW j \in 0 .. k + 1 PROVE 2^j <= 2^(k + 1)
    <3>1. CASE j = k + 1
      BY <2>1, <3>1
    <3>2. CASE j # k + 1
      <4>1. j \in 0 .. k /\ j \in Nat
        BY <3>2
      <4>2. 2^j <= 2^k /\ 2^j \in Nat
        BY <1>2, <4>1, PowerAbove
      <4> QED
        BY <2>1, <2>2, <4>2
    <3> QED
      BY <3>1, <3>2
  <2> QED
    BY <2>3
<1> HIDE DEF G
<1>3. Nat \subseteq G
  BY <1>1, <1>2, NatSetInduction
<1>4. n \in G /\ m \in 0 .. n
  BY <1>3
<1> QED
  BY <1>4 DEF G

(* Every age but zero lies between two powers.                             *)
LEMMA BetweenPowers ==
  ASSUME PowersDouble, NEW a \in Nat, a >= 1
  PROVE  \E k \in Nat : 2^k <= a /\ a < 2^(k + 1)
<1> DEFINE G == {k \in Nat : 2^k <= a}
<1>1. SUFFICES ASSUME \A k \in Nat : ~(2^k <= a /\ a < 2^(k + 1)) PROVE FALSE
  OBVIOUS
<1>2. 0 \in G
  BY DEF PowersDouble
<1>3. ASSUME NEW k \in Nat, k \in G PROVE k + 1 \in G
  <2>1. 2^k <= a /\ 2^(k + 1) \in Nat
    BY <1>3, PowerAbove
  <2> QED
    BY <1>1, <2>1
<1> HIDE DEF G
<1>4. Nat \subseteq G
  BY <1>2, <1>3, NatSetInduction
<1>5. 2^a <= a
  BY <1>4 DEF G
<1>6. 2^a \in Nat /\ 2^a > a
  BY PowerAbove
<1> QED
  BY <1>5, <1>6

(* The count of the shift loop is the integer logarithm the reference      *)
(* takes in one instruction, for every age that has one.                   *)
LEMMA HalvingsAreLog ==
  ASSUME PowersDouble, NEW a \in Nat, a >= 1
  PROVE  Halvings(a) = Tool!Math!Ilog2(a)
<1>1. PICK k \in Nat : 2^k <= a /\ a < 2^(k + 1)
  BY BetweenPowers
<1>2. ASSUME NEW j \in Nat PROVE 2^j <= a <=> j <= k
  <2>1. /\ 2^j \in Nat /\ 2^k \in Nat /\ 2^(k + 1) \in Nat
        /\ j <= k => 2^j <= 2^k
        /\ k + 1 <= j => 2^(k + 1) <= 2^j
    BY PowerAbove, PowersGrow
  <2>2. j <= k \/ k + 1 <= j
    OBVIOUS
  <2>3. CASE j <= k
    BY <1>1, <2>1, <2>3
  <2>4. CASE k + 1 <= j
    BY <1>1, <2>1, <2>4
  <2> QED
    BY <2>2, <2>3, <2>4
<1>3. k < a
  <2>1. 2^k \in Nat /\ 2^k > k
    BY PowerAbove
  <2> QED
    BY <1>1, <2>1
<1>4. Halvings(a) = k
  <2>1. {j \in 1 .. a : 2^j <= a} = 1 .. k
    BY <1>2, <1>3
  <2>2. Cardinality(1 .. k) = k
    BY FS_Interval
  <2> QED
    BY <2>1, <2>2 DEF Halvings
<1>5. \A j \in 0 .. a : 2^j <= a /\ a < 2^(j + 1) <=> j = k
  <2>1. TAKE j \in 0 .. a
  <2>2. 2^j <= a <=> j <= k
    BY <1>2
  <2>3. 2^(j + 1) <= a <=> j + 1 <= k
    BY <1>2
  <2>4. 2^(j + 1) \in Nat
    BY PowerAbove
  <2>5. a < 2^(j + 1) <=> ~(2^(j + 1) <= a)
    BY <2>4
  <2> QED
    BY <2>2, <2>3, <2>5
<1>6. k \in 0 .. a
  BY <1>3
<1> QED
  BY <1>4, <1>5, <1>6 DEF Tool!Math!Ilog2

(* An age of two halves at least once.                                     *)
LEMMA HalvedOnce ==
  ASSUME PowersDouble, NEW a \in Nat, a >= 2
  PROVE  Halvings(a) \in Nat /\ Halvings(a) >= 1
<1> DEFINE S == {k \in 1 .. a : 2^k <= a}
<1>1. 2^1 = 2
  <2>1. 2^(0 + 1) = 2 * 2^0 /\ 2^0 = 1
    BY DEF PowersDouble
  <2> QED
    BY <2>1
<1>2. 1 \in S
  BY <1>1
<1>3. IsFiniteSet(S)
  <2>1. IsFiniteSet(1 .. a) /\ S \in SUBSET (1 .. a)
    BY FS_Interval
  <2> QED
    BY <2>1, FS_Subset
<1> HIDE DEF S
<1>4. Cardinality(S) \in Nat /\ Cardinality(S) # 0
  BY <1>2, <1>3, FS_CardinalityType, FS_EmptySet
<1> QED
  BY <1>4 DEF S, Halvings

(* What the server forecasts of a vote.                                    *)
VoteStep ==
  \A u \in Users, i \in Items, action \in {0, 1}, now_slot \in Slots :
    LET age == now_slot - pos[u].start_slot
        told == Tool!simulate_genesis_vote(Remaining(u), now_slot,
                                           pos[u].start_slot)
    IN  /\ vote_genesis_distribution(u, i, action, now_slot)
        /\ age >= 0 /\ Halvings(age) * Remaining(u) < W
        => IF told = 0 THEN status' = STATUS_NO_VOTE_WEIGHT
           ELSE status' = STATUS_OK /\ ballot'[u][i].weight = told

(* simulate_genesis_vote announces the weight the body tallies, and zero   *)
(* to whom the body refuses, whatever the guards: saturating product and   *)
(* clamped age against wrapping ones, an instruction against a loop.  They *)
(* agree on every slot not before the stake's and every product that fits  *)
(* in a word, and the property asks for no more.                           *)
THEOREM VoteTold == ASSUME PowersDouble
                    PROVE  Spec => VoteForecast
<1>1. ASSUME LedgerTypeOK PROVE VoteStep
  <2> SUFFICES
        ASSUME NEW u \in Users, NEW i \in Items, NEW action \in {0, 1},
               NEW now \in Slots, vote_genesis_distribution(u, i, action, now),
               now - pos[u].start_slot >= 0,
               Halvings(now - pos[u].start_slot) * Remaining(u) < W
        PROVE  LET told == Tool!simulate_genesis_vote(Remaining(u), now,
                                                      pos[u].start_slot)
               IN  IF told = 0 THEN status' = STATUS_NO_VOTE_WEIGHT
                   ELSE status' = STATUS_OK /\ ballot'[u][i].weight = told
    BY DEF VoteStep
  <2> DEFINE start == pos[u].start_slot
             age == now - start
             p == Remaining(u)
             h == Halvings(age)
             told == Tool!simulate_genesis_vote(p, now, start)
  <2>1. now \in Nat /\ start \in Nat /\ age \in Nat /\ p \in 0 .. W - 1
    <3>1. now \in Word /\ start \in Word
      BY <1>1, InputAssumption DEF LedgerTypeOK, GenesisPosition
    <3> QED
      BY <1>1, <3>1, RemainingType, WordAssumption DEF Word
  <2>2. WSub(now, start) = age /\ Tool!Math!SaturatingSub(now, start) = age
    BY <2>1 DEF WSub, Tool!Math!SaturatingSub
  <2>3. VoteWeight(u, now) = IF p = 0 \/ age < 2 THEN 0 ELSE WMul(h, p)
    BY <2>2 DEF VoteWeight
  <2>4. told = IF p = 0 \/ age < 2 THEN 0
               ELSE Tool!Math!SaturatingMul(Tool!Math!Ilog2(age), p)
    <3> HIDE DEF age, p, start
    <3> QED
      BY <2>2 DEF Tool!simulate_genesis_vote, Tool!Math!genesis_vote_weight
  <2>5. told = VoteWeight(u, now)
    <3>1. CASE p = 0 \/ age < 2
      BY <2>3, <2>4, <3>1
    <3>2. CASE ~(p = 0 \/ age < 2)
      <4>1. h = Tool!Math!Ilog2(age) /\ h \in Nat
        BY <2>1, <3>2, HalvingsAreLog, HalvedOnce
      <4>2. h * p \in Nat /\ h * p < W /\ W \in Nat \ {0}
        BY <2>1, <4>1, WordAssumption
      <4> HIDE DEF age, p, h, told
      <4>3. WMul(h, p) = h * p
        BY <4>2, ModSmall DEF WMul
      <4>4. Tool!Math!SaturatingMul(h, p) = h * p
        BY <4>2 DEF Tool!Math!SaturatingMul
      <4> QED
        BY <2>3, <2>4, <3>2, <4>1, <4>3, <4>4
    <3> QED
      BY <3>1, <3>2
  <2>6. CASE told = 0
    BY <2>5, <2>6 DEF vote_genesis_distribution, Refuse
  <2>7. CASE told # 0
    <3>1. /\ CastBallot(u, i, action, VoteWeight(u, now), Remaining(u))
          /\ status' = STATUS_OK
      BY <2>5, <2>7 DEF vote_genesis_distribution
    <3>2. ballot'[u][i].weight = VoteWeight(u, now)
      BY <1>1, <3>1 DEF CastBallot, LedgerTypeOK
    <3> QED
      BY <2>5, <2>7, <3>1, <3>2
  <2> QED
    BY <2>6, <2>7
<1>2. LedgerTypeOK => [VoteStep]_vars
  BY <1>1
<1> QED
  BY <1>2, TypeCorrect, PTL DEF Spec, VoteForecast, VoteStep

==============================================================================
